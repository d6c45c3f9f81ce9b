------------------------ MODULE BridgeTransportProofs ------------------------
(***************************************************************************)
(* What holds of the bridge socket's client for every set of callers,      *)
(* whichever of them may be cancelled, and any number of requests: and     *)
(* that its request() is the remote call of BridgeRpc.                     *)
(***************************************************************************)
EXTENDS BridgeTransport, SequenceTheorems, FiniteSetTheorems, TLAPS

-----------------------------------------------------------------------------
(* The mutex: every request under way stands in the queue once, and only    *)
(* its head is between connecting and the end of its attempt.               *)
InQueue(c) == \E i \in DOMAIN queue : queue[i] = c

Lock ==
    /\ \A i, j \in DOMAIN queue : queue[i] = queue[j] => i = j
    /\ \A c \in Callers :
         /\ stage[c] # "idle" <=> InQueue(c)
         /\ stage[c] \in Exchanging => Holds(c) /\ link # NoLink
         /\ stage[c] = "midline" => link.down # <<>>

(* Ids are handed out once, and whoever has one has an open request. *)
Numbered ==
    /\ \A c \in Callers :
         IF stage[c] = "idle" THEN attempt[c] = 0
         ELSE reqId[c] \in Ids /\ reqId[c] < nextId /\ outcome[reqId[c]] = "open"
    /\ \A c, d \in Callers : 
         stage[c] # "idle" /\ stage[d] # "idle" /\ reqId[c] = reqId[d] => c = d
    /\ \A r \in Ids : r >= nextId <=> outcome[r] = "unused"

LinesOf(r) == {i \in DOMAIN written : written[i].id = r}

(* What is on the connection has been written. *)
OnLink(r) ==
    \/ \E i \in DOMAIN link.up : link.up[i] = r
    \/ r \in link.seen
    \/ \E i \in DOMAIN link.down : link.down[i] = r

Heard ==
    /\ \A i \in DOMAIN written : written[i].epoch <= epoch /\ written[i].id < nextId
    /\ link # NoLink => \A r \in Ids : OnLink(r) => LinesOf(r) # {}

(* What has been written of a request, before and after an attempt's write. *)
Before == {"waiting", "connected", "writing"}

Tried(c) ==
    /\ stage[c] \in Before =>
         /\ attempt[c] = 0 => LinesOf(reqId[c]) = {}
         /\ link # NoLink => \A i \in LinesOf(reqId[c]) : written[i].epoch < epoch
    /\ stage[c] \in Before \/ attempt[c] = 0 =>
         \A i, j \in LinesOf(reqId[c]) : i = j

AtMostTwice ==
    \A i, j, k \in DOMAIN written :
        written[i].id = written[j].id /\ written[j].id = written[k].id
            => i = j \/ j = k \/ i = k

Reconnected ==
    \A i, j \in DOMAIN written :
        i < j /\ written[i].id = written[j].id => written[i].epoch < written[j].epoch

Tries ==
    /\ Reconnected /\ AtMostTwice
    /\ \A c \in Callers : stage[c] # "idle" => Tried(c)

Inv == TypeOK /\ Lock /\ Numbered /\ Heard /\ Tries

Garbled == IF link = NoLink THEN {} ELSE {i \in DOMAIN link.down : link.down[i] = Garbage}

Blamed == Count("invalid") + Cardinality(Garbled) <= garbage + Count("cancelled")

LEMMA InitInv == Init => Inv
<1> SUFFICES ASSUME Init PROVE Inv
  OBVIOUS
<1>1. TypeOK
  BY TransportAssumption DEF Init, TypeOK, Stages, Outcomes, Ids
<1>2. Lock /\ Numbered
  BY TransportAssumption DEF Init, Lock, InQueue, Exchanging, Numbered, Ids
<1>3. Heard /\ Tries
  BY DEF Init, Heard, Tries, Reconnected, AtMostTwice
<1> QED BY <1>1, <1>2, <1>3 DEF Inv

-----------------------------------------------------------------------------
(* Taking an element out of a sequence closes the gap and keeps the order.  *)
LEMMA RemovedAt ==
    ASSUME NEW S, NEW s \in Seq(S), NEW k \in DOMAIN s, NEW t, t = RemoveAt(s, k)
    PROVE  /\ t \in Seq(S) /\ DOMAIN t = 1..(Len(s) - 1)
           /\ \A i \in DOMAIN t : t[i] = IF i < k THEN s[i] ELSE s[i + 1]
<1> DEFINE a == SubSeq(s, 1, k - 1)
           b == SubSeq(s, k + 1, Len(s))
<1>1. t = a \o b /\ t \in Seq(S) /\ Len(t) = Len(s) - 1
  BY SMTT(30) DEF RemoveAt
<1>2. a \in Seq(S) /\ Len(a) = k - 1 /\ \A i \in 1..(k - 1) : a[i] = s[i]
  OBVIOUS
<1>3. /\ b \in Seq(S) /\ Len(b) = Len(s) - k
      /\ \A i \in 1..(Len(s) - k) : b[i] = s[k + i]
  OBVIOUS
<1> HIDE DEF a, b
<1>4. \A i \in DOMAIN t : t[i] = IF i <= Len(a) THEN a[i] ELSE b[i - Len(a)]
  BY <1>1, <1>2, <1>3
<1>5. ASSUME NEW i \in DOMAIN t
      PROVE  t[i] = IF i < k THEN s[i] ELSE s[i + 1]
  <2>1. CASE i < k
    BY <1>1, <1>2, <1>4, <2>1
  <2>2. CASE i >= k
    <3>1. i - (k - 1) \in 1..(Len(s) - k)
      BY <1>1, <2>2
    <3>2. b[i - (k - 1)] = s[k + (i - (k - 1))]
      BY <1>3, <3>1
    <3>3. k + (i - (k - 1)) = i + 1
      BY <1>1, <2>2
    <3> QED BY <1>1, <1>2, <1>4, <2>2, <3>2, <3>3
  <2> QED BY <1>1, <2>1, <2>2
<1> QED BY <1>1, <1>5

(* Whoever leaves is gone, the others stay, and the head stays the head. *)
LEMMA LeaveRemoves ==
    ASSUME TypeOK, Lock, NEW c \in Callers, stage[c] # "idle", NEW left, left = Leave(c)
    PROVE  /\ left \in Seq(Callers)
           /\ \A i, j \in DOMAIN left : left[i] = left[j] => i = j
           /\ \A d \in Callers : (\E i \in DOMAIN left : left[i] = d) <=> InQueue(d) /\ d # c
           /\ \A d \in Callers \ {c} : Holds(d) => left # <<>> /\ Head(left) = d
<1>1. PICK k \in DOMAIN queue : queue[k] = c
  BY DEF Lock, InQueue
<1>2. queue \in Seq(Callers) /\ \A i, j \in DOMAIN queue : queue[i] = queue[j] => i = j
  BY DEF TypeOK, Lock
<1>3. /\ left \in Seq(Callers) /\ DOMAIN left = 1..(Len(queue) - 1)
      /\ \A i \in DOMAIN left : left[i] = IF i < k THEN queue[i] ELSE queue[i + 1]
  BY <1>1, <1>2, RemovedAt DEF Leave
<1>4. \A i, j \in DOMAIN left : left[i] = left[j] => i = j
  <2> SUFFICES ASSUME NEW i \in DOMAIN left, NEW j \in DOMAIN left, i < j, left[i] = left[j]
               PROVE  FALSE
    BY <1>3
  <2>1. {i, i + 1, j, j + 1} \subseteq DOMAIN queue
    BY <1>2, <1>3
  <2>2. CASE j < k
    BY <1>2, <1>3, <2>1, <2>2
  <2>3. CASE i < k /\ j >= k
    BY <1>2, <1>3, <2>1, <2>3
  <2>4. CASE i >= k
    BY <1>2, <1>3, <2>1, <2>4
  <2> QED BY <1>1, <1>2, <1>3, <2>2, <2>3, <2>4
<1>5. ASSUME NEW d \in Callers, NEW i \in DOMAIN queue, queue[i] = d, d # c
      PROVE  \E j \in DOMAIN left : left[j] = d
  <2>1. CASE i < k
    <3>1. i \in DOMAIN left /\ left[i] = d
      BY <1>1, <1>2, <1>3, <1>5, <2>1
    <3> QED BY <3>1
  <2>2. CASE i > k
    <3>1. i - 1 \in DOMAIN left /\ left[i - 1] = d
      BY <1>1, <1>2, <1>3, <1>5, <2>2
    <3> QED BY <3>1
  <2> QED BY <1>1, <1>2, <1>5, <2>1, <2>2
<1>6. ASSUME NEW d \in Callers, NEW i \in DOMAIN left, left[i] = d
      PROVE  InQueue(d) /\ d # c
  <2>1. PICK j \in DOMAIN queue : j # k /\ queue[j] = d
    <3>1. CASE i < k
      BY <1>1, <1>2, <1>3, <1>6, <3>1
    <3>2. CASE i >= k
      <4>1. i + 1 \in DOMAIN queue /\ queue[i + 1] = d /\ i + 1 # k
        BY <1>1, <1>2, <1>3, <1>6, <3>2
      <4> QED BY <4>1
    <3> QED BY <1>1, <1>2, <1>3, <1>6, <3>1, <3>2
  <2> QED BY <1>1, <1>2, <2>1 DEF InQueue
<1>7. ASSUME NEW d \in Callers \ {c}, Holds(d)
      PROVE  left # <<>> /\ Head(left) = d
  <2>1. queue[1] = d /\ 1 \in DOMAIN queue /\ 1 < k
    BY <1>1, <1>2, <1>7 DEF Holds
  <2>2. 1 \in DOMAIN left /\ left[1] = d
    BY <1>1, <1>2, <1>3, <2>1
  <2> QED BY <1>3, <2>2
<1> QED BY <1>3, <1>4, <1>5, <1>6, <1>7 DEF InQueue

-----------------------------------------------------------------------------
(* What several actions have in common. *)

LEMMA WrittenType ==
    ASSUME TypeOK
    PROVE  \A i \in DOMAIN written : written[i].id \in Ids /\ written[i].epoch \in Nat
<1> DEFINE R == [id: Ids, epoch: Nat]
<1>1. written \in Seq(R)
  BY DEF TypeOK
<1>2. \A i \in DOMAIN written : written[i] \in R
  <2> HIDE DEF R
  <2> QED BY <1>1
<1> QED BY <1>2

LEMMA HeadFirst ==
    ASSUME NEW S, NEW s \in Seq(S)
    PROVE  /\ s # <<>> <=> Len(s) > 0
           /\ s # <<>> => Head(s) = s[1]
OBVIOUS

LEMMA TailFacts ==
    ASSUME NEW S, NEW s \in Seq(S), s # <<>>, NEW t, t = Tail(s)
    PROVE  /\ t \in Seq(S) /\ Len(t) = Len(s) - 1
           /\ \A i \in DOMAIN t : i + 1 \in DOMAIN s /\ t[i] = s[i + 1]
OBVIOUS

LEMMA ConcatFacts ==
    ASSUME NEW S, NEW a \in Seq(S), NEW b \in Seq(S), NEW t, t = a \o b
    PROVE  /\ t \in Seq(S) /\ Len(t) = Len(a) + Len(b)
           /\ \A i \in 1..Len(t) : t[i] = IF i <= Len(a) THEN a[i] ELSE b[i - Len(a)]
<1>1. t \in Seq(S) /\ Len(t) = Len(a) + Len(b)
  OBVIOUS
<1>2. \A i \in 1..Len(t) : t[i] = IF i <= Len(a) THEN a[i] ELSE b[i - Len(a)]
  OBVIOUS
<1> QED BY <1>1, <1>2

(* What a dropped reader leaves behind: the same lines, the first one torn. *)
LEMMA TornFacts ==
    ASSUME NEW S, NEW s \in Seq(S), s # <<>>, NEW x \in S, NEW t, t = <<x>> \o Tail(s)
    PROVE  /\ t \in Seq(S) /\ DOMAIN t = DOMAIN s /\ t # <<>> /\ t[1] = x
           /\ \A i \in DOMAIN t : i # 1 => t[i] = s[i]
<1>1. PICK a \in Seq(S) : a = <<x>> /\ Len(a) = 1 /\ a[1] = x
  <2>1. <<x>> \in Seq(S) /\ Len(<<x>>) = 1 /\ <<x>>[1] = x
    OBVIOUS
  <2> QED BY <2>1
<1>2. PICK b \in Seq(S) : /\ b = Tail(s) /\ Len(b) = Len(s) - 1
                          /\ \A i \in DOMAIN b : b[i] = s[i + 1]
  <2>1. /\ Tail(s) \in Seq(S) /\ Len(Tail(s)) = Len(s) - 1
        /\ \A i \in DOMAIN Tail(s) : Tail(s)[i] = s[i + 1]
    BY TailFacts
  <2> QED BY <2>1
<1>3. /\ t \in Seq(S) /\ Len(t) = Len(a) + Len(b)
      /\ \A i \in 1..Len(t) : t[i] = IF i <= Len(a) THEN a[i] ELSE b[i - Len(a)]
  <2>1. t = a \o b
    BY <1>1, <1>2
  <2> QED BY ONLY <2>1, <1>1, <1>2, a \in Seq(S), b \in Seq(S), ConcatFacts
<1>4. /\ Len(s) \in Nat /\ Len(s) > 0 /\ Len(t) = Len(s)
      /\ DOMAIN s = 1..Len(s) /\ DOMAIN t = 1..Len(t)
  BY <1>1, <1>2, <1>3, HeadFirst
<1>5. ASSUME NEW i \in DOMAIN t, i # 1
      PROVE  t[i] = s[i]
  <2>1. i - 1 \in DOMAIN b /\ t[i] = b[i - 1] /\ (i - 1) + 1 = i
    BY <1>1, <1>2, <1>3, <1>4, <1>5
  <2> QED BY <1>2, <2>1
<1>6. t # <<>> /\ t[1] = x
  BY <1>1, <1>3, <1>4
<1> QED BY <1>3, <1>4, <1>5, <1>6

(* Two tasks never exchange at a time. *)
LEMMA OthersWait ==
    ASSUME Inv, NEW c \in Callers, NEW d \in Callers,
           stage[c] \in Exchanging, stage[d] \in Exchanging
    PROVE  c = d
BY DEF Inv, Lock, Holds

(* A step that writes nothing and lets nobody try again. *)
LEMMA TriesStay ==
    ASSUME Tries, UNCHANGED <<written, epoch>>, link' # NoLink => link # NoLink,
           \A d \in Callers :
              \/ stage'[d] = "idle"
              \/ /\ UNCHANGED <<reqId[d], attempt[d]>>
                 /\ stage[d] # "idle"
                 /\ stage'[d] \in Before => stage[d] \in Before
    PROVE  Tries'
<1>1. \A r : LinesOf(r)' = LinesOf(r)
  BY DEF LinesOf
<1>2. Reconnected' /\ AtMostTwice'
  BY DEF Tries, Reconnected, AtMostTwice
<1>3. ASSUME NEW d \in Callers, stage'[d] # "idle"
      PROVE  Tried(d)'
  BY <1>1, <1>3 DEF Tries, Tried
<1> QED BY <1>2, <1>3 DEF Tries

(* A step that puts nothing on the connection. *)
LEMMA HeardStays ==
    ASSUME TypeOK, Heard, UNCHANGED written, nextId' \in Nat, nextId' >= nextId,
           epoch' \in Nat, epoch' >= epoch,
           link' # NoLink => \A r \in Ids : OnLink(r)' => link # NoLink /\ OnLink(r)
    PROVE  Heard'
<1>1. \A r : LinesOf(r)' = LinesOf(r)
  BY DEF LinesOf
<1>2. \A i \in DOMAIN written' : written'[i].epoch <= epoch' /\ written'[i].id < nextId'
  BY SMTT(30), WrittenType DEF Heard, TypeOK, Ids
<1> QED BY <1>1, <1>2 DEF Heard

LEMMA NewLinkType == NewLink \in Links /\ NewLink # NoLink
<1>1. <<>> \in Seq(WireLine)
  BY EmptySeq
<1>2. NewLink \in Links
  BY <1>1 DEF NewLink, Links
<1> QED BY <1>2, NoLinkAssumption

(* A caller that is done has left the queue, and its id is not given again. *)
LEMMA FinishKeeps ==
    ASSUME Inv, NEW c \in Callers, stage[c] # "idle",
           NEW result \in Outcomes \ {"unused", "open"}, Finish(c, result)
    PROVE  /\ queue' \in Seq(Callers) /\ stage' \in [Callers -> Stages]
           /\ reqId' \in [Callers -> Nat] /\ attempt' \in [Callers -> {0, 1}]
           /\ outcome' \in [Ids -> Outcomes] /\ nextId' = nextId
           /\ \A i, j \in DOMAIN queue' : queue'[i] = queue'[j] => i = j
           /\ \A d \in Callers : stage'[d] # "idle" <=> InQueue(d)'
           /\ \A d \in Callers \ {c} : Holds(d) => Holds(d)'
           /\ stage'[c] = "idle"
           /\ \A d \in Callers \ {c} : UNCHANGED <<stage[d], reqId[d], attempt[d]>>
           /\ Numbered'
<1> USE DEF Inv, Finish
<1>1. /\ stage' \in [Callers -> Stages] /\ reqId' \in [Callers -> Nat]
      /\ attempt' \in [Callers -> {0, 1}] /\ outcome' \in [Ids -> Outcomes]
      /\ nextId' = nextId
  BY DEF TypeOK, Stages
<1>2. /\ stage'[c] = "idle" /\ attempt'[c] = 0
      /\ \A d \in Callers \ {c} : UNCHANGED <<stage[d], reqId[d], attempt[d]>>
  BY DEF TypeOK
<1>3. /\ queue' \in Seq(Callers)
      /\ \A i, j \in DOMAIN queue' : queue'[i] = queue'[j] => i = j
      /\ \A d \in Callers : InQueue(d)' <=> InQueue(d) /\ d # c
      /\ \A d \in Callers \ {c} : Holds(d) => Holds(d)'
  BY LeaveRemoves DEF InQueue, Holds
<1>4. \A d \in Callers : stage'[d] # "idle" <=> InQueue(d)'
  BY <1>2, <1>3 DEF Lock
<1>5. Numbered'
  <2>1. reqId[c] \in Ids /\ reqId[c] < nextId /\ outcome'[reqId[c]] = result
        /\ \A r \in Ids \ {reqId[c]} : outcome'[r] = outcome[r]
    BY DEF Numbered, TypeOK
  <2> QED BY <1>2, <2>1 DEF Numbered, TypeOK, Ids
<1> QED BY <1>1, <1>2, <1>3, <1>4, <1>5

-----------------------------------------------------------------------------
(* Each action keeps the invariant. *)
LEMMA CallKeeps ==
    ASSUME Inv, NEW c \in Callers, Call(c)
    PROVE  Inv'
<1> USE DEF Inv, Call
<1>1. TypeOK'
  BY TransportAssumption DEF TypeOK, Stages, Outcomes, Ids
<1>2. \A d \in Callers \ {c} : UNCHANGED <<stage[d], reqId[d], attempt[d]>>
  BY DEF TypeOK
<1>3. stage'[c] = "waiting" /\ reqId'[c] = nextId /\ attempt'[c] = 0
  BY DEF TypeOK, Numbered
<1>4. Lock'
  <2>1. /\ Len(queue') = Len(queue) + 1 /\ DOMAIN queue' = 1..(Len(queue) + 1)
        /\ DOMAIN queue = 1..Len(queue) /\ Len(queue) \in Nat
        /\ queue'[Len(queue) + 1] = c
        /\ \A i \in DOMAIN queue : queue'[i] = queue[i]
    BY DEF TypeOK
  <2>2. ~InQueue(c)
    BY DEF Lock
  <2>3. \A i, j \in DOMAIN queue' : queue'[i] = queue'[j] => i = j
    BY <2>1, <2>2 DEF Lock, InQueue
  <2>4. \A d \in Callers : InQueue(d)' <=> InQueue(d) \/ d = c
    BY <2>1 DEF InQueue
  <2>5. \A d \in Callers : Holds(d) => Holds(d)'
    <3>1. queue' \in Seq(Callers)
      BY DEF TypeOK
    <3> QED BY <2>1, <3>1, HeadFirst DEF Holds, TypeOK
  <2> QED BY <1>2, <1>3, <2>3, <2>4, <2>5 DEF Lock, Exchanging
<1>5. Numbered'
  <2>1. outcome'[nextId] = "open" /\ \A r \in Ids \ {nextId} : outcome'[r] = outcome[r]
    BY DEF TypeOK
  <2> QED BY <1>2, <1>3, <2>1 DEF Numbered, TypeOK, Ids
<1>6. LinesOf(nextId) = {}
  BY SMTT(30), WrittenType DEF Heard, LinesOf, TypeOK, Ids
<1>7. Heard'
  BY HeardStays DEF OnLink, TypeOK, Ids
<1>8. Tries'
  <2>1. \A r : LinesOf(r)' = LinesOf(r)
    BY DEF LinesOf
  <2>2. Reconnected' /\ AtMostTwice'
    BY DEF Tries, Reconnected, AtMostTwice
  <2>3. Tried(c)'
    BY <1>3, <1>6, <2>1 DEF Tried
  <2>4. ASSUME NEW d \in Callers \ {c}, stage[d] # "idle"
        PROVE  Tried(d)'
    <3>1. stage'[d] = stage[d] /\ reqId'[d] = reqId[d] /\ attempt'[d] = attempt[d]
      BY ONLY <1>2, <2>4
    <3>2. UNCHANGED <<written, epoch, link>>
      OBVIOUS
    <3>3. Tried(d)
      BY <2>4 DEF Tries
    <3>4. LinesOf(reqId[d])' = LinesOf(reqId[d])
      BY <3>1, <3>2 DEF LinesOf
    <3> QED BY ONLY <3>1, <3>2, <3>3, <3>4 DEF Tried
  <2> QED BY <1>2, <2>2, <2>3, <2>4 DEF Tries
<1> QED BY <1>1, <1>4, <1>5, <1>7, <1>8

LEMMA AcquireKeeps ==
    ASSUME Inv, NEW c \in Callers, Acquire(c)
    PROVE  Inv'
<1> USE DEF Inv, Acquire
<1>1. CASE stage' = [stage EXCEPT ![c] = "connected"]
           /\ UNCHANGED <<nextId, reqId, attempt, outcome, queue, written, garbage>>
           /\ link' # NoLink /\ link' \in Links
           /\ \/ UNCHANGED <<link, epoch>>
              \/ link = NoLink /\ link' = NewLink /\ epoch' = epoch + 1
  <2> USE <1>1
  <2>1. stage'[c] = "connected" /\ \A d \in Callers \ {c} : stage'[d] = stage[d]
    BY DEF TypeOK
  <2>2. TypeOK'
    BY DEF TypeOK, Stages
  <2>3. Lock'
    BY <2>1 DEF Lock, InQueue, Holds, Exchanging
  <2>4. Numbered'
    BY <2>1 DEF Numbered
  <2>5. Heard'
    <3>1. CASE UNCHANGED <<link, epoch>>
      BY <3>1 DEF Heard, LinesOf, OnLink
    <3>2. CASE link' = NewLink /\ epoch' = epoch + 1
      <4>1. \A r \in Ids : ~OnLink(r)'
        BY <3>2 DEF OnLink, NewLink
      <4> QED BY <3>2, <4>1, HeardStays DEF TypeOK
    <3> QED BY <3>1, <3>2
  <2>6. Tries'
    <3>1. \A r : LinesOf(r)' = LinesOf(r)
      BY DEF LinesOf
    <3>2. Reconnected' /\ AtMostTwice'
      BY DEF Tries, Reconnected, AtMostTwice
    <3>3. ASSUME NEW d \in Callers, stage'[d] # "idle"
          PROVE  Tried(d)'
      <4>1. Tried(d) /\ (stage'[d] \in Before <=> stage[d] \in Before)
        BY <2>1, <3>3 DEF Tries, Before
      <4>2. CASE UNCHANGED <<link, epoch>>
        BY <3>1, <4>1, <4>2 DEF Tried
      <4>3. CASE epoch' = epoch + 1
        BY <3>1, <4>1, <4>3, WrittenType DEF Tried, Heard, LinesOf, TypeOK
      <4> QED BY <4>2, <4>3
    <3> QED BY <3>2, <3>3 DEF Tries
  <2> QED BY <2>2, <2>3, <2>4, <2>5, <2>6
<1>2. CASE link = NoLink /\ Finish(c, "refused") /\ UNCHANGED <<link, epoch, written, garbage>>
  <2> USE <1>2
  <2>1. "refused" \in Outcomes \ {"unused", "open"}
    BY DEF Outcomes
  <2>2. TypeOK'
    BY <2>1, FinishKeeps DEF TypeOK
  <2>3. Lock'
    BY <2>1, FinishKeeps DEF Lock, Exchanging
  <2>4. Heard'
    BY HeardStays DEF Finish, TypeOK
  <2>5. Tries'
    BY <2>1, FinishKeeps, TriesStay DEF Finish
  <2> QED BY <2>1, <2>2, <2>3, <2>4, <2>5, FinishKeeps
<1> QED BY <1>1, <1>2, NewLinkType DEF TypeOK

(* Whoever exchanges goes on: nobody else does, so nobody else minds. *)
LEMMA ExchangeGoesOn ==
    ASSUME Inv, NEW c \in Callers, stage[c] \in Exchanging, NEW to \in Exchanging,
           stage' = [stage EXCEPT ![c] = to],
           UNCHANGED <<nextId, reqId, attempt, outcome, queue>>,
           link' # NoLink, to = "midline" => link'.down # <<>>
    PROVE  /\ stage' \in [Callers -> Stages] /\ Lock' /\ Numbered'
           /\ stage'[c] = to /\ \A d \in Callers \ {c} : stage'[d] = stage[d]
<1>1. /\ stage'[c] = to /\ \A d \in Callers \ {c} : stage'[d] = stage[d]
      /\ stage' \in [Callers -> Stages]
  BY DEF Inv, TypeOK, Stages, Exchanging
<1>2. \A d \in Callers \ {c} : stage[d] \notin Exchanging
  BY OthersWait
<1>3. "idle" \notin Exchanging /\ "midline" \in Exchanging
  BY DEF Exchanging
<1>4. Lock'
  BY <1>1, <1>2, <1>3 DEF Inv, Lock, InQueue, Holds
<1>5. Numbered'
  BY <1>1, <1>3 DEF Inv, Numbered
<1> QED BY <1>1, <1>4, <1>5

LEMMA WriteBeginsKeeps ==
    ASSUME Inv, NEW c \in Callers, WriteBegins(c)
    PROVE  Inv'
<1> USE DEF WriteBegins
<1>1. link \in Links /\ link' \in Links
      /\ link'.up = link.up /\ link'.seen = link.seen /\ link'.down = link.down
  BY DEF Inv, TypeOK, Lock, Exchanging, Links
<1>2. link # NoLink /\ link' # NoLink
  BY <1>1, NoLinkAssumption
<1>3. /\ stage' \in [Callers -> Stages] /\ Lock' /\ Numbered'
      /\ stage'[c] = "writing" /\ \A d \in Callers \ {c} : stage'[d] = stage[d]
  BY <1>2, ExchangeGoesOn DEF Exchanging
<1>4. TypeOK'
  BY <1>1, <1>3 DEF Inv, TypeOK
<1>5. Heard'
  BY <1>1, <1>2, HeardStays DEF Inv, TypeOK, OnLink
<1>6. Tries'
  BY <1>2, <1>3, TriesStay DEF Inv, Before
<1> QED BY <1>3, <1>4, <1>5, <1>6 DEF Inv

LEMMA ReadBeginsKeeps ==
    ASSUME Inv, NEW c \in Callers, ReadBegins(c)
    PROVE  Inv'
<1> USE DEF ReadBegins
<1>1. link # NoLink /\ UNCHANGED link
  BY DEF Inv, Lock, Exchanging
<1>2. /\ stage' \in [Callers -> Stages] /\ Lock' /\ Numbered'
      /\ stage'[c] = "midline" /\ \A d \in Callers \ {c} : stage'[d] = stage[d]
  BY <1>1, ExchangeGoesOn DEF Exchanging
<1>3. TypeOK'
  BY <1>2 DEF Inv, TypeOK
<1>4. Heard'
  BY <1>1, HeardStays DEF Inv, TypeOK, OnLink
<1>5. Tries'
  BY <1>1, <1>2, TriesStay DEF Inv, Before
<1> QED BY <1>2, <1>3, <1>4, <1>5 DEF Inv

(* The line is written: one try more, on a connection newer than those of   *)
(* the tries before.                                                        *)
LEMMA LineWritten ==
    ASSUME Inv, NEW c \in Callers, stage[c] = "writing",
           written' = Append(written, [id |-> reqId[c], epoch |-> epoch]), UNCHANGED reqId
    PROVE  /\ written' \in Seq([id: Ids, epoch: Nat])
           /\ LinesOf(reqId[c])' = LinesOf(reqId[c]) \cup {Len(written) + 1}
           /\ \A r : r # reqId[c] => LinesOf(r)' = LinesOf(r)
           /\ DOMAIN written' = DOMAIN written \cup {Len(written) + 1}
           /\ DOMAIN written = 1..Len(written) /\ Len(written) \in Nat
           /\ \A i \in DOMAIN written : written'[i] = written[i]
           /\ written'[Len(written) + 1] = [id |-> reqId[c], epoch |-> epoch]
<1>1. [id |-> reqId[c], epoch |-> epoch] \in [id: Ids, epoch: Nat]
  BY DEF Inv, Numbered, TypeOK
<1>2. /\ written' \in Seq([id: Ids, epoch: Nat])
      /\ DOMAIN written' = DOMAIN written \cup {Len(written) + 1}
      /\ DOMAIN written = 1..Len(written) /\ Len(written) \in Nat
      /\ \A i \in DOMAIN written : written'[i] = written[i]
      /\ written'[Len(written) + 1] = [id |-> reqId[c], epoch |-> epoch]
  <2> DEFINE R == [id: Ids, epoch: Nat]
             e == [id |-> reqId[c], epoch |-> epoch]
  <2>1. written \in Seq(R) /\ e \in R /\ written' = Append(written, e)
    BY <1>1 DEF Inv, TypeOK
  <2> HIDE DEF R, e
  <2>2. /\ written' \in Seq(R)
        /\ DOMAIN written' = DOMAIN written \cup {Len(written) + 1}
        /\ DOMAIN written = 1..Len(written) /\ Len(written) \in Nat
        /\ \A i \in DOMAIN written : written'[i] = written[i]
        /\ written'[Len(written) + 1] = e
    BY <2>1
  <2> QED BY <2>2 DEF R, e
<1> QED BY <1>2 DEF LinesOf

LEMMA WriteEndsKeeps ==
    ASSUME Inv, NEW c \in Callers, WriteEnds(c)
    PROVE  Inv'
<1> USE DEF WriteEnds
<1>1. link # NoLink /\ link \in Links /\ reqId[c] \in Ids /\ reqId[c] < nextId
  BY DEF Inv, TypeOK, Lock, Numbered, Exchanging
<1>2. /\ link' \in Links /\ link'.seen = link.seen /\ link'.down = link.down
      /\ link'.up = Append(link.up, IF link.spoiled THEN Garbage ELSE reqId[c])
  <2> DEFINE line == IF link.spoiled THEN Garbage ELSE reqId[c]
  <2>1. line \in WireLine
    BY <1>1 DEF WireLine
  <2>2. link' = [link EXCEPT !.partial = FALSE, !.spoiled = FALSE, !.up = Append(@, line)]
    OBVIOUS
  <2> HIDE DEF line
  <2>3. Append(link.up, line) \in Seq(WireLine)
    BY <1>1, <2>1 DEF Links
  <2>4. /\ link' \in Links /\ link'.seen = link.seen /\ link'.down = link.down
        /\ link'.up = Append(link.up, line)
    BY <1>1, <2>2, <2>3 DEF Links
  <2> QED BY <2>4 DEF line
<1>3. link' # NoLink
  BY <1>2, NoLinkAssumption
<1>4. /\ stage' \in [Callers -> Stages] /\ Lock' /\ Numbered'
      /\ stage'[c] = "reading" /\ \A d \in Callers \ {c} : stage'[d] = stage[d]
  BY <1>3, ExchangeGoesOn DEF Exchanging
<1>5. TypeOK'
  BY <1>2, <1>4, LineWritten DEF Inv, TypeOK
<1>6. \A r \in Ids : OnLink(r)' => OnLink(r) \/ (r = reqId[c] /\ ~link.spoiled)
  <2>1. link.up \in Seq(WireLine) /\ \A r \in Ids : r # Garbage
    BY <1>1, TransportAssumption DEF Links, Ids
  <2> QED BY <1>2, <2>1 DEF OnLink
<1>7. CASE UNCHANGED written
  <2>1. link.spoiled
    <3>1. written # Append(written, [id |-> reqId[c], epoch |-> epoch])
      BY LineWritten
    <3> QED BY <1>7, <3>1
  <2>2. Heard'
    BY <1>1, <1>6, <1>7, <2>1, HeardStays DEF Inv, TypeOK
  <2>3. Tries'
    BY <1>1, <1>4, <1>7, TriesStay DEF Inv, Before
  <2> QED BY <1>4, <1>5, <2>2, <2>3 DEF Inv
<1>8. CASE written' = Append(written, [id |-> reqId[c], epoch |-> epoch])
  <2> DEFINE n == Len(written) + 1
             q == reqId[c]
  <2>1. /\ LinesOf(q)' = LinesOf(q) \cup {n}
        /\ \A r : r # q => LinesOf(r)' = LinesOf(r)
        /\ DOMAIN written' = DOMAIN written \cup {n} /\ n \notin DOMAIN written
        /\ \A i \in DOMAIN written : i < n /\ written'[i] = written[i]
        /\ written'[n].id = q /\ written'[n].epoch = epoch
    <3>1. /\ LinesOf(reqId[c])' = LinesOf(reqId[c]) \cup {Len(written) + 1}
          /\ \A r : r # reqId[c] => LinesOf(r)' = LinesOf(r)
          /\ DOMAIN written' = DOMAIN written \cup {Len(written) + 1}
          /\ DOMAIN written = 1..Len(written) /\ Len(written) \in Nat
          /\ \A i \in DOMAIN written : written'[i] = written[i]
          /\ written'[Len(written) + 1] = [id |-> reqId[c], epoch |-> epoch]
      BY <1>8, LineWritten
    <3>2. UNCHANGED reqId
      OBVIOUS
    <3> QED BY <3>1, <3>2
  <2>2. /\ \A i \in LinesOf(q) : written[i].epoch < epoch
        /\ \A i, j \in LinesOf(q) : i = j
        /\ attempt[c] = 0 => LinesOf(q) = {}
    BY <1>1 DEF Inv, Tries, Tried, Before
  <2>3. Heard'
    <3>1. \A r \in Ids : OnLink(r)' => LinesOf(r)' # {}
      BY <1>1, <1>6, <2>1 DEF Inv, Heard
    <3>2. \A i \in DOMAIN written' : written'[i].epoch <= epoch' /\ written'[i].id < nextId'
      BY <1>1, <2>1 DEF Inv, Heard, TypeOK
    <3> QED BY <3>1, <3>2 DEF Heard
  <2>4. Reconnected'
    BY SMTT(30), <2>1, <2>2 DEF Inv, Tries, Reconnected, LinesOf
  <2>5. AtMostTwice'
    BY <2>1, <2>2 DEF Inv, Tries, AtMostTwice, LinesOf
  <2>6. Tried(c)'
    BY <1>4, <2>1, <2>2 DEF Tried, Before
  <2>7. ASSUME NEW d \in Callers \ {c}, stage'[d] # "idle"
        PROVE  Tried(d)'
    <3>1. reqId[d] # q /\ Tried(d) /\ UNCHANGED <<stage[d], reqId[d], attempt[d]>>
      BY <1>4, <2>7 DEF Inv, Numbered, Tries
    <3>2. LinesOf(reqId[d])' = LinesOf(reqId[d])
      BY <2>1, <3>1
    <3>3. \A i \in LinesOf(reqId[d]) : written'[i] = written[i]
      BY <2>1 DEF LinesOf
    <3> HIDE DEF q
    <3> QED BY <1>1, <3>1, <3>2, <3>3 DEF Tried
  <2>8. Tries'
    BY <2>4, <2>5, <2>6, <2>7 DEF Tries
  <2> QED BY <1>4, <1>5, <2>3, <2>8 DEF Inv
<1> QED BY <1>7, <1>8

LEMMA ReadEndsKeeps ==
    ASSUME Inv, NEW c \in Callers, ReadEnds(c)
    PROVE  Inv'
<1> USE DEF ReadEnds
<1>1. link # NoLink /\ link \in Links /\ link.down # <<>>
  BY DEF Inv, TypeOK, Lock, Exchanging
<1>2. /\ link' \in Links /\ link'.up = link.up /\ link'.seen = link.seen
      /\ link'.down = Tail(link.down)
  <2> DEFINE rest == Tail(link.down)
  <2>1. rest \in Seq(WireLine)
    <3>1. link.down \in Seq(WireLine)
      BY <1>1 DEF Links
    <3> QED BY <1>1, <3>1, TailFacts
  <2>2. link' = [link EXCEPT !.down = rest]
    OBVIOUS
  <2> HIDE DEF rest
  <2>3. /\ link' \in Links /\ link'.up = link.up /\ link'.seen = link.seen
        /\ link'.down = rest
    BY <1>1, <2>1, <2>2 DEF Links
  <2> QED BY <2>3 DEF rest
<1>3. link' # NoLink
  BY <1>2, NoLinkAssumption
<1>4. \A r : OnLink(r)' => OnLink(r)
  <2>1. link.down \in Seq(WireLine)
    BY <1>1 DEF Links
  <2> QED BY <1>1, <1>2, <2>1 DEF OnLink
<1>5. Heard'
  BY <1>1, <1>4, HeardStays DEF Inv, TypeOK, Finish
<1>6. ASSUME NEW result \in {"answered", "invalid"}, Finish(c, result)
      PROVE  Inv'
  <2>1. result \in Outcomes \ {"unused", "open"} /\ stage[c] # "idle"
    BY <1>6 DEF Outcomes
  <2>2. /\ queue' \in Seq(Callers) /\ stage' \in [Callers -> Stages]
        /\ reqId' \in [Callers -> Nat] /\ attempt' \in [Callers -> {0, 1}]
        /\ outcome' \in [Ids -> Outcomes] /\ nextId' = nextId
        /\ \A i, j \in DOMAIN queue' : queue'[i] = queue'[j] => i = j
        /\ \A d \in Callers : stage'[d] # "idle" <=> InQueue(d)'
        /\ stage'[c] = "idle"
        /\ \A d \in Callers \ {c} : UNCHANGED <<stage[d], reqId[d], attempt[d]>>
        /\ Numbered'
    BY <1>6, <2>1, FinishKeeps
  <2>3. TypeOK'
    BY <1>2, <2>2 DEF Inv, TypeOK
  <2>4. Lock'
    <3>1. \A d \in Callers : stage'[d] \notin Exchanging
      BY <2>2, OthersWait DEF Exchanging
    <3> QED BY <2>2, <3>1 DEF Lock, Exchanging
  <2>5. Tries'
    BY <1>1, <2>2, TriesStay DEF Inv
  <2> QED BY <1>5, <2>2, <2>3, <2>4, <2>5 DEF Inv
<1>7. CASE /\ stage' = [stage EXCEPT ![c] = "reading"]
           /\ UNCHANGED <<nextId, reqId, attempt, outcome, queue>>
  <2>1. /\ stage' \in [Callers -> Stages] /\ Lock' /\ Numbered'
        /\ stage'[c] = "reading" /\ \A d \in Callers \ {c} : stage'[d] = stage[d]
    BY <1>3, <1>7, ExchangeGoesOn DEF Exchanging
  <2>2. TypeOK'
    BY <1>2, <1>7, <2>1 DEF Inv, TypeOK
  <2>3. Tries'
    BY <1>1, <1>7, <2>1, TriesStay DEF Inv, Before
  <2> QED BY <1>5, <2>1, <2>2, <2>3 DEF Inv
<1> QED BY <1>6, <1>7

(* A retry queues again, without the connection. *)
LEMMA DropAndRetryKeeps ==
    ASSUME Inv, NEW c \in Callers, stage[c] \in Exchanging,
           NEW result \in {"eof", "timeout"}, DropAndRetry(c, result)
    PROVE  Inv'
<1> USE DEF DropAndRetry
<1>1. \A d \in Callers \ {c} : stage[d] \notin Exchanging
  BY OthersWait
<1>2. Heard'
  BY HeardStays DEF Inv, TypeOK, Finish
<1>3. CASE Finish(c, result)
  <2>1. result \in Outcomes \ {"unused", "open"} /\ stage[c] # "idle"
    BY DEF Outcomes, Exchanging
  <2>2. /\ queue' \in Seq(Callers) /\ stage' \in [Callers -> Stages]
        /\ reqId' \in [Callers -> Nat] /\ attempt' \in [Callers -> {0, 1}]
        /\ outcome' \in [Ids -> Outcomes] /\ nextId' = nextId
        /\ \A i, j \in DOMAIN queue' : queue'[i] = queue'[j] => i = j
        /\ \A d \in Callers : stage'[d] # "idle" <=> InQueue(d)'
        /\ stage'[c] = "idle"
        /\ \A d \in Callers \ {c} : UNCHANGED <<stage[d], reqId[d], attempt[d]>>
        /\ Numbered'
    BY <1>3, <2>1, FinishKeeps
  <2>3. TypeOK'
    BY <2>2 DEF Inv, TypeOK
  <2>4. Lock'
    BY <1>1, <2>2 DEF Lock, Exchanging
  <2>5. Tries'
    BY <2>2, TriesStay DEF Inv
  <2> QED BY <1>2, <2>2, <2>3, <2>4, <2>5 DEF Inv
<1>4. CASE /\ attempt[c] = 0 /\ attempt' = [attempt EXCEPT ![c] = 1]
           /\ stage' = [stage EXCEPT ![c] = "waiting"]
           /\ queue' = Append(Leave(c), c) /\ UNCHANGED <<nextId, reqId, outcome>>
  <2> DEFINE left == Leave(c)
  <2>1. stage[c] # "idle"
    BY DEF Exchanging
  <2>2. /\ stage'[c] = "waiting" /\ attempt'[c] = 1
        /\ \A d \in Callers \ {c} : UNCHANGED <<stage[d], reqId[d], attempt[d]>>
    BY <1>4 DEF Inv, TypeOK
  <2>3. /\ left \in Seq(Callers)
        /\ \A i, j \in DOMAIN left : left[i] = left[j] => i = j
        /\ \A d \in Callers : (\E i \in DOMAIN left : left[i] = d) <=> InQueue(d) /\ d # c
    BY <2>1, LeaveRemoves DEF Inv
  <2>4. queue' = Append(left, c)
    BY <1>4
  <2> HIDE DEF left
  <2>5. /\ queue' \in Seq(Callers)
        /\ \A i, j \in DOMAIN queue' : queue'[i] = queue'[j] => i = j
        /\ \A d \in Callers : InQueue(d)' <=> InQueue(d) \/ d = c
    <3>1. /\ queue' \in Seq(Callers) /\ DOMAIN queue' = DOMAIN left \cup {Len(left) + 1}
          /\ DOMAIN left = 1..Len(left) /\ Len(left) \in Nat
          /\ \A i \in DOMAIN left : queue'[i] = left[i]
          /\ queue'[Len(left) + 1] = c
      BY <2>3, <2>4
    <3> QED BY <2>3, <3>1 DEF InQueue
  <2>6. TypeOK'
    BY <1>4, <2>5 DEF Inv, TypeOK, Stages
  <2>7. Lock'
    <3>1. InQueue(c)
      BY <2>1 DEF Inv, Lock
    <3> QED BY <1>1, <2>2, <2>5, <3>1 DEF Inv, Lock, Exchanging
  <2>8. Numbered'
    BY <1>4, <2>1, <2>2 DEF Inv, Numbered
  <2>9. Tries'
    <3>1. \A r : LinesOf(r)' = LinesOf(r)
      BY DEF LinesOf
    <3>2. Reconnected' /\ AtMostTwice'
      BY DEF Inv, Tries, Reconnected, AtMostTwice
    <3>3. Tried(c)'
      <4>1. \A i, j \in LinesOf(reqId[c]) : i = j
        BY <1>4, <2>1 DEF Inv, Tries, Tried
      <4>2. LinesOf(reqId[c])' = LinesOf(reqId[c]) /\ link' = NoLink
        BY <1>4, <3>1
      <4> QED BY <2>2, <4>1, <4>2 DEF Tried
    <3>4. ASSUME NEW d \in Callers \ {c}, stage'[d] # "idle"
          PROVE  Tried(d)'
      BY <2>2, <3>1, <3>4 DEF Inv, Tries, Tried
    <3> QED BY <3>2, <3>3, <3>4 DEF Tries
  <2> QED BY <1>2, <2>6, <2>7, <2>8, <2>9 DEF Inv
<1> QED BY <1>3, <1>4

LEMMA CancelKeeps ==
    ASSUME Inv, NEW c \in Callers, Cancel(c)
    PROVE  Inv'
<1> USE DEF Cancel
<1>1. /\ queue' \in Seq(Callers) /\ stage' \in [Callers -> Stages]
      /\ reqId' \in [Callers -> Nat] /\ attempt' \in [Callers -> {0, 1}]
      /\ outcome' \in [Ids -> Outcomes] /\ nextId' = nextId
      /\ \A i, j \in DOMAIN queue' : queue'[i] = queue'[j] => i = j
      /\ \A d \in Callers : stage'[d] # "idle" <=> InQueue(d)'
      /\ \A d \in Callers \ {c} : Holds(d) => Holds(d)'
      /\ stage'[c] = "idle"
      /\ \A d \in Callers \ {c} : UNCHANGED <<stage[d], reqId[d], attempt[d]>>
      /\ Numbered'
  <2>1. "cancelled" \in Outcomes \ {"unused", "open"}
    BY DEF Outcomes
  <2> QED BY <2>1, FinishKeeps
<1>2. CASE stage[c] = "midline"
  <2>1. link # NoLink /\ link \in Links /\ link.down # <<>>
    BY <1>2 DEF Inv, TypeOK, Lock, Exchanging
  <2> DEFINE down == <<Garbage>> \o Tail(link.down)
  <2>2. /\ down \in Seq(WireLine) /\ down # <<>>
        /\ \A i \in DOMAIN down :
             down[i] = Garbage \/ (i \in DOMAIN link.down /\ down[i] = link.down[i])
    <3>1. link.down \in Seq(WireLine) /\ Garbage \in WireLine
      BY <2>1 DEF Links, WireLine
    <3>2. /\ down \in Seq(WireLine) /\ down # <<>> /\ DOMAIN down = DOMAIN link.down
          /\ down[1] = Garbage /\ \A i \in DOMAIN down : i # 1 => down[i] = link.down[i]
      BY <2>1, <3>1, TornFacts
    <3> HIDE DEF down
    <3>3. ASSUME NEW i \in DOMAIN down
          PROVE  down[i] = Garbage \/ (i \in DOMAIN link.down /\ down[i] = link.down[i])
      BY <3>2
    <3> QED BY <3>2, <3>3
  <2>3. link' = [link EXCEPT !.down = down]
    BY <1>2
  <2> HIDE DEF down
  <2>4. link' \in Links /\ link'.up = link.up /\ link'.seen = link.seen /\ link'.down = down
    BY <2>1, <2>2, <2>3 DEF Links
  <2>5. TypeOK'
    BY <1>1, <2>4 DEF Inv, TypeOK
  <2>6. Lock'
    <3>1. \A d \in Callers : stage'[d] \notin Exchanging
      BY <1>1, <1>2, OthersWait DEF Exchanging
    <3> QED BY <1>1, <3>1 DEF Lock, Exchanging
  <2>7. Heard'
    <3>1. \A r \in Ids : OnLink(r)' => OnLink(r)
      BY <2>2, <2>4, TransportAssumption DEF OnLink, Ids
    <3> QED BY <1>1, <2>1, <3>1, HeardStays DEF Inv, TypeOK
  <2>8. Tries'
    BY <1>1, <2>1, TriesStay DEF Inv
  <2> QED BY <1>1, <2>5, <2>6, <2>7, <2>8 DEF Inv
<1>3. CASE stage[c] # "midline"
  <2>1. UNCHANGED link
    BY <1>3
  <2>2. TypeOK'
    BY <1>1, <2>1 DEF Inv, TypeOK
  <2>3. Lock'
    BY <1>1, <2>1 DEF Inv, Lock, Exchanging
  <2>4. Heard'
    <3>1. \A r : OnLink(r)' => OnLink(r)
      BY <2>1 DEF OnLink
    <3>2. UNCHANGED <<written, epoch>> /\ nextId \in Nat /\ epoch \in Nat
      BY DEF Inv, TypeOK
    <3> QED BY <1>1, <2>1, <3>1, <3>2, HeardStays DEF Inv
  <2>5. Tries'
    BY <1>1, <2>1, TriesStay DEF Inv
  <2> QED BY <1>1, <2>2, <2>3, <2>4, <2>5 DEF Inv
<1> QED BY <1>2, <1>3

(* The bridge never puts an id on the connection that was not there. *)
LEMMA LinkChanges ==
    ASSUME Inv, UNCHANGED <<callVars, queue, epoch, written>>, garbage' \in 0..MaxGarbage,
           link # NoLink, link' \in Links, link.down # <<>> => link'.down # <<>>,
           \A r \in Ids : OnLink(r)' => OnLink(r)
    PROVE  Inv'
<1> USE DEF callVars
<1>1. TypeOK'
  BY DEF Inv, TypeOK
<1>2. Lock'
  BY NoLinkAssumption DEF Inv, Lock, InQueue, Holds
<1>3. Numbered'
  BY DEF Inv, Numbered
<1>4. Heard'
  BY HeardStays DEF Inv, TypeOK
<1>5. Tries'
  BY TriesStay, \A d \in Callers : stage'[d] = stage[d] DEF Inv
<1> QED BY <1>1, <1>2, <1>3, <1>4, <1>5 DEF Inv

LEMMA BridgeKeeps ==
    ASSUME Inv, Bridge
    PROVE  Inv'
<1>1. link # NoLink /\ link \in Links
  BY DEF Inv, TypeOK, Bridge, BridgeReads, BridgeAnswers, BridgeBabbles, BridgeCloses
<1>2. /\ link.up \in Seq(WireLine) /\ link.seen \subseteq Ids /\ link.down \in Seq(WireLine)
      /\ Garbage \in WireLine /\ Ids \subseteq WireLine /\ Garbage \notin Ids
  BY <1>1, TransportAssumption DEF Links, WireLine, Ids
<1>3. UNCHANGED <<callVars, queue, epoch, written>> /\ garbage' \in 0..MaxGarbage
  <2>1. /\ UNCHANGED <<callVars, queue, epoch, written>>
        /\ UNCHANGED garbage \/ (garbage < MaxGarbage /\ garbage' = garbage + 1)
    <3>1. CASE BridgeReads
      BY <3>1 DEF BridgeReads, BridgeStep
    <3>2. CASE BridgeAnswers
      BY <3>2 DEF BridgeAnswers, BridgeStep
    <3>3. CASE BridgeBabbles
      BY <3>3 DEF BridgeBabbles, BridgeStep
    <3>4. CASE BridgeCloses
      BY <3>4 DEF BridgeCloses, BridgeStep
    <3> QED BY <3>1, <3>2, <3>3, <3>4 DEF Bridge
  <2>2. garbage \in 0..MaxGarbage /\ MaxGarbage \in Nat
    BY TransportAssumption DEF Inv, TypeOK
  <2> QED BY <2>1, <2>2
<1>4. CASE BridgeReads
  <2>1. /\ link' = [link EXCEPT !.up = Tail(@), !.seen = @ \cup ({Head(link.up)} \ {Garbage})]
        /\ link.up # <<>>
    BY <1>4 DEF BridgeReads
  <2>2. {Head(link.up)} \ {Garbage} \subseteq Ids /\ Tail(link.up) \in Seq(WireLine)
    BY <1>2, <2>1 DEF WireLine
  <2>3. /\ link' \in Links /\ link'.up = Tail(link.up) /\ link'.down = link.down
        /\ link'.seen = link.seen \cup ({Head(link.up)} \ {Garbage})
    BY <1>1, <1>2, <2>1, <2>2 DEF Links
  <2>4. \A r \in Ids : OnLink(r)' => OnLink(r)
    BY <1>2, <2>1, <2>3 DEF OnLink
  <2> QED BY <1>1, <1>3, <2>3, <2>4, LinkChanges
<1>5. CASE BridgeAnswers
  <2>1. PICK r \in link.seen :
          link' = [link EXCEPT !.seen = @ \ {r}, !.down = Append(@, r)]
    BY <1>5 DEF BridgeAnswers
  <2>2. /\ Append(link.down, r) \in Seq(WireLine)
        /\ Append(link.down, r) # <<>>
    BY <1>2
  <2>3. /\ link' \in Links /\ link'.up = link.up /\ link'.seen = link.seen \ {r}
        /\ link'.down = Append(link.down, r)
    BY <1>1, <1>2, <2>1, <2>2 DEF Links
  <2>4. \A q \in Ids : OnLink(q)' => OnLink(q)
    BY <1>2, <2>3 DEF OnLink
  <2> QED BY <1>1, <1>3, <2>2, <2>3, <2>4, LinkChanges
<1>6. CASE BridgeBabbles
  <2>1. link' = [link EXCEPT !.down = Append(@, Garbage)]
    BY <1>6 DEF BridgeBabbles
  <2>2. /\ Append(link.down, Garbage) \in Seq(WireLine)
        /\ Append(link.down, Garbage) # <<>>
    BY <1>2
  <2>3. /\ link' \in Links /\ link'.up = link.up /\ link'.seen = link.seen
        /\ link'.down = Append(link.down, Garbage)
    BY <1>1, <2>1, <2>2 DEF Links
  <2>4. \A q \in Ids : OnLink(q)' => OnLink(q)
    BY <1>2, <2>3 DEF OnLink
  <2> QED BY <1>1, <1>3, <2>2, <2>3, <2>4, LinkChanges
<1>7. CASE BridgeCloses
  <2>1. /\ link' \in Links /\ link'.up = <<>> /\ link'.seen = {} /\ link'.down = link.down
    BY <1>1, <1>7, EmptySeq DEF BridgeCloses, Links
  <2>2. \A q \in Ids : OnLink(q)' => OnLink(q)
    BY <2>1 DEF OnLink
  <2> QED BY <1>1, <1>3, <2>1, <2>2, LinkChanges
<1> QED BY <1>4, <1>5, <1>6, <1>7 DEF Bridge

LEMMA NextKeeps == Inv /\ [Next]_vars => Inv'
<1> SUFFICES ASSUME Inv, [Next]_vars PROVE Inv'
  OBVIOUS
<1>1. ASSUME NEW c \in Callers, Progress(c)
      PROVE  Inv'
  <2>1. CASE ConnectionLost(c)
    BY <2>1, DropAndRetryKeeps DEF ConnectionLost
  <2>2. CASE Timeout(c)
    BY <2>2, DropAndRetryKeeps DEF Timeout
  <2> QED BY <1>1, <2>1, <2>2, AcquireKeeps, WriteBeginsKeeps, WriteEndsKeeps,
             ReadBeginsKeeps, ReadEndsKeeps DEF Progress
<1>2. CASE UNCHANGED vars
  BY <1>2 DEF vars, callVars, Inv, TypeOK, Lock, InQueue, Holds, Numbered, Heard, OnLink,
              LinesOf, Tries, Tried, Reconnected, AtMostTwice
<1>3. CASE Terminated
  BY <1>2, <1>3 DEF Terminated
<1> QED BY <1>1, <1>2, <1>3, CallKeeps, CancelKeeps, BridgeKeeps DEF Next

LEMMA InvCorrect == Spec => []Inv
BY InitInv, NextKeeps, PTL DEF Spec

-----------------------------------------------------------------------------
(* The client's fields stay what they are declared to be (isabelle-lsp/src/  *)
(* main.rs 63-84).                                                           *)
THEOREM TypeCorrect == Spec => []TypeOK
<1>1. Inv => TypeOK
  BY DEF Inv
<1> QED BY <1>1, InvCorrect, PTL

(* The lines of two requests are never mixed on a connection: between the    *)
(* first byte written and the last one read a task holds the mutex (main.rs  *)
(* 124, 201), whichever futures are dropped.                                 *)
THEOREM OneExchangeCorrect == Spec => []OneExchange
<1>1. Inv => OneExchange
  BY OthersWait DEF Inv, Lock, OneExchange
<1> QED BY <1>1, InvCorrect, PTL

LEMMA ThreeDistinct ==
    ASSUME NEW i, NEW j, NEW k, Cardinality({i, j, k}) = 3
    PROVE  i # j /\ j # k /\ i # k
<1>1. ASSUME NEW x, NEW y, {i, j, k} = {x, y}
      PROVE  FALSE
  <2>1. {i, j, k} = {x} \cup {y}
    BY <1>1
  <2>2. IsFiniteSet({x}) /\ Cardinality({x}) = 1
    BY FS_Singleton
  <2>3. Cardinality({x} \cup {y}) = IF y \in {x} THEN 1 ELSE 2
    BY <2>2, FS_AddElement
  <2>4. Cardinality({i, j, k}) # 3
    BY <2>1, <2>3
  <2> QED BY <2>4
<1>2. ASSUME i = j \/ j = k \/ i = k
      PROVE  {i, j, k} = {j, k} \/ {i, j, k} = {i, k}
  BY <1>2
<1> QED BY <1>1, <1>2

LEMMA MoreThanOne ==
    ASSUME NEW S, IsFiniteSet(S), NEW x \in S, NEW y \in S, x # y
    PROVE  Cardinality(S) > 1
<1>1. Cardinality(S) \in Nat /\ Cardinality(S) # 0
  BY FS_CardinalityType, FS_EmptySet
<1>2. Cardinality(S) # 1
  BY FS_Singleton
<1> QED BY <1>1, <1>2

(* A request is written whole at most twice, the second time on a newer      *)
(* connection (main.rs 122-207): no connection sees an id twice.             *)
THEOREM RetryReconnectsCorrect == Spec => []RetryReconnects
<1>1. Inv => RetryReconnects
  <2> SUFFICES ASSUME Inv PROVE RetryReconnects
    OBVIOUS
  <2>1. ASSUME NEW i \in DOMAIN written, NEW j \in DOMAIN written, NEW k \in DOMAIN written,
               Cardinality({i, j, k}) = 3
        PROVE  Cardinality({written[n].id : n \in {i, j, k}}) > 1
    <3> DEFINE ids == {written[n].id : n \in {i, j, k}}
    <3>1. i # j /\ j # k /\ i # k
      BY <2>1, ThreeDistinct
    <3>2. written[i].id # written[j].id \/ written[j].id # written[k].id
      BY <3>1 DEF Inv, Tries, AtMostTwice
    <3>3. written[i].id \in ids /\ written[j].id \in ids /\ written[k].id \in ids
      OBVIOUS
    <3>4. IsFiniteSet(ids)
      <4>1. ids = {written[i].id} \cup {written[j].id} \cup {written[k].id}
        OBVIOUS
      <4>2. IsFiniteSet({written[i].id})
        BY FS_Singleton
      <4>3. IsFiniteSet({written[i].id} \cup {written[j].id})
        BY <4>2, FS_AddElement
      <4> QED BY <4>1, <4>3, FS_AddElement
    <3> HIDE DEF ids
    <3>5. Cardinality(ids) > 1
      BY <3>2, <3>3, <3>4, MoreThanOne
    <3> QED BY <3>5 DEF ids
  <2> QED BY <2>1 DEF Inv, Tries, Reconnected, RetryReconnects
<1> QED BY <1>1, InvCorrect, PTL

-----------------------------------------------------------------------------
(* request() is the remote call of BridgeRpc: what each action is there.    *)
Reaches == [r \in Ids |-> Reached(r)]

(* How often a request has reached the bridge. *)
LEMMA ReachedCounts ==
    ASSUME Inv, NEW r \in Ids
    PROVE  /\ IsFiniteSet(LinesOf(r)) /\ Reached(r) = Cardinality(LinesOf(r))
           /\ Reached(r) \in Nat /\ (Reached(r) = 0 <=> LinesOf(r) = {})
<1>1. DOMAIN written = 1..Len(written) /\ Len(written) \in Nat
  BY DEF Inv, TypeOK
<1>2. IsFiniteSet(DOMAIN written)
  BY <1>1, FS_Interval
<1>3. IsFiniteSet(LinesOf(r))
  BY <1>2, FS_Subset DEF LinesOf
<1>4. Reached(r) = Cardinality(LinesOf(r))
  BY DEF Reached, LinesOf
<1> QED BY <1>3, <1>4, FS_CardinalityType, FS_EmptySet

LEMMA SameLinesSameReaches ==
    ASSUME UNCHANGED written
    PROVE  Reaches' = Reaches
BY DEF Reaches, Reached

(* One request's outcome changes. *)
LEMMA SettlesOne ==
    ASSUME Inv, NEW r \in Ids, NEW result, outcome' = [outcome EXCEPT ![r] = result],
           NEW settled,
           settled = IF result \in {"unused", "open", "answered"} THEN result ELSE "failed"
    PROVE  Settled' = [Settled EXCEPT ![r] = settled]
<1>1. \A q \in Ids : outcome'[q] = IF q = r THEN result ELSE outcome[q]
  BY DEF Inv, TypeOK
<1>2. /\ Settled' = [q \in Ids |->
            IF outcome'[q] \in {"unused", "open", "answered"} THEN outcome'[q] ELSE "failed"]
      /\ Settled = [q \in Ids |->
            IF outcome[q] \in {"unused", "open", "answered"} THEN outcome[q] ELSE "failed"]
  BY DEF Settled
<1> QED BY <1>1, <1>2

LEMMA FinishSettles ==
    ASSUME Inv, NEW c \in Callers, stage[c] # "idle", UNCHANGED written,
           NEW result \in {"refused", "eof", "timeout", "invalid", "cancelled"},
           Finish(c, result)
    PROVE  Rpc!Next
<1>1. reqId[c] \in Ids /\ outcome[reqId[c]] = "open"
  BY DEF Inv, Numbered
<1>2. Settled[reqId[c]] = "open"
  BY <1>1 DEF Settled
<1>3. Settled' = [Settled EXCEPT ![reqId[c]] = "failed"]
  BY <1>1, SettlesOne DEF Finish
<1>4. Reaches' = Reaches
  BY SameLinesSameReaches
<1>5. Rpc!Fail(reqId[c])
  BY <1>2, <1>3, <1>4 DEF Rpc!Fail, Reaches
<1> QED BY <1>1, <1>5 DEF Rpc!Next

LEMMA CallIssues ==
    ASSUME Inv, NEW c \in Callers, Call(c)
    PROVE  Rpc!Next
<1>1. nextId \in Ids /\ outcome[nextId] = "unused"
  BY DEF Call, Inv, Numbered, TypeOK, Ids
<1>2. Settled[nextId] = "unused"
  BY <1>1 DEF Settled
<1>3. Settled' = [Settled EXCEPT ![nextId] = "open"]
  BY <1>1, SettlesOne DEF Call
<1>4. Reaches' = Reaches
  BY SameLinesSameReaches DEF Call
<1>5. Rpc!Issue(nextId)
  BY <1>2, <1>3, <1>4 DEF Rpc!Issue, Reaches
<1> QED BY <1>1, <1>5 DEF Rpc!Next

LEMMA WriteEndsReaches ==
    ASSUME Inv, NEW c \in Callers, WriteEnds(c)
    PROVE  Rpc!Next \/ UNCHANGED <<Settled, Reaches>>
<1>1. Settled' = Settled
  BY DEF WriteEnds, Settled
<1>2. CASE UNCHANGED written
  BY <1>1, <1>2, SameLinesSameReaches
<1>3. CASE written' = Append(written, [id |-> reqId[c], epoch |-> epoch])
  <2> DEFINE q == reqId[c]
             n == Len(written) + 1
  <2>1. /\ q \in Ids /\ outcome[q] = "open"
        /\ \A i, j \in LinesOf(q) : i = j
    BY DEF WriteEnds, Inv, Numbered, Tries, Tried, Before
  <2>2. /\ LinesOf(q)' = LinesOf(q) \cup {n} /\ n \notin LinesOf(q)
        /\ \A r : r # q => LinesOf(r)' = LinesOf(r)
    <3>1. UNCHANGED reqId
      BY DEF WriteEnds
    <3> QED BY <1>3, <3>1, LineWritten DEF LinesOf, WriteEnds
  <2>3. Reached(q) < 2
    <3>1. CASE LinesOf(q) = {}
      BY <2>1, <3>1, ReachedCounts
    <3>2. CASE LinesOf(q) # {}
      <4>1. PICK i \in LinesOf(q) : LinesOf(q) = {i}
        BY <2>1, <3>2
      <4>2. Cardinality(LinesOf(q)) = 1
        BY <4>1, FS_Singleton
      <4> QED BY <2>1, <4>2, ReachedCounts
    <3> QED BY <3>1, <3>2
  <2>4. Inv'
    BY WriteEndsKeeps
  <2>5. \A r \in Ids : Reached(r)' = Cardinality(LinesOf(r)')
    BY DEF Reached, LinesOf
  <2>6. Reached(q)' = Reached(q) + 1
    <3>1. Reached(q) = Cardinality(LinesOf(q)) /\ IsFiniteSet(LinesOf(q))
      BY <2>1, ReachedCounts
    <3>2. Cardinality(LinesOf(q) \cup {n}) = Cardinality(LinesOf(q)) + 1
      BY <2>2, <3>1, FS_AddElement
    <3>3. Reached(q)' = Cardinality(LinesOf(q)')
      BY DEF Reached, LinesOf
    <3> QED BY <2>2, <3>1, <3>2, <3>3
  <2>7. \A r \in Ids : r # q => Reached(r)' = Reached(r)
    <3>1. \A r \in Ids : Reached(r) = Cardinality(LinesOf(r))
      BY DEF Reached, LinesOf
    <3> QED BY <2>2, <2>5, <3>1
  <2>8. Reaches' = [Reaches EXCEPT ![q] = @ + 1]
    <3>1. UNCHANGED reqId
      BY DEF WriteEnds
    <3>2. \A r \in Ids : Reached(r)' = IF r = q THEN Reached(r) + 1 ELSE Reached(r)
      BY <2>6, <2>7, <3>1
    <3> HIDE DEF q
    <3> QED BY <3>2 DEF Reaches
  <2>9. Rpc!Reach(q)
    BY <1>1, <2>1, <2>3, <2>8 DEF Rpc!Reach, Settled, Reaches
  <2> QED BY <2>1, <2>9 DEF Rpc!Next
<1> QED BY <1>2, <1>3 DEF WriteEnds

LEMMA ReadEndsAnswers ==
    ASSUME Inv, NEW c \in Callers, ReadEnds(c)
    PROVE  Rpc!Next \/ UNCHANGED <<Settled, Reaches>>
<1>1. Reaches' = Reaches
  BY SameLinesSameReaches DEF ReadEnds
<1>2. CASE Finish(c, "invalid")
  BY <1>2, FinishSettles DEF ReadEnds
<1>3. CASE UNCHANGED outcome
  BY <1>1, <1>3 DEF Settled
<1>4. CASE Head(link.down) = reqId[c] /\ Finish(c, "answered")
  <2>1. reqId[c] \in Ids /\ outcome[reqId[c]] = "open"
    BY DEF ReadEnds, Inv, Numbered
  <2>2. OnLink(reqId[c]) /\ link # NoLink
    <3>1. link # NoLink /\ link \in Links /\ link.down # <<>>
      BY DEF ReadEnds, Inv, TypeOK, Lock, Exchanging
    <3>2. link.down \in Seq(WireLine)
      BY <3>1 DEF Links
    <3>3. 1 \in DOMAIN link.down /\ link.down[1] = reqId[c]
      BY <1>4, <3>1, <3>2
    <3> QED BY <3>1, <3>3 DEF OnLink
  <2>3. Reached(reqId[c]) > 0
    BY <2>1, <2>2, ReachedCounts DEF Inv, Heard
  <2>4. Settled' = [Settled EXCEPT ![reqId[c]] = "answered"]
    BY <1>4, <2>1, SettlesOne DEF Finish
  <2>5. Rpc!Answer(reqId[c])
    BY <1>1, <2>1, <2>3, <2>4 DEF Rpc!Answer, Settled, Reaches
  <2> QED BY <2>1, <2>5 DEF Rpc!Next
<1> QED BY <1>2, <1>3, <1>4 DEF ReadEnds

LEMMA NextImplementsRpc == Inv /\ [Next]_vars => [Rpc!Next]_(Rpc!rpcVars)
<1> SUFFICES ASSUME Inv, [Next]_vars
             PROVE  Rpc!Next \/ UNCHANGED <<Settled, Reaches>>
  BY DEF Rpc!rpcVars, Reaches
<1>1. ASSUME UNCHANGED <<outcome, written>>
      PROVE  UNCHANGED <<Settled, Reaches>>
  BY <1>1, SameLinesSameReaches DEF Settled
<1>2. ASSUME NEW c \in Callers, stage[c] \in Exchanging,
             NEW result \in {"eof", "timeout"}, DropAndRetry(c, result)
      PROVE  Rpc!Next \/ UNCHANGED <<Settled, Reaches>>
  <2>1. stage[c] # "idle"
    BY <1>2 DEF Exchanging
  <2> QED BY <1>1, <1>2, <2>1, FinishSettles DEF DropAndRetry
<1>3. ASSUME NEW c \in Callers, Progress(c)
      PROVE  Rpc!Next \/ UNCHANGED <<Settled, Reaches>>
  <2>1. CASE Acquire(c)
    BY <1>1, <2>1, FinishSettles DEF Acquire
  <2>2. CASE WriteBegins(c) \/ ReadBegins(c)
    BY <1>1, <2>2 DEF WriteBegins, ReadBegins
  <2>3. CASE ConnectionLost(c)
    BY <1>2, <2>3 DEF ConnectionLost
  <2>4. CASE Timeout(c)
    BY <1>2, <2>4 DEF Timeout
  <2> QED BY <1>3, <2>1, <2>2, <2>3, <2>4, WriteEndsReaches, ReadEndsAnswers DEF Progress
<1>4. ASSUME NEW c \in Callers, Cancel(c)
      PROVE  Rpc!Next
  BY <1>4, FinishSettles DEF Cancel
<1>5. CASE Bridge
  BY <1>1, <1>5 DEF Bridge, BridgeReads, BridgeAnswers, BridgeBabbles, BridgeCloses,
                    BridgeStep, callVars
<1>6. CASE Terminated \/ UNCHANGED vars
  BY <1>1, <1>6 DEF Terminated, vars, callVars
<1> QED BY <1>3, <1>4, <1>5, <1>6, CallIssues DEF Next

LEMMA InitImplementsRpc == Init => Rpc!Init
<1> SUFFICES ASSUME Init PROVE Rpc!Init
  OBVIOUS
<1>1. Settled = [r \in Ids |-> "unused"]
  BY DEF Init, Settled
<1>2. \A r \in Ids : Reached(r) = 0
  <2>1. \A r \in Ids : {i \in DOMAIN written : written[i].id = r} = {}
    BY DEF Init
  <2> QED BY <2>1, FS_EmptySet DEF Reached
<1> QED BY <1>1, <1>2 DEF Rpc!Init

(* With sockets, the mutex, retries and dropped futures left out, request()  *)
(* is a remote call that reaches the bridge at most twice, is answered only  *)
(* if it reached it, and comes to one outcome (main.rs 102-207).             *)
THEOREM ImplementsRpcCorrect == Spec => ImplementsRpc
BY InitImplementsRpc, NextImplementsRpc, InvCorrect, PTL
   DEF Spec, ImplementsRpc, Rpc!Spec

-----------------------------------------------------------------------------
(* Blame: every line that does not parse, read or still to be read, is one   *)
(* the bridge garbled or a dropped reader tore.                              *)
GarbledIn(s) == {i \in DOMAIN s : s[i] = Garbage}

LEMMA GarbledFinite ==
    ASSUME NEW S, NEW s \in Seq(S)
    PROVE  IsFiniteSet(GarbledIn(s)) /\ Cardinality(GarbledIn(s)) \in Nat
<1>1. DOMAIN s = 1..Len(s) /\ Len(s) \in Nat
  OBVIOUS
<1>2. IsFiniteSet(DOMAIN s)
  BY <1>1, FS_Interval
<1>3. IsFiniteSet(GarbledIn(s))
  BY <1>2, FS_Subset DEF GarbledIn
<1> QED BY <1>3, FS_CardinalityType

(* Reading a line takes its garbage, if it is any, with it. *)
LEMMA TailGarbled ==
    ASSUME NEW S, NEW s \in Seq(S), s # <<>>, NEW t, t = Tail(s)
    PROVE  Cardinality(GarbledIn(t)) <=
               IF Head(s) = Garbage THEN Cardinality(GarbledIn(s)) - 1
                                    ELSE Cardinality(GarbledIn(s))
<1> DEFINE rest == GarbledIn(s) \ {1}
           shift == [i \in GarbledIn(t) |-> i + 1]
<1>1. /\ t \in Seq(S) /\ Len(t) = Len(s) - 1 /\ DOMAIN t = 1..Len(t) /\ Len(t) \in Nat
      /\ \A i \in DOMAIN t : i + 1 \in DOMAIN s /\ t[i] = s[i + 1]
  BY TailFacts
<1>2. IsFiniteSet(GarbledIn(s)) /\ Cardinality(GarbledIn(s)) \in Nat
  BY GarbledFinite
<1>3. /\ IsFiniteSet(rest)
      /\ Cardinality(rest) = IF 1 \in GarbledIn(s) THEN Cardinality(GarbledIn(s)) - 1
                                                   ELSE Cardinality(GarbledIn(s))
  BY <1>2, FS_RemoveElement
<1>4. shift \in Injection(GarbledIn(t), rest)
  <2>1. \A i \in GarbledIn(t) : i \in Nat /\ i > 0 /\ i + 1 \in rest
    BY <1>1 DEF GarbledIn
  <2>2. shift \in [GarbledIn(t) -> rest]
    BY <2>1
  <2>3. \A i, j \in GarbledIn(t) : shift[i] = shift[j] => i = j
    BY <2>1
  <2> QED BY <2>2, <2>3 DEF Injection, IsInjective
<1>5. Cardinality(GarbledIn(t)) <= Cardinality(rest)
  BY <1>3, <1>4, FS_Injection
<1>6. 1 \in GarbledIn(s) <=> Head(s) = Garbage
  BY HeadFirst DEF GarbledIn
<1> QED BY <1>3, <1>5, <1>6

(* A line added, or the first one torn, is one more at most. *)
LEMMA MoreGarbled ==
    ASSUME NEW S, NEW s \in Seq(S), NEW T, NEW t \in Seq(T), NEW k,
           \A i \in DOMAIN t : i = k \/ (i \in DOMAIN s /\ t[i] = s[i])
    PROVE  Cardinality(GarbledIn(t)) <= Cardinality(GarbledIn(s)) + 1
<1>1. GarbledIn(t) \subseteq GarbledIn(s) \cup {k}
  BY DEF GarbledIn
<1>2. /\ IsFiniteSet(GarbledIn(s)) /\ Cardinality(GarbledIn(s)) \in Nat
      /\ IsFiniteSet(GarbledIn(s) \cup {k})
      /\ Cardinality(GarbledIn(s) \cup {k}) <= Cardinality(GarbledIn(s)) + 1
  <2>1. IsFiniteSet(GarbledIn(s)) /\ Cardinality(GarbledIn(s)) \in Nat
    BY GarbledFinite
  <2> HIDE DEF GarbledIn
  <2>2. /\ IsFiniteSet(GarbledIn(s) \cup {k})
        /\ Cardinality(GarbledIn(s) \cup {k}) =
             IF k \in GarbledIn(s) THEN Cardinality(GarbledIn(s)) ELSE Cardinality(GarbledIn(s)) + 1
    BY <2>1, FS_AddElement
  <2> QED BY <2>1, <2>2
<1>3. /\ Cardinality(GarbledIn(t)) <= Cardinality(GarbledIn(s) \cup {k})
      /\ Cardinality(GarbledIn(t)) \in Nat /\ Cardinality(GarbledIn(s) \cup {k}) \in Nat
  BY <1>1, <1>2, FS_Subset, FS_CardinalityType, GarbledFinite
<1> QED BY <1>2, <1>3

LEMMA CountType == \A result : Count(result) \in Nat
<1> TAKE result
<1>1. IsFiniteSet(Ids)
  BY TransportAssumption, FS_Interval DEF Ids
<1>2. IsFiniteSet({r \in Ids : outcome[r] = result})
  BY <1>1, FS_Subset
<1> QED BY <1>2, FS_CardinalityType DEF Count

(* A request that ends counts once more under its outcome, and no less under *)
(* any other end.                                                            *)
LEMMA CountMoves ==
    ASSUME NEW r \in Ids, NEW result, outcome[r] \in {"unused", "open"},
           \A q \in Ids : outcome'[q] = IF q = r THEN result ELSE outcome[q]
    PROVE  /\ result = "invalid" => Count("invalid")' = Count("invalid") + 1
           /\ result # "invalid" => Count("invalid")' = Count("invalid")
           /\ result = "cancelled" => Count("cancelled")' = Count("cancelled") + 1
           /\ result # "cancelled" => Count("cancelled")' = Count("cancelled")
<1> SUFFICES ASSUME NEW end \in {"invalid", "cancelled"}
             PROVE  /\ result = end => Count(end)' = Count(end) + 1
                    /\ result # end => Count(end)' = Count(end)
  BY DEF Count
<1> DEFINE E == {q \in Ids : outcome[q] = end}
<1>1. IsFiniteSet(Ids)
  BY TransportAssumption, FS_Interval DEF Ids
<1>2. IsFiniteSet(E)
  BY <1>1, FS_Subset
<1>3. {q \in Ids : outcome'[q] = end} = IF result = end THEN E \cup {r} ELSE E
  OBVIOUS
<1>4. r \notin E
  OBVIOUS
<1>5. Cardinality(E \cup {r}) = Cardinality(E) + 1
  BY <1>2, <1>4, FS_AddElement
<1> QED BY <1>3, <1>5 DEF Count

(* What stands unread on the connection, none if there is none. *)
LEMMA GarbledOnLink ==
    ASSUME TypeOK
    PROVE  /\ link = NoLink => Cardinality(Garbled) = 0
           /\ link # NoLink =>
                /\ Garbled = GarbledIn(link.down) /\ link \in Links
                /\ link.down \in Seq(WireLine)
           /\ Cardinality(Garbled) \in Nat
<1>1. link = NoLink => Cardinality(Garbled) = 0
  BY FS_EmptySet DEF Garbled
<1>2. link # NoLink =>
        /\ Garbled = GarbledIn(link.down) /\ link \in Links
        /\ link.down \in Seq(WireLine)
  BY DEF TypeOK, Links, Garbled, GarbledIn
<1> QED BY <1>1, <1>2, GarbledFinite

(* A step after which nothing more stands on the connection. *)
LEMMA BlamedStays ==
    ASSUME Inv, Blamed, UNCHANGED garbage,
           Count("invalid")' = Count("invalid"), Count("cancelled")' = Count("cancelled"),
           link' = NoLink \/ link'.down = <<>> \/
             (link # NoLink /\ link' # NoLink /\ link'.down = link.down)
    PROVE  Blamed'
<1>1. Cardinality(Garbled') <= Cardinality(Garbled) /\ Cardinality(Garbled') \in Nat
  <2>1. CASE link' = NoLink \/ link'.down = <<>>
    <3>1. Garbled' = {}
      BY <2>1 DEF Garbled
    <3> QED BY <3>1, FS_EmptySet, GarbledOnLink DEF Inv
  <2>2. CASE link # NoLink /\ link' # NoLink /\ link'.down = link.down
    <3>1. Garbled' = Garbled
      BY <2>2 DEF Garbled
    <3> QED BY <3>1, GarbledOnLink DEF Inv
  <2> QED BY <2>1, <2>2
<1>2. /\ Cardinality(Garbled) \in Nat
      /\ garbage \in Nat /\ Count("invalid") \in Nat /\ Count("cancelled") \in Nat
  BY GarbledOnLink, CountType DEF Inv, TypeOK
<1> QED BY <1>1, <1>2 DEF Blamed

LEMMA FinishCounts ==
    ASSUME Inv, NEW c \in Callers, stage[c] # "idle", NEW result, Finish(c, result)
    PROVE  /\ result = "invalid" => Count("invalid")' = Count("invalid") + 1
           /\ result # "invalid" => Count("invalid")' = Count("invalid")
           /\ result = "cancelled" => Count("cancelled")' = Count("cancelled") + 1
           /\ result # "cancelled" => Count("cancelled")' = Count("cancelled")
<1>1. reqId[c] \in Ids /\ outcome[reqId[c]] = "open"
  BY DEF Inv, Numbered
<1>2. \A q \in Ids : outcome'[q] = IF q = reqId[c] THEN result ELSE outcome[q]
  BY DEF Finish, Inv, TypeOK
<1> QED BY <1>1, <1>2, CountMoves

LEMMA SameOutcomesSameCounts ==
    ASSUME UNCHANGED outcome
    PROVE  Count("invalid")' = Count("invalid") /\ Count("cancelled")' = Count("cancelled")
BY DEF Count

LEMMA ReadEndsBlames ==
    ASSUME Inv, Blamed, NEW c \in Callers, ReadEnds(c)
    PROVE  Blamed'
<1> DEFINE line == Head(link.down)
<1>1. /\ link # NoLink /\ link.down # <<>> /\ link \in Links /\ link.down \in Seq(WireLine)
      /\ Garbled = GarbledIn(link.down) /\ stage[c] # "idle"
  BY GarbledOnLink DEF ReadEnds, Inv, Lock, Exchanging
<1>2. Garbled' \subseteq GarbledIn(Tail(link.down))
  <2>1. link'.down = Tail(link.down)
    BY <1>1 DEF ReadEnds, Links
  <2> QED BY <2>1 DEF Garbled, GarbledIn
<1>3. /\ Cardinality(Garbled') \in Nat /\ Cardinality(Garbled) \in Nat
      /\ Cardinality(Garbled') <= IF line = Garbage THEN Cardinality(Garbled) - 1
                                                    ELSE Cardinality(Garbled)
  <2>1. PICK t \in Seq(WireLine) : t = Tail(link.down)
    BY <1>1, TailFacts
  <2>2. IsFiniteSet(GarbledIn(t)) /\ Cardinality(GarbledIn(t)) \in Nat
    BY GarbledFinite
  <2>3. Cardinality(GarbledIn(t)) <= IF line = Garbage THEN Cardinality(Garbled) - 1
                                                       ELSE Cardinality(Garbled)
    BY <1>1, <2>1, TailGarbled
  <2>4. Cardinality(Garbled') <= Cardinality(GarbledIn(t)) /\ Cardinality(Garbled') \in Nat
    BY <1>2, <2>1, <2>2, FS_Subset, FS_CardinalityType
  <2>5. Cardinality(Garbled) \in Nat
    BY GarbledOnLink DEF Inv
  <2> HIDE DEF line
  <2> QED BY <2>2, <2>3, <2>4, <2>5
<1>4. \/ /\ line = Garbage /\ Count("invalid")' = Count("invalid") + 1
         /\ Count("cancelled")' = Count("cancelled")
      \/ Count("invalid")' = Count("invalid") /\ Count("cancelled")' = Count("cancelled")
  BY <1>1, FinishCounts, SameOutcomesSameCounts DEF ReadEnds
<1>5. garbage' = garbage /\ garbage \in Nat
  BY DEF ReadEnds, Inv, TypeOK
<1> HIDE DEF line
<1> QED BY <1>3, <1>4, <1>5, CountType DEF Blamed

LEMMA CancelBlames ==
    ASSUME Inv, Blamed, NEW c \in Callers, Cancel(c)
    PROVE  Blamed'
<1>1. Count("invalid")' = Count("invalid") /\ Count("cancelled")' = Count("cancelled") + 1
  BY FinishCounts DEF Cancel
<1>2. /\ Cardinality(Garbled') \in Nat /\ Cardinality(Garbled) \in Nat
      /\ Cardinality(Garbled') <= Cardinality(Garbled) + 1
  <2>1. Cardinality(Garbled) \in Nat
    BY GarbledOnLink DEF Inv
  <2>2. CASE stage[c] = "midline"
    <3>1. /\ link # NoLink /\ link.down # <<>> /\ link \in Links
          /\ link.down \in Seq(WireLine) /\ Garbled = GarbledIn(link.down)
      BY <2>2, GarbledOnLink DEF Inv, Lock, Exchanging
    <3>2. PICK t : t = <<Garbage>> \o Tail(link.down)
      OBVIOUS
    <3>3. /\ t \in Seq(WireLine) /\ DOMAIN t = DOMAIN link.down
          /\ \A i \in DOMAIN t : i # 1 => t[i] = link.down[i]
      <4>1. Garbage \in WireLine
        BY DEF WireLine
      <4> QED BY <3>1, <3>2, <4>1, TornFacts
    <3>4. Garbled' \subseteq GarbledIn(t)
      <4>1. link'.down = t
        BY <2>2, <3>1, <3>2 DEF Cancel, Links
      <4> QED BY <4>1 DEF Garbled, GarbledIn
    <3>5. IsFiniteSet(GarbledIn(t)) /\ Cardinality(GarbledIn(t)) \in Nat
      BY <3>3, GarbledFinite
    <3>6. Cardinality(GarbledIn(t)) <= Cardinality(Garbled) + 1
      BY <3>1, <3>3, MoreGarbled
    <3>7. Cardinality(Garbled') <= Cardinality(GarbledIn(t)) /\ Cardinality(Garbled') \in Nat
      BY <3>4, <3>5, FS_Subset, FS_CardinalityType
    <3> QED BY <2>1, <3>5, <3>6, <3>7
  <2>3. CASE stage[c] # "midline"
    <3>1. Garbled' = Garbled
      BY <2>3 DEF Cancel, Garbled
    <3> QED BY <2>1, <3>1
  <2> QED BY <2>2, <2>3
<1>3. garbage' = garbage /\ garbage \in Nat
  BY DEF Cancel, Inv, TypeOK
<1> QED BY <1>1, <1>2, <1>3, CountType DEF Blamed

LEMMA BridgeBlames ==
    ASSUME Inv, Blamed, Bridge
    PROVE  Blamed'
<1>1. /\ link # NoLink /\ link \in Links /\ link.down \in Seq(WireLine)
      /\ Garbled = GarbledIn(link.down)
      /\ Garbage \in WireLine /\ link.seen \subseteq Ids /\ Ids \subseteq WireLine
  <2>1. link # NoLink
    BY DEF Bridge, BridgeReads, BridgeAnswers, BridgeBabbles, BridgeCloses
  <2> QED BY <2>1, GarbledOnLink DEF Inv, Links, WireLine
<1>2. Count("invalid")' = Count("invalid") /\ Count("cancelled")' = Count("cancelled")
  <2>1. UNCHANGED outcome
    BY DEF Bridge, BridgeReads, BridgeAnswers, BridgeBabbles, BridgeCloses, BridgeStep, callVars
  <2> QED BY <2>1, SameOutcomesSameCounts
<1>3. CASE BridgeReads
  <2>1. link'.down = link.down /\ UNCHANGED garbage
    BY <1>1, <1>3 DEF BridgeReads, Links
  <2>2. Garbled' \subseteq Garbled
    BY <1>1, <2>1 DEF Garbled, GarbledIn
  <2>3. Cardinality(Garbled') <= Cardinality(Garbled) /\ Cardinality(Garbled') \in Nat
    BY <1>1, <2>2, GarbledFinite, FS_Subset, FS_CardinalityType
  <2>4. Cardinality(Garbled) \in Nat /\ garbage \in Nat
    BY GarbledOnLink DEF Inv, TypeOK
  <2> QED BY <1>2, <2>1, <2>3, <2>4, CountType DEF Blamed
<1>4. CASE BridgeCloses
  <2>1. link'.down = link.down /\ UNCHANGED garbage
    BY <1>1, <1>4 DEF BridgeCloses, Links
  <2>2. Garbled' \subseteq Garbled
    BY <1>1, <2>1 DEF Garbled, GarbledIn
  <2>3. Cardinality(Garbled') <= Cardinality(Garbled) /\ Cardinality(Garbled') \in Nat
    BY <1>1, <2>2, GarbledFinite, FS_Subset, FS_CardinalityType
  <2>4. Cardinality(Garbled) \in Nat /\ garbage \in Nat
    BY GarbledOnLink DEF Inv, TypeOK
  <2> QED BY <1>2, <2>1, <2>3, <2>4, CountType DEF Blamed
<1>5. CASE BridgeAnswers
  <2>1. PICK r \in link.seen :
          link' = [link EXCEPT !.seen = @ \ {r}, !.down = Append(@, r)]
    BY <1>5 DEF BridgeAnswers
  <2>2. link'.down = Append(link.down, r) /\ UNCHANGED garbage
    BY <1>1, <1>5, <2>1 DEF BridgeAnswers, Links
  <2>3. r # Garbage
    BY <1>1, TransportAssumption DEF Ids
  <2>4. Garbled' \subseteq Garbled
    BY <1>1, <2>2, <2>3 DEF Garbled, GarbledIn
  <2>5. Cardinality(Garbled') <= Cardinality(Garbled) /\ Cardinality(Garbled') \in Nat
    BY <1>1, <2>4, GarbledFinite, FS_Subset, FS_CardinalityType
  <2>6. Cardinality(Garbled) \in Nat /\ garbage \in Nat
    BY GarbledOnLink DEF Inv, TypeOK
  <2> QED BY <1>2, <2>2, <2>5, <2>6, CountType DEF Blamed
<1>6. CASE BridgeBabbles
  <2>1. PICK t \in Seq(WireLine) : t = Append(link.down, Garbage)
    <3>1. Append(link.down, Garbage) \in Seq(WireLine)
      BY <1>1
    <3> QED BY <3>1
  <2>2. link'.down = t /\ garbage' = garbage + 1
    BY <1>1, <1>6, <2>1 DEF BridgeBabbles, Links
  <2>3. Garbled' \subseteq GarbledIn(t)
    BY <2>2 DEF Garbled, GarbledIn
  <2>4. \A i \in DOMAIN t :
          i = Len(link.down) + 1 \/ (i \in DOMAIN link.down /\ t[i] = link.down[i])
    BY <1>1, <2>1
  <2>5. Cardinality(GarbledIn(t)) <= Cardinality(Garbled) + 1
    BY <1>1, <2>4, MoreGarbled
  <2>6. /\ Cardinality(Garbled') <= Cardinality(GarbledIn(t)) /\ Cardinality(Garbled') \in Nat
        /\ Cardinality(GarbledIn(t)) \in Nat
    BY <2>3, GarbledFinite, FS_Subset, FS_CardinalityType
  <2>7. Cardinality(Garbled) \in Nat /\ garbage \in Nat
    BY GarbledOnLink DEF Inv, TypeOK
  <2> QED BY <1>2, <2>2, <2>5, <2>6, <2>7, CountType DEF Blamed
<1> QED BY <1>3, <1>4, <1>5, <1>6 DEF Bridge

LEMMA NextBlames == Inv /\ Blamed /\ [Next]_vars => Blamed'
<1> SUFFICES ASSUME Inv, Blamed, [Next]_vars PROVE Blamed'
  OBVIOUS
<1>1. ASSUME NEW c \in Callers, Call(c)
      PROVE  Blamed'
  <2>1. /\ nextId \in Ids /\ outcome[nextId] = "unused"
        /\ \A q \in Ids : outcome'[q] = IF q = nextId THEN "open" ELSE outcome[q]
        /\ UNCHANGED <<link, garbage>>
    BY <1>1 DEF Call, Inv, Numbered, TypeOK, Ids
  <2>2. Count("invalid")' = Count("invalid") /\ Count("cancelled")' = Count("cancelled")
    BY <2>1, CountMoves
  <2> QED BY <2>1, <2>2, BlamedStays
<1>2. ASSUME NEW c \in Callers, stage[c] \in Exchanging,
             NEW result \in {"eof", "timeout"}, DropAndRetry(c, result)
      PROVE  Blamed'
  <2>1. stage[c] # "idle" /\ link' = NoLink /\ UNCHANGED garbage
    BY <1>2 DEF Exchanging, DropAndRetry
  <2>2. Count("invalid")' = Count("invalid") /\ Count("cancelled")' = Count("cancelled")
    BY <1>2, <2>1, FinishCounts, SameOutcomesSameCounts DEF DropAndRetry
  <2> QED BY <2>1, <2>2, BlamedStays
<1>3. ASSUME NEW c \in Callers, Acquire(c)
      PROVE  Blamed'
  <2>1. /\ stage[c] # "idle" /\ UNCHANGED garbage
        /\ UNCHANGED link \/ (link' = NewLink /\ link'.down = <<>>)
    BY <1>3 DEF Acquire, NewLink
  <2>2. Count("invalid")' = Count("invalid") /\ Count("cancelled")' = Count("cancelled")
    BY <1>3, <2>1, FinishCounts, SameOutcomesSameCounts DEF Acquire
  <2> QED BY <2>1, <2>2, BlamedStays
<1>4. ASSUME NEW c \in Callers, WriteBegins(c) \/ WriteEnds(c) \/ ReadBegins(c)
      PROVE  Blamed'
  <2>1. /\ link # NoLink /\ link \in Links /\ UNCHANGED <<garbage, outcome>>
    BY <1>4 DEF WriteBegins, WriteEnds, ReadBegins, Inv, TypeOK, Lock, Exchanging
  <2>2. link' # NoLink /\ link'.down = link.down
    <3>1. Inv'
      BY <1>4, WriteBeginsKeeps, WriteEndsKeeps, ReadBeginsKeeps
    <3>2. stage'[c] \in Exchanging
      BY <1>4 DEF WriteBegins, WriteEnds, ReadBegins, Exchanging, Inv, TypeOK
    <3>3. link' # NoLink
      BY <3>1, <3>2 DEF Inv, Lock
    <3>4. link'.down = link.down
      BY <1>4, <2>1 DEF WriteBegins, WriteEnds, ReadBegins, Links
    <3> QED BY <3>3, <3>4
  <2> QED BY <2>1, <2>2, BlamedStays, SameOutcomesSameCounts
<1>5. ASSUME NEW c \in Callers, Progress(c)
      PROVE  Blamed'
  <2>1. CASE ConnectionLost(c)
    BY <1>2, <2>1 DEF ConnectionLost
  <2>2. CASE Timeout(c)
    BY <1>2, <2>2 DEF Timeout
  <2> QED BY <1>3, <1>4, <1>5, <2>1, <2>2, ReadEndsBlames DEF Progress
<1>6. CASE Terminated \/ UNCHANGED vars
  BY <1>6, SameOutcomesSameCounts, BlamedStays DEF Terminated, vars, callVars
<1> QED BY <1>1, <1>5, <1>6, CancelBlames, BridgeBlames DEF Next

(* As the connection is kept when a line does not parse, such a line costs   *)
(* one request and no more: there are no more InvalidResponses than lines    *)
(* the bridge garbled or a dropped future tore (main.rs 169-172).            *)
THEOREM InvalidIsBlamedCorrect == Spec => []InvalidIsBlamed
<1>1. Init => Blamed
  <2> SUFFICES ASSUME Init PROVE Blamed
    OBVIOUS
  <2>1. Count("invalid") = 0 /\ Count("cancelled") = 0
    <3>1. \A result \in {"invalid", "cancelled"} : {r \in Ids : outcome[r] = result} = {}
      BY DEF Init
    <3> QED BY <3>1, FS_EmptySet DEF Count
  <2>2. Cardinality(Garbled) = 0 /\ garbage = 0
    BY FS_EmptySet DEF Init, Garbled
  <2> QED BY <2>1, <2>2 DEF Blamed
<1>2. Inv /\ Blamed => InvalidIsBlamed
  <2> SUFFICES ASSUME Inv, Blamed PROVE InvalidIsBlamed
    OBVIOUS
  <2>1. Cardinality(Garbled) \in Nat /\ Count("invalid") \in Nat
    BY GarbledOnLink, CountType DEF Inv
  <2>2. Count("cancelled") \in Nat /\ garbage \in Nat
    BY CountType DEF Inv, TypeOK
  <2> QED BY <2>1, <2>2 DEF Blamed, InvalidIsBlamed
<1> QED BY <1>1, <1>2, NextBlames, InvCorrect, PTL DEF Spec
==============================================================================
