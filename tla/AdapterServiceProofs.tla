------------------------- MODULE AdapterServiceProofs -------------------------
(***************************************************************************)
(* What holds of the adapter for every number of connections, threads and  *)
(* requests, and every limit on those in flight.                           *)
(***************************************************************************)
EXTENDS AdapterService, FiniteSetTheorems, SequenceTheorems, TLAPS

-----------------------------------------------------------------------------
Queued == {queue[i] : i \in DOMAIN queue}

Past(r) == requests[r].at \notin {"wire", "body"}

(* The lines on the wire are requests of the connection, not read yet. *)
Wires ==
    \A c \in Conns :
        /\ \A i \in DOMAIN wire[c] :
             requests[wire[c][i]].conn = c /\ requests[wire[c][i]].at = "wire"
        /\ \A i, j \in DOMAIN wire[c] : wire[c][i] = wire[c][j] => i = j
        /\ loop[c] = "full" => wire[c] # <<>>

(* Every task but a wake-up is submitted once, and stands for a request      *)
(* that is where the task takes it up, or a loop without a thread.           *)
Placed(t) ==
    /\ t.what = "body" => t.id \in Requests /\ requests[t.id].at \in {"body", "checking"}
    /\ t.what = "answer" => t.id \in Requests /\ requests[t.id].at = "answering"

Once == \A i, j \in DOMAIN queue : queue[i] = queue[j] /\ queue[i].what # "wake" => i = j

Jobs ==
    /\ Once
    /\ \A t \in Queued \cap running : t.what = "wake"
    /\ \A t \in Queued \cup running : Placed(t)
    /\ \A t \in Queued : t.what = "loop" =>
         t.id \in Conns /\ loop[t.id] = "submitted" /\ transport = "socket"

(* A connection that ends in order has nothing left to read, and waits for   *)
(* all that is in flight.                                                    *)
Ending ==
    \A c \in Conns :
        /\ client[c] = "gone" \/ loop[c] \in {"draining", "closed", "cut"} => c \in eof
        /\ loop[c] \in {"draining", "closed"} => wire[c] = <<>>
        /\ loop[c] = "draining" => InFlight(c) \subseteq awaited[c]
        /\ loop[c] = "closed" => InFlight(c) = {}

(* The table's text is one that no answered push was sent after. *)
Knowing ==
    /\ \A r \in Requests : \A p \in requests[r].after :
         p \in Requests /\ requests[p].kind = "push" /\ requests[p].at = "answered"
    /\ \A q \in Requests : requests[q].kind = "push" /\ Past(q) =>
         latest # 0 /\ latest \notin requests[q].after
    /\ \A r \in Requests : latest = r => Past(r)

Inv ==
    /\ TypeOK /\ Wires /\ Jobs /\ Ending /\ Knowing
    /\ InFlightBound /\ ReadsFresh /\ LostOnlyIfCut

-----------------------------------------------------------------------------
(* Requests. *)
Places == {"wire", "body", "checking", "answering"} \cup Completed

LEMMA RequestsTyped ==
    ASSUME TypeOK
    PROVE  /\ Requests = 1..Len(requests) /\ Len(requests) \in Nat /\ Requests \subseteq Nat
           /\ 0 \notin Requests /\ IsFiniteSet(Requests)
           /\ \A r \in Requests :
                /\ requests[r] \in Request /\ requests[r].conn \in Conns
                /\ requests[r].kind \in Kinds /\ requests[r].at \in Places
                /\ requests[r].read \in Nat /\ requests[r].after \subseteq Nat
<1>1. requests \in Seq(Request)
  BY DEF TypeOK
<1>2. /\ Requests = 1..Len(requests) /\ Len(requests) \in Nat
      /\ \A r \in Requests : requests[r] \in Request
  BY <1>1 DEF Requests
<1>3. \A q \in Request :
        q.conn \in Conns /\ q.kind \in Kinds /\ q.at \in Places /\ q.read \in Nat
        /\ q.after \subseteq Nat
  BY DEF Request, Places
<1>4. IsFiniteSet(1..Len(requests))
  BY <1>2, FS_Interval
<1> QED BY <1>2, <1>3, <1>4

(* One request moves; what it has read may change with it. *)
Moves(r, where) ==
    /\ requests' \in Seq(Request) /\ DOMAIN requests' = DOMAIN requests
    /\ requests'[r].at = where
    /\ requests'[r].conn = requests[r].conn /\ requests'[r].kind = requests[r].kind
    /\ requests'[r].after = requests[r].after
    /\ \A q \in Requests \ {r} : requests'[q] = requests[q]

LEMMA AtMoves ==
    ASSUME TypeOK, NEW r \in Requests, NEW where \in Places, At(r, where)
    PROVE  Moves(r, where) /\ requests'[r].read = requests[r].read
<1> DEFINE q == [requests[r] EXCEPT !.at = where]
<1>1. /\ q \in Request /\ q.at = where /\ q.conn = requests[r].conn
      /\ q.kind = requests[r].kind /\ q.after = requests[r].after /\ q.read = requests[r].read
  <2>1. requests[r] \in Request
    BY RequestsTyped
  <2> QED BY <2>1 DEF Request, Places
<1>2. requests' = [requests EXCEPT ![r] = q]
  BY DEF At
<1> HIDE DEF q
<1>3. requests' \in Seq(Request)
  BY <1>1, <1>2, RequestsTyped, ExceptSeq DEF TypeOK
<1>4. /\ DOMAIN requests' = DOMAIN requests /\ requests'[r] = q
      /\ \A p \in Requests \ {r} : requests'[p] = requests[p]
  BY <1>2 DEF Requests, TypeOK
<1> QED BY <1>1, <1>3, <1>4 DEF Moves

LEMMA CheckMoves ==
    ASSUME TypeOK, NEW r \in Requests, CheckDocument(r)
    PROVE  Moves(r, "checking") /\ requests'[r].read = latest
<1> DEFINE q == [requests[r] EXCEPT !.at = "checking", !.read = latest]
<1>1. /\ q \in Request /\ q.at = "checking" /\ q.conn = requests[r].conn
      /\ q.kind = requests[r].kind /\ q.after = requests[r].after /\ q.read = latest
  <2>1. requests[r] \in Request /\ latest \in Nat
    BY RequestsTyped DEF TypeOK
  <2> QED BY <2>1 DEF Request
<1>2. requests' = [requests EXCEPT ![r] = q]
  BY DEF CheckDocument
<1> HIDE DEF q
<1>3. requests' \in Seq(Request)
  BY <1>1, <1>2, RequestsTyped, ExceptSeq DEF TypeOK
<1>4. /\ DOMAIN requests' = DOMAIN requests /\ requests'[r] = q
      /\ \A p \in Requests \ {r} : requests'[p] = requests[p]
  BY <1>2 DEF Requests, TypeOK
<1> QED BY <1>1, <1>3, <1>4 DEF Moves

(* What is in flight after one request has moved. *)
LEMMA MovesInFlight ==
    ASSUME TypeOK, NEW r \in Requests, NEW where, Moves(r, where), NEW c \in Conns
    PROVE  /\ InFlight(c)' \subseteq InFlight(c) \cup {r}
           /\ requests[r].conn # c \/ where \in Completed => InFlight(c)' \subseteq InFlight(c)
           /\ requests[r].at \notin Completed \cup {"wire"} => InFlight(c)' \subseteq InFlight(c)
<1>1. Requests' = Requests
  BY DEF Moves, Requests
<1>2. /\ requests'[r].at = where /\ requests'[r].conn = requests[r].conn
      /\ \A q \in Requests \ {r} : requests'[q] = requests[q]
  BY DEF Moves
<1> QED BY <1>1, <1>2 DEF InFlight, OnConn

LEMMA InFlightFinite ==
    ASSUME TypeOK, NEW c \in Conns
    PROVE  IsFiniteSet(InFlight(c)) /\ Cardinality(InFlight(c)) \in Nat
<1>1. InFlight(c) \subseteq Requests
  BY DEF InFlight, OnConn
<1> QED BY <1>1, RequestsTyped, FS_Subset, FS_CardinalityType

-----------------------------------------------------------------------------
(* The pool's queue. *)
LEMMA TaskTyped ==
    ASSUME NEW what \in {"loop", "body", "answer", "wake"}, NEW id \in Nat
    PROVE  /\ Task(what, id) \in Tasks
           /\ Task(what, id).what = what /\ Task(what, id).id = id
BY DEF Task, Tasks

LEMMA TaskSubmitted ==
    ASSUME TypeOK, NEW t \in Tasks, queue' = Append(queue, t)
    PROVE  /\ queue' \in Seq(Tasks) /\ Queued' = Queued \cup {t}
           /\ Once /\ (t \notin Queued \/ t.what = "wake") => Once'
<1>1. queue \in Seq(Tasks)
  BY DEF TypeOK
<1> DEFINE n == Len(queue) + 1
<1>2. /\ queue' \in Seq(Tasks) /\ DOMAIN queue' = DOMAIN queue \cup {n}
      /\ n \notin DOMAIN queue /\ queue'[n] = t
      /\ \A i \in DOMAIN queue : queue'[i] = queue[i]
  BY <1>1
<1> HIDE DEF n
<1>3. Queued' = Queued \cup {t}
  BY <1>2 DEF Queued
<1>4. ASSUME Once, t \notin Queued \/ t.what = "wake"
      PROVE  Once'
  BY <1>2, <1>4 DEF Once, Queued
<1> QED BY <1>2, <1>3, <1>4

LEMMA TaskTaken ==
    ASSUME TypeOK, queue # <<>>, queue' = Tail(queue)
    PROVE  /\ queue' \in Seq(Tasks) /\ Head(queue) \in Tasks /\ Head(queue) \in Queued
           /\ Queued' \subseteq Queued
           /\ Once => Once' /\ (Head(queue) \in Queued' => Head(queue).what = "wake")
<1>1. queue \in Seq(Tasks)
  BY DEF TypeOK
<1>2. /\ queue' \in Seq(Tasks) /\ Head(queue) = queue[1] /\ 1 \in DOMAIN queue
      /\ Head(queue) \in Tasks
      /\ \A i \in DOMAIN queue' :
           i \in Nat /\ i + 1 \in DOMAIN queue /\ i + 1 # 1 /\ queue'[i] = queue[i + 1]
  BY <1>1
<1>3. Head(queue) \in Queued /\ Queued' \subseteq Queued
  BY <1>2 DEF Queued
<1>4. ASSUME Once
      PROVE  Once' /\ (Head(queue) \in Queued' => Head(queue).what = "wake")
  BY <1>2, <1>4 DEF Once, Queued
<1> QED BY <1>2, <1>3, <1>4

LEMMA Wakes ==
    ASSUME TypeOK, NEW c \in Conns, queue' = queue \o Wake(c)
    PROVE  /\ queue' \in Seq(Tasks)
           /\ Queued' \subseteq Queued \cup {Task("wake", c)}
           /\ Once => Once'
<1>1. Task("wake", c) \in Tasks /\ Task("wake", c).what = "wake"
  BY TaskTyped DEF Conns
<1>2. queue \in Seq(Tasks)
  BY DEF TypeOK
<1>3. CASE loop[c] = "full"
  <2>1. queue' = Append(queue, Task("wake", c))
    BY <1>1, <1>2, <1>3 DEF Wake
  <2> QED BY <1>1, <2>1, TaskSubmitted
<1>4. CASE loop[c] # "full"
  <2>1. queue' = queue
    BY <1>2, <1>4, ConcatEmptySeq DEF Wake
  <2> QED BY <1>2, <2>1 DEF Queued, Once
<1> QED BY <1>3, <1>4

-----------------------------------------------------------------------------
(* A request moves: what becomes of each part of the invariant. *)
LEMMA MovesTypes ==
    ASSUME TypeOK, NEW r \in Requests, NEW where, Moves(r, where)
    PROVE  /\ Requests' = Requests /\ requests' \in Seq(Request)
           /\ \A q \in Requests : /\ requests'[q].kind = requests[q].kind
                                  /\ requests'[q].conn = requests[q].conn
                                  /\ requests'[q].after = requests[q].after
           /\ latest \in {0} \cup {q \in Requests' : requests'[q].kind = "push"}
<1>1. Requests' = Requests /\ requests' \in Seq(Request)
  BY DEF Moves, Requests
<1>2. \A q \in Requests : /\ requests'[q].kind = requests[q].kind
                          /\ requests'[q].conn = requests[q].conn
                          /\ requests'[q].after = requests[q].after
  BY DEF Moves
<1> QED BY <1>1, <1>2 DEF TypeOK

LEMMA MovesBound ==
    ASSUME TypeOK, InFlightBound, NEW r \in Requests, NEW where, Moves(r, where),
           \/ where \in Completed
           \/ requests[r].at \notin Completed \cup {"wire"}
           \/ HasCapacity(requests[r].conn)
    PROVE  InFlightBound'
<1> SUFFICES ASSUME NEW c \in Conns
             PROVE  Cardinality(InFlight(c)') <= MaxInFlight
  BY DEF InFlightBound
<1>1. MaxInFlight \in Nat
  BY AdapterAssumption
<1>2. IsFiniteSet(InFlight(c)) /\ Cardinality(InFlight(c)) \in Nat
  BY InFlightFinite
<1>3. Cardinality(InFlight(c)) <= MaxInFlight
  BY DEF InFlightBound
<1>4. CASE InFlight(c)' \subseteq InFlight(c)
  <2>1. Cardinality(InFlight(c)') \in Nat /\ Cardinality(InFlight(c)') <= Cardinality(InFlight(c))
    BY <1>2, <1>4, FS_Subset, FS_CardinalityType
  <2> QED BY <1>1, <1>2, <1>3, <2>1
<1>5. CASE ~(InFlight(c)' \subseteq InFlight(c))
  <2>1. HasCapacity(c) /\ InFlight(c)' \subseteq InFlight(c) \cup {r}
    BY <1>5, MovesInFlight
  <2>2. Cardinality(InFlight(c)) < MaxInFlight
    BY <2>1 DEF HasCapacity
  <2>3. IsFiniteSet(InFlight(c) \cup {r})
    BY <1>2, FS_AddElement
  <2>4. Cardinality(InFlight(c) \cup {r}) <= Cardinality(InFlight(c)) + 1
    <3>1. Cardinality(InFlight(c) \cup {r})
            = IF r \in InFlight(c) THEN Cardinality(InFlight(c)) ELSE Cardinality(InFlight(c)) + 1
      BY <1>2, FS_AddElement
    <3> QED BY <1>2, <3>1
  <2>5. Cardinality(InFlight(c) \cup {r}) \in Nat
    BY <2>3, FS_CardinalityType
  <2>6. /\ Cardinality(InFlight(c)') \in Nat
        /\ Cardinality(InFlight(c)') <= Cardinality(InFlight(c) \cup {r})
    BY <2>1, <2>3, FS_Subset, FS_CardinalityType
  <2> QED BY <1>1, <1>2, <2>2, <2>4, <2>5, <2>6
<1> QED BY <1>4, <1>5

LEMMA MovesKnowing ==
    ASSUME TypeOK, Knowing, NEW r \in Requests, NEW where, Moves(r, where), latest' = latest,
           requests[r].at # "answered",
           Past(r) => where \notin {"wire", "body"},
           requests[r].kind = "push" /\ where \notin {"wire", "body"} => Past(r)
    PROVE  Knowing'
<1>1. /\ Requests' = Requests
      /\ \A q \in Requests : /\ requests'[q].kind = requests[q].kind
                             /\ requests'[q].after = requests[q].after
  BY MovesTypes
<1>2. \A q \in Requests : /\ requests[q].at = "answered" => requests'[q].at = "answered"
                          /\ Past(q) => Past(q)'
                          /\ requests[q].kind = "push" /\ Past(q)' => Past(q)
  BY DEF Moves, Past
<1> QED BY <1>1, <1>2 DEF Knowing

LEMMA MovesFresh ==
    ASSUME TypeOK, Knowing, ReadsFresh, NEW r \in Requests, NEW where, Moves(r, where),
           requests'[r].read = requests[r].read,
           requests[r].kind = "check" /\ where \notin {"wire", "body"} => Past(r)
    PROVE  ReadsFresh'
<1>1. /\ Requests' = Requests
      /\ \A q \in Requests : /\ requests'[q].kind = requests[q].kind
                             /\ requests'[q].after = requests[q].after
                             /\ requests'[q].read = requests[q].read
  BY MovesTypes DEF Moves
<1>2. \A q \in Requests : requests[q].kind = "check" /\ Past(q)' => Past(q)
  BY DEF Moves, Past
<1>3. ASSUME NEW k \in Requests, requests[k].kind = "check", Past(k)'
      PROVE  /\ requests[k].read = 0 => requests[k].after = {}
             /\ \A q \in requests[k].after :
                  requests[k].read = 0 \/ requests[k].read \notin requests'[q].after
  <2>1. Past(k)
    BY <1>2, <1>3
  <2>2. \A q \in requests[k].after : q \in Requests
    BY DEF Knowing
  <2> QED BY <1>1, <1>3, <2>1, <2>2 DEF ReadsFresh, Past
<1> QED BY <1>1, <1>3 DEF ReadsFresh, Past

LEMMA MovesLost ==
    ASSUME TypeOK, LostOnlyIfCut, NEW r \in Requests, NEW where, Moves(r, where),
           \A c \in Conns : loop[c] = "cut" => loop'[c] = "cut",
           transport' = transport, client' = client,
           where = "lost" => \/ client[requests[r].conn] = "gone"
                             \/ transport = "socket" /\ loop'[requests[r].conn] = "cut"
    PROVE  LostOnlyIfCut'
<1>1. /\ Requests' = Requests
      /\ \A q \in Requests : requests'[q].conn = requests[q].conn
  BY MovesTypes
<1>2. \A q \in Requests : requests'[q].at = "lost" => q = r \/ requests[q].at = "lost"
  BY DEF Moves
<1>3. requests'[r].at = where
  BY DEF Moves
<1> QED BY <1>1, <1>2, <1>3, RequestsTyped DEF LostOnlyIfCut

(* A request that has been read moves, the connections staying as they are. *)
LEMMA MovesOn ==
    ASSUME TypeOK, Wires, Ending, NEW r \in Requests, NEW where \in Places, Moves(r, where),
           requests[r].at \notin Completed \cup {"wire"}, where # "wire",
           UNCHANGED <<wire, loop, client, eof, awaited>>
    PROVE  Wires' /\ Ending'
<1>1. \A c \in Conns : InFlight(c)' \subseteq InFlight(c)
  BY MovesInFlight
<1>2. Ending'
  <2>1. \A c \in Conns : InFlight(c) = {} => InFlight(c)' = {}
    BY <1>1
  <2>2. \A c \in Conns : InFlight(c) \subseteq awaited[c] => InFlight(c)' \subseteq awaited[c]
    BY <1>1
  <2> QED BY <2>1, <2>2 DEF Ending
<1>3. Wires'
  <2>1. ASSUME NEW c \in Conns, NEW i \in DOMAIN wire[c]
        PROVE  requests'[wire[c][i]].conn = c /\ requests'[wire[c][i]].at = "wire"
    <3>1. wire[c][i] \in Requests
      BY DEF TypeOK
    <3>2. wire[c][i] # r
      BY DEF Wires
    <3> QED BY <3>1, <3>2 DEF Moves, Wires
  <2> QED BY <2>1 DEF Wires
<1> QED BY <1>2, <1>3

-----------------------------------------------------------------------------
(* The steps of the invariant: nothing of a connection or a request changes. *)
LEMMA RequestsStay ==
    ASSUME Knowing /\ InFlightBound /\ ReadsFresh, UNCHANGED <<requests, latest>>
    PROVE  Knowing' /\ InFlightBound' /\ ReadsFresh'
<1>1. Knowing'
  BY DEF Knowing, Past, Requests
<1>2. InFlightBound'
  BY DEF InFlightBound, InFlight, OnConn, Requests
<1>3. ReadsFresh'
  BY DEF ReadsFresh, Requests
<1> QED BY <1>1, <1>2, <1>3

LEMMA ConnectKeeps ==
    ASSUME Inv, NEW c \in Conns, Connect(c)
    PROVE  Inv'
<1>1. /\ transport = "socket" /\ loop[c] = "none"
      /\ queue' = Append(queue, Task("loop", c))
      /\ UNCHANGED <<transport, wire, client, eof, awaited, requests, running, lock, latest>>
  BY DEF Connect, clients
<1>2. loop' \in [Conns -> LoopStates] /\ loop'[c] = "submitted"
      /\ \A d \in Conns \ {c} : loop'[d] = loop[d]
  BY DEF Inv, TypeOK, Connect, LoopStates
<1>3. /\ Task("loop", c) \in Tasks /\ Task("loop", c).what = "loop" /\ Task("loop", c).id = c
  BY TaskTyped DEF Conns
<1>4. Task("loop", c) \notin Queued \cup running
  BY <1>1, <1>3 DEF Inv, Jobs, TypeOK
<1>5. queue' \in Seq(Tasks) /\ Queued' = Queued \cup {Task("loop", c)} /\ Once'
  BY <1>1, <1>3, <1>4, TaskSubmitted DEF Inv, Jobs
<1>6. TypeOK'
  BY <1>1, <1>2, <1>5 DEF Inv, TypeOK, Requests
<1>7. Wires' /\ Ending' /\ LostOnlyIfCut'
  BY <1>1, <1>2, RequestsTyped
     DEF Inv, Wires, Ending, LostOnlyIfCut, InFlight, OnConn, Requests
<1>8. Jobs'
  <2>1. \A t \in Queued' : t.what = "loop" =>
           t.id \in Conns /\ loop'[t.id] = "submitted" /\ transport' = "socket"
    BY <1>1, <1>2, <1>3, <1>5 DEF Inv, Jobs
  <2>2. \A t \in Queued' \cup running' : Placed(t)'
    BY <1>1, <1>3, <1>5 DEF Inv, Jobs, Placed, Requests
  <2>3. \A t \in Queued' \cap running' : t.what = "wake"
    BY <1>1, <1>4, <1>5 DEF Inv, Jobs
  <2> QED BY <1>5, <2>1, <2>2, <2>3 DEF Jobs
<1>9. Knowing' /\ InFlightBound' /\ ReadsFresh'
  BY <1>1, RequestsStay DEF Inv
<1> QED BY <1>6, <1>7, <1>8, <1>9 DEF Inv

LEMMA CloseInputKeeps ==
    ASSUME Inv, NEW c \in Conns, CloseInput(c)
    PROVE  Inv'
<1>1. /\ eof' = eof \cup {c}
      /\ UNCHANGED <<transport, client, wire, loop, awaited, requests, queue, running,
                     lock, latest>>
  BY DEF CloseInput
<1>2. TypeOK'
  BY <1>1 DEF Inv, TypeOK, Requests
<1>3. Wires' /\ Ending' /\ LostOnlyIfCut'
  BY <1>1 DEF Inv, Wires, Ending, LostOnlyIfCut, InFlight, OnConn, Requests
<1>4. Jobs'
  BY <1>1 DEF Inv, Jobs, Once, Queued, Placed, Requests
<1>5. Knowing' /\ InFlightBound' /\ ReadsFresh'
  BY <1>1, RequestsStay DEF Inv
<1> QED BY <1>2, <1>3, <1>4, <1>5 DEF Inv

LEMMA StutterKeeps ==
    ASSUME Inv, UNCHANGED vars
    PROVE  Inv'
<1> USE DEF vars, clients
<1>1. TypeOK'
  BY DEF Inv, TypeOK, Requests
<1>2. Wires' /\ Ending' /\ LostOnlyIfCut'
  BY DEF Inv, Wires, Ending, LostOnlyIfCut, InFlight, OnConn, Requests
<1>3. Jobs'
  BY DEF Inv, Jobs, Once, Queued, Placed, Requests
<1>4. Knowing' /\ InFlightBound' /\ ReadsFresh'
  BY RequestsStay DEF Inv
<1> QED BY <1>1, <1>2, <1>3, <1>4 DEF Inv

(* A line is sent: it is on the wire, and what its sender knows is answered. *)
LEMMA SendKeeps ==
    ASSUME Inv, NEW c \in Conns, Send(c)
    PROVE  Inv'
<1> DEFINE n == Len(requests) + 1
           after == {r \in Requests : requests[r].kind = "push" /\ requests[r].at = "answered"}
<1>1. PICK kind \in Kinds :
        requests' = Append(requests,
          [conn |-> c, kind |-> kind, at |-> "wire", read |-> 0, after |-> after])
  BY DEF Send, clients
<1> DEFINE q == [conn |-> c, kind |-> kind, at |-> "wire", read |-> 0, after |-> after]
<1>2. q \in Request /\ q.conn = c /\ q.at = "wire" /\ q.after = after
  BY RequestsTyped DEF Inv, Request
<1>3. /\ c \notin eof
      /\ UNCHANGED <<transport, client, eof, loop, awaited, queue, running, lock, latest>>
      /\ wire' = [wire EXCEPT ![c] = Append(@, n)]
  BY DEF Send, clients
<1> HIDE DEF q
<1>4. /\ requests' \in Seq(Request) /\ Requests' = Requests \cup {n} /\ n \notin Requests
      /\ n \in Nat /\ n # 0 /\ requests'[n] = q
      /\ \A r \in Requests : requests'[r] = requests[r]
  <2>1. requests \in Seq(Request) /\ requests' = Append(requests, q)
    BY <1>1 DEF Inv, TypeOK, q
  <2> QED BY <1>2, <2>1 DEF Requests
<1> HIDE DEF n
<1>5. \A d \in Conns : InFlight(d)' = InFlight(d)
  BY <1>2, <1>4 DEF InFlight, OnConn
<1>6. /\ wire' \in [Conns -> Seq(Requests')] /\ \A d \in Conns \ {c} : wire'[d] = wire[d]
      /\ wire'[c] = Append(wire[c], n)
  <2>1. Requests \subseteq Requests' /\ n \in Requests'
    BY <1>4
  <2>2. \A d \in Conns : wire[d] \in Seq(Requests')
    <3>1. \A d \in Conns : wire[d] \in Seq(Requests)
      BY DEF Inv, TypeOK
    <3> QED BY <2>1, <3>1, SeqMonotonic
  <2>3. Append(wire[c], n) \in Seq(Requests')
    BY <2>1, <2>2, AppendProperties
  <2> QED BY <1>3, <2>2, <2>3 DEF Inv, TypeOK
<1>7. TypeOK'
  <2>1. awaited' \in [Conns -> SUBSET Requests']
    BY <1>3, <1>4 DEF Inv, TypeOK
  <2>2. latest' \in {0} \cup {r \in Requests' : requests'[r].kind = "push"}
    BY <1>3, <1>4 DEF Inv, TypeOK
  <2> QED BY <1>3, <1>4, <1>6, <2>1, <2>2 DEF Inv, TypeOK
<1>8. Wires'
  <2>1. ASSUME NEW d \in Conns \ {c}
        PROVE  /\ \A i \in DOMAIN wire'[d] :
                    requests'[wire'[d][i]].conn = d /\ requests'[wire'[d][i]].at = "wire"
               /\ \A i, j \in DOMAIN wire'[d] : wire'[d][i] = wire'[d][j] => i = j
               /\ loop'[d] = "full" => wire'[d] # <<>>
    <3>1. \A i \in DOMAIN wire[d] : wire[d][i] \in Requests
      BY DEF Inv, TypeOK
    <3> QED BY <1>3, <1>4, <1>6, <3>1 DEF Inv, Wires
  <2>2. /\ wire[c] \in Seq(Requests) /\ \A i \in DOMAIN wire[c] : wire[c][i] \in Requests
    BY DEF Inv, TypeOK
  <2>3. PICK m \in Nat : /\ DOMAIN wire'[c] = DOMAIN wire[c] \cup {m} /\ wire'[c][m] = n
                         /\ m \notin DOMAIN wire[c] /\ m \in DOMAIN wire'[c]
                         /\ \A i \in DOMAIN wire[c] : wire'[c][i] = wire[c][i]
    <3>1. wire'[c] = Append(wire[c], n)
      BY <1>6
    <3>2. Len(wire[c]) + 1 \in Nat
      BY <2>2
    <3> QED BY <2>2, <3>1, <3>2
  <2>4. wire'[c] # <<>>
    BY <2>3, EmptySeq
  <2>5. /\ \A i \in DOMAIN wire'[c] :
             requests'[wire'[c][i]].conn = c /\ requests'[wire'[c][i]].at = "wire"
        /\ \A i, j \in DOMAIN wire'[c] : wire'[c][i] = wire'[c][j] => i = j
    BY <1>2, <1>4, <2>2, <2>3 DEF Inv, Wires
  <2> QED BY <2>1, <2>4, <2>5 DEF Wires
<1>9. Jobs'
  BY <1>3, <1>4 DEF Inv, Jobs, Once, Queued, Placed
<1>10. Ending'
  <2>1. loop[c] \notin {"draining", "closed", "cut"}
    BY <1>3 DEF Inv, Ending
  <2> QED BY <1>3, <1>5, <1>6, <2>1 DEF Inv, Ending
<1>11. Knowing'
  <2>1. \A r \in Requests' : \A p \in requests'[r].after :
           p \in Requests' /\ requests'[p].kind = "push" /\ requests'[p].at = "answered"
    <3>1. \A p \in requests'[n].after :
            p \in Requests /\ requests[p].kind = "push" /\ requests[p].at = "answered"
      BY <1>2, <1>4
    <3> QED BY <1>4, <3>1 DEF Inv, Knowing
  <2>2. requests'[n].at = "wire" /\ latest # n
    BY <1>2, <1>4 DEF Inv, TypeOK
  <2>3. \A r \in Requests' : requests'[r].kind = "push" /\ Past(r)' =>
           latest # 0 /\ latest \notin requests'[r].after
    BY <1>4, <2>2 DEF Inv, Knowing, Past
  <2>4. \A r \in Requests' : latest = r => Past(r)'
    BY <1>4, <2>2 DEF Inv, Knowing, Past
  <2> QED BY <1>3, <2>1, <2>3, <2>4 DEF Knowing
<1>12. InFlightBound'
  BY <1>5 DEF Inv, InFlightBound
<1>13. ReadsFresh'
  <2>1. ASSUME NEW k \in Requests', requests'[k].kind = "check",
               requests'[k].at \notin {"wire", "body"}
        PROVE  /\ requests'[k].read = 0 => requests'[k].after = {}
               /\ \A p \in requests'[k].after :
                    requests'[k].read = 0 \/ requests'[k].read \notin requests'[p].after
    <3>1. k \in Requests
      BY <1>2, <1>4, <2>1
    <3>2. \A p \in requests[k].after : p \in Requests
      BY <3>1 DEF Inv, Knowing
    <3> QED BY <1>4, <2>1, <3>1, <3>2 DEF Inv, ReadsFresh
  <2> QED BY <2>1 DEF ReadsFresh
<1>14. LostOnlyIfCut'
  BY <1>2, <1>3, <1>4 DEF Inv, LostOnlyIfCut
<1> QED BY <1>7, <1>8, <1>9, <1>10, <1>11, <1>12, <1>13, <1>14 DEF Inv

(* The loop stops reading: at capacity. *)
LEMMA FullKeeps ==
    ASSUME Inv, NEW c \in Conns, loop[c] = "reading", wire[c] # <<>>,
           loop' = [loop EXCEPT ![c] = "full"],
           UNCHANGED <<transport, wire, client, eof, awaited, requests, queue, running,
                       lock, latest>>
    PROVE  Inv'
<1>1. /\ loop' \in [Conns -> LoopStates] /\ loop'[c] = "full"
      /\ \A d \in Conns \ {c} : loop'[d] = loop[d]
  BY DEF Inv, TypeOK, LoopStates
<1>2. TypeOK'
  BY <1>1 DEF Inv, TypeOK, Requests
<1>3. Wires' /\ Ending' /\ LostOnlyIfCut'
  BY <1>1, RequestsTyped DEF Inv, Wires, Ending, LostOnlyIfCut, InFlight, OnConn, Requests
<1>4. Jobs'
  BY <1>1 DEF Inv, Jobs, Once, Queued, Placed, Requests
<1>5. Knowing' /\ InFlightBound' /\ ReadsFresh'
  BY RequestsStay DEF Inv
<1> QED BY <1>2, <1>3, <1>4, <1>5 DEF Inv

(* A line is read and its request submitted. *)
LEMMA AcceptsKeeps ==
    ASSUME Inv, NEW c \in Conns, loop[c] \in {"reading", "full"}, wire[c] # <<>>,
           HasCapacity(c), Accepts(c), running' \subseteq running,
           \A t \in running : t.what # "wake" => t \in running',
           UNCHANGED <<transport, client, eof, awaited, lock, latest>>
    PROVE  Inv'
<1> DEFINE r == Head(wire[c])
<1>1. /\ wire[c] \in Seq(Requests) /\ r = wire[c][1] /\ 1 \in DOMAIN wire[c] /\ r \in Requests
  BY DEF Inv, TypeOK
<1>2. requests[r].conn = c /\ requests[r].at = "wire"
  BY <1>1 DEF Inv, Wires
<1>3. /\ loop' \in [Conns -> LoopStates] /\ loop'[c] = "reading"
      /\ \A d \in Conns \ {c} : loop'[d] = loop[d]
  BY DEF Inv, TypeOK, LoopStates, Accepts
<1>4. /\ Tail(wire[c]) \in Seq(Requests) /\ wire' = [wire EXCEPT ![c] = Tail(wire[c])]
      /\ \A i \in DOMAIN Tail(wire[c]) : /\ i + 1 \in DOMAIN wire[c] /\ i + 1 # 1
                                         /\ Tail(wire[c])[i] = wire[c][i + 1]
                                         /\ i \in Nat
  BY <1>1 DEF Accepts
<1>5. /\ wire' \in [Conns -> Seq(Requests)] /\ wire'[c] = Tail(wire[c])
      /\ \A d \in Conns \ {c} : wire'[d] = wire[d]
  BY <1>4 DEF Inv, TypeOK
<1>6. PICK t \in Tasks, where \in {"answering", "body"} :
        /\ t.id = r /\ Moves(r, where) /\ requests'[r].read = requests[r].read
        /\ where = "answering" => t.what = "answer" /\ requests[r].kind = "hover"
        /\ where = "body" => t.what = "body"
        /\ queue' = Append(queue, t)
  <2>1. ProcessLine(r) /\ r \in Nat
    BY <1>1, RequestsTyped DEF Accepts, Inv
  <2> HIDE DEF r
  <2>2. CASE At(r, "answering") /\ requests[r].kind = "hover"
             /\ queue' = Append(queue, Task("answer", r))
    <3>1. Moves(r, "answering") /\ requests'[r].read = requests[r].read
      BY <1>1, <2>2, AtMoves DEF Inv, Places
    <3>2. /\ Task("answer", r) \in Tasks /\ Task("answer", r).what = "answer"
          /\ Task("answer", r).id = r
      BY <2>1, TaskTyped
    <3> QED BY <2>2, <3>1, <3>2
  <2>3. CASE At(r, "body") /\ queue' = Append(queue, Task("body", r))
    <3>1. Moves(r, "body") /\ requests'[r].read = requests[r].read
      BY <1>1, <2>3, AtMoves DEF Inv, Places
    <3>2. /\ Task("body", r) \in Tasks /\ Task("body", r).what = "body" /\ Task("body", r).id = r
      BY <2>1, TaskTyped
    <3> QED BY <2>3, <3>1, <3>2
  <2> QED BY <2>1, <2>2, <2>3 DEF ProcessLine
<1> HIDE DEF r
<1>7. /\ Requests' = Requests /\ requests' \in Seq(Request)
      /\ \A q \in Requests : requests'[q].conn = requests[q].conn
      /\ latest \in {0} \cup {q \in Requests' : requests'[q].kind = "push"}
      /\ requests'[r].at = where /\ \A q \in Requests \ {r} : requests'[q] = requests[q]
  BY <1>1, <1>6, MovesTypes DEF Inv, Moves
<1>8. t \notin Queued \cup running
  <2>1. ~Placed(t)
    BY <1>2, <1>6 DEF Placed
  <2> QED BY <2>1 DEF Inv, Jobs
<1>9. queue' \in Seq(Tasks) /\ Queued' = Queued \cup {t} /\ Once'
  BY <1>6, <1>8, TaskSubmitted DEF Inv, Jobs
<1>10. TypeOK'
  <2>1. \A d \in Conns : Task("loop", d) \in running' <=>
           transport = "socket" /\ loop'[d] \in {"reading", "full", "draining"}
    <3>1. \A d \in Conns : Task("loop", d).what = "loop"
      BY DEF Task
    <3>2. \A d \in Conns : Task("loop", d) \in running' <=> Task("loop", d) \in running
      BY <3>1
    <3> QED BY <1>3, <3>2 DEF Inv, TypeOK
  <2>2. /\ running' \subseteq Tasks /\ IsFiniteSet(running') /\ Cardinality(running') <= PoolSize
    <3>1. IsFiniteSet(running) /\ Cardinality(running) <= PoolSize /\ PoolSize \in Nat
      BY AdapterAssumption DEF Inv, TypeOK
    <3>2. /\ IsFiniteSet(running') /\ Cardinality(running') <= Cardinality(running)
          /\ Cardinality(running) \in Nat /\ Cardinality(running') \in Nat
      BY <3>1, FS_Subset, FS_CardinalityType
    <3> QED BY <3>1, <3>2 DEF Inv, TypeOK
  <2>3. lock' \in {0} \cup {q \in Requests' : Task("answer", q) \in running'}
    <3>1. \A q : Task("answer", q).what = "answer"
      BY DEF Task
    <3> QED BY <1>7, <3>1 DEF Inv, TypeOK
  <2> QED BY <1>3, <1>5, <1>7, <1>9, <2>1, <2>2, <2>3 DEF Inv, TypeOK
<1>11. Wires'
  <2>1. ASSUME NEW d \in Conns \ {c}
        PROVE  /\ \A i \in DOMAIN wire'[d] :
                    requests'[wire'[d][i]].conn = d /\ requests'[wire'[d][i]].at = "wire"
               /\ \A i, j \in DOMAIN wire'[d] : wire'[d][i] = wire'[d][j] => i = j
               /\ loop'[d] = "full" => wire'[d] # <<>>
    <3>1. \A i \in DOMAIN wire[d] : wire[d][i] \in Requests
      BY DEF Inv, TypeOK
    <3>2. /\ \A i \in DOMAIN wire[d] :
               requests[wire[d][i]].conn = d /\ requests[wire[d][i]].at = "wire"
          /\ \A i, j \in DOMAIN wire[d] : wire[d][i] = wire[d][j] => i = j
          /\ loop[d] = "full" => wire[d] # <<>>
      BY DEF Inv, Wires
    <3>3. \A i \in DOMAIN wire[d] : wire[d][i] # r
      BY <1>2, <3>2
    <3>4. \A i \in DOMAIN wire[d] : requests'[wire[d][i]] = requests[wire[d][i]]
      BY <1>7, <3>1, <3>3
    <3>5. wire'[d] = wire[d] /\ loop'[d] = loop[d]
      BY <1>3, <1>5
    <3> QED BY <3>2, <3>4, <3>5
  <2>2. ASSUME NEW i \in DOMAIN wire'[c]
        PROVE  /\ i + 1 \in DOMAIN wire[c] /\ wire'[c][i] = wire[c][i + 1] /\ i \in Nat
               /\ wire[c][i + 1] \in Requests /\ wire[c][i + 1] # r
    <3>1. i + 1 \in DOMAIN wire[c] /\ wire'[c][i] = wire[c][i + 1] /\ i + 1 # 1 /\ i \in Nat
      BY <1>4, <1>5
    <3> QED BY <1>1, <3>1 DEF Inv, Wires
  <2>3. \A i \in DOMAIN wire'[c] :
           requests'[wire'[c][i]].conn = c /\ requests'[wire'[c][i]].at = "wire"
    BY <1>7, <2>2 DEF Inv, Wires
  <2>4. ASSUME NEW i \in DOMAIN wire'[c], NEW j \in DOMAIN wire'[c], wire'[c][i] = wire'[c][j]
        PROVE  i = j
    <3>1. i + 1 = j + 1
      BY <2>2, <2>4 DEF Inv, Wires
    <3> QED BY <2>2, <3>1
  <2> QED BY <1>3, <2>1, <2>3, <2>4 DEF Wires
<1>12. Jobs'
  <2>1. ASSUME NEW u \in Queued' \cup running'
        PROVE  Placed(u)'
    <3>1. CASE u = t
      BY <1>1, <1>6, <1>7, <3>1 DEF Placed
    <3>2. CASE u \in Queued \cup running
      <4>1. Placed(u)
        BY <3>2 DEF Inv, Jobs
      <4>2. u.what \in {"body", "answer"} => u.id # r
        BY <1>2, <4>1 DEF Placed
      <4> QED BY <1>7, <4>1, <4>2 DEF Placed
    <3> QED BY <1>9, <3>1, <3>2
  <2>2. \A u \in Queued' : u.what = "loop" =>
           u.id \in Conns /\ loop'[u.id] = "submitted" /\ transport' = "socket"
    BY <1>3, <1>6, <1>9 DEF Inv, Jobs
  <2>3. \A u \in Queued' \cap running' : u.what = "wake"
    BY <1>8, <1>9 DEF Inv, Jobs
  <2> QED BY <1>9, <2>1, <2>2, <2>3 DEF Jobs
<1>13. Ending'
  <2>1. \A d \in Conns \ {c} : InFlight(d)' \subseteq InFlight(d)
    BY <1>1, <1>2, <1>6, MovesInFlight DEF Inv
  <2> QED BY <1>3, <1>5, <2>1 DEF Inv, Ending
<1>14. Knowing' /\ ReadsFresh'
  BY <1>1, <1>2, <1>6, MovesKnowing, MovesFresh DEF Inv, Past
<1>15. InFlightBound'
  BY <1>1, <1>2, <1>6, MovesBound DEF Inv
<1>16. LostOnlyIfCut'
  BY <1>1, <1>3, <1>6, MovesLost DEF Inv
<1> QED BY <1>10, <1>11, <1>12, <1>13, <1>14, <1>15, <1>16 DEF Inv

LEMMA ReadLineKeeps ==
    ASSUME Inv, NEW c \in Conns, ReadLine(c)
    PROVE  Inv'
<1>1. CASE HasCapacity(c) /\ Accepts(c)
  BY <1>1, AcceptsKeeps DEF ReadLine, clients
<1>2. CASE ~HasCapacity(c)
  BY <1>2, FullKeeps DEF ReadLine, clients
<1> QED BY <1>1, <1>2 DEF ReadLine

LEMMA WakeUpKeeps ==
    ASSUME Inv, NEW c \in Conns, WakeUp(c)
    PROVE  Inv'
<1>1. /\ running' = running \ {Task("wake", c)} /\ Task("wake", c).what = "wake"
      /\ UNCHANGED <<transport, client, eof, awaited, lock, latest>>
  BY DEF WakeUp, Task, clients
<1>2. CASE loop[c] = "full" /\ HasCapacity(c)
  <2>1. wire[c] # <<>> /\ Accepts(c)
    BY <1>2 DEF WakeUp, Inv, Wires
  <2> QED BY <1>1, <1>2, <2>1, AcceptsKeeps
<1>3. CASE ~(loop[c] = "full" /\ HasCapacity(c))
  <2>1. UNCHANGED <<wire, loop, requests, queue>>
    BY <1>3 DEF WakeUp
  <2>2. TypeOK'
    <3>1. \A d \in Conns : Task("loop", d) \in running' <=> Task("loop", d) \in running
      BY <1>1 DEF Task
    <3>2. /\ IsFiniteSet(running') /\ Cardinality(running') <= PoolSize
      <4>1. IsFiniteSet(running) /\ Cardinality(running) <= PoolSize /\ PoolSize \in Nat
        BY AdapterAssumption DEF Inv, TypeOK
      <4>2. /\ IsFiniteSet(running') /\ Cardinality(running') <= Cardinality(running)
            /\ Cardinality(running) \in Nat /\ Cardinality(running') \in Nat
        BY <1>1, <4>1, FS_Subset, FS_CardinalityType
      <4> QED BY <4>1, <4>2
    <3>3. lock' \in {0} \cup {q \in Requests' : Task("answer", q) \in running'}
      <4>1. \A q : Task("answer", q) # Task("wake", c)
        BY DEF Task
      <4> QED BY <1>1, <2>1, <4>1 DEF Inv, TypeOK, Requests
    <3> QED BY <1>1, <2>1, <3>1, <3>2, <3>3 DEF Inv, TypeOK, Requests
  <2>3. Wires' /\ Ending' /\ LostOnlyIfCut'
    BY <1>1, <2>1 DEF Inv, Wires, Ending, LostOnlyIfCut, InFlight, OnConn, Requests
  <2>4. Jobs'
    BY <1>1, <2>1 DEF Inv, Jobs, Once, Queued, Placed, Requests
  <2>5. Knowing' /\ InFlightBound' /\ ReadsFresh'
    BY <1>1, <2>1, RequestsStay DEF Inv
  <2> QED BY <2>2, <2>3, <2>4, <2>5 DEF Inv
<1> QED BY <1>2, <1>3

(* A loop comes to its end, or to the wait for what is in flight. *)
LEMMA EndKeeps ==
    ASSUME Inv, NEW c \in Conns, ReadEof(c) \/ ReadFails(c) \/ Drain(c)
    PROVE  Inv'
<1>1. /\ UNCHANGED <<transport, wire, client, eof, requests, queue, lock, latest>>
      /\ loop[c] \in {"reading", "draining"}
  BY DEF ReadEof, ReadFails, Drain, clients
<1>2. /\ c \in eof
      /\ loop'[c] = "cut" \/ wire[c] = <<>>
  BY DEF ReadEof, ReadFails, Drain, Inv, Ending, TypeOK
<1>3. /\ awaited' \in [Conns -> SUBSET Requests]
      /\ \A d \in Conns \ {c} : awaited'[d] = awaited[d]
  <2>1. InFlight(c) \subseteq Requests
    BY DEF InFlight, OnConn
  <2> QED BY <2>1 DEF ReadEof, ReadFails, Drain, Inv, TypeOK
<1>4. /\ loop' \in [Conns -> LoopStates] /\ loop'[c] \in {"draining", "closed", "cut"}
      /\ \A d \in Conns \ {c} : loop'[d] = loop[d]
  BY DEF ReadEof, ReadFails, Drain, Inv, TypeOK, LoopStates
<1>5. /\ loop'[c] = "draining" => InFlight(c) \subseteq awaited'[c] /\ running' = running
      /\ loop'[c] # "draining" => running' = running \ {Task("loop", c)}
      /\ loop'[c] = "closed" => InFlight(c) = {}
      /\ loop[c] # "cut"
  <2>1. CASE ReadEof(c)
    BY <2>1 DEF ReadEof, Release, Inv, TypeOK
  <2>2. CASE Drain(c)
    <3>1. loop[c] = "draining" /\ InFlight(c) \subseteq awaited[c]
      BY <2>2 DEF Drain, Inv, Ending
    <3>2. CASE /\ \A r \in awaited[c] : requests[r].at \in Completed \ {"failed"}
               /\ loop' = [loop EXCEPT ![c] = "closed"]
      <4>1. InFlight(c) = {}
        BY <3>1, <3>2 DEF InFlight
      <4> QED BY <2>2, <3>1, <3>2, <4>1 DEF Drain, Release, Inv, TypeOK
    <3>3. CASE loop' = [loop EXCEPT ![c] = "cut"]
      BY <2>2, <3>1, <3>3 DEF Drain, Release, Inv, TypeOK
    <3> QED BY <2>2, <3>2, <3>3 DEF Drain
  <2>3. CASE ReadFails(c)
    BY <2>3 DEF ReadFails, Release, Inv, TypeOK
  <2> QED BY <2>1, <2>2, <2>3
<1>6. TypeOK'
  <2>1. /\ running' \subseteq running /\ running \subseteq Tasks
        /\ IsFiniteSet(running') /\ Cardinality(running') <= PoolSize
    <3>1. /\ IsFiniteSet(running) /\ Cardinality(running) <= PoolSize /\ PoolSize \in Nat
          /\ running \subseteq Tasks /\ running' \subseteq running
      BY <1>5, AdapterAssumption DEF Inv, TypeOK
    <3>2. /\ IsFiniteSet(running') /\ Cardinality(running') <= Cardinality(running)
          /\ Cardinality(running) \in Nat /\ Cardinality(running') \in Nat
      BY <3>1, FS_Subset, FS_CardinalityType
    <3> QED BY <3>1, <3>2
  <2>2. ASSUME NEW d \in Conns
        PROVE  Task("loop", d) \in running' <=>
                 transport = "socket" /\ loop'[d] \in {"reading", "full", "draining"}
    <3>1. Task("loop", d) \in running <=>
            transport = "socket" /\ loop[d] \in {"reading", "full", "draining"}
      BY DEF Inv, TypeOK
    <3>2. CASE d = c
      BY <1>1, <1>4, <1>5, <3>1, <3>2
    <3>3. CASE d # c
      <4>1. Task("loop", d) # Task("loop", c)
        BY <3>3 DEF Task
      <4> QED BY <1>4, <1>5, <3>1, <3>3, <4>1
    <3> QED BY <3>2, <3>3
  <2>3. lock' \in {0} \cup {q \in Requests' : Task("answer", q) \in running'}
    <3>1. \A q : Task("answer", q) # Task("loop", c)
      BY DEF Task
    <3> QED BY <1>1, <1>5, <3>1 DEF Inv, TypeOK, Requests
  <2> QED BY <1>1, <1>3, <1>4, <2>1, <2>2, <2>3 DEF Inv, TypeOK, Requests
<1>7. Wires'
  BY <1>1, <1>4 DEF Inv, Wires
<1>8. Jobs'
  <2>1. running' \subseteq running
    BY <1>5
  <2> QED BY <1>1, <1>4, <2>1 DEF Inv, Jobs, Once, Queued, Placed, Requests
<1>9. Ending'
  <2>1. \A d : InFlight(d)' = InFlight(d)
    BY <1>1 DEF InFlight, OnConn, Requests
  <2> QED BY <1>1, <1>2, <1>3, <1>4, <1>5, <2>1 DEF Inv, Ending
<1>10. Knowing' /\ InFlightBound' /\ ReadsFresh'
  BY <1>1, RequestsStay DEF Inv
<1>11. LostOnlyIfCut'
  <2>1. \A d \in Conns : loop[d] = "cut" => loop'[d] = "cut"
    BY <1>4, <1>5
  <2> QED BY <1>1, <2>1, RequestsTyped DEF Inv, LostOnlyIfCut, Requests
<1> QED BY <1>6, <1>7, <1>8, <1>9, <1>10, <1>11 DEF Inv

(* A thread takes the oldest task. *)
LEMMA TakeTaskKeeps ==
    ASSUME Inv, TakeTask
    PROVE  Inv'
<1> DEFINE t == Head(queue)
<1>1. /\ queue # <<>> /\ Cardinality(running) < PoolSize
      /\ running' = running \cup {t} /\ queue' = Tail(queue)
      /\ UNCHANGED <<transport, wire, client, eof, awaited, requests, lock, latest>>
  BY DEF TakeTask, clients
<1>2. /\ queue' \in Seq(Tasks) /\ t \in Tasks /\ t \in Queued /\ Queued' \subseteq Queued
      /\ Once' /\ (t \in Queued' => t.what = "wake")
  BY <1>1, TaskTaken DEF Inv, Jobs
<1>3. t.what = "loop" => t.id \in Conns /\ loop[t.id] = "submitted" /\ transport = "socket"
                         /\ t = Task("loop", t.id)
  <2>1. t = [what |-> t.what, id |-> t.id]
    BY <1>2 DEF Tasks
  <2> HIDE DEF t
  <2> QED BY <1>2, <2>1 DEF Inv, Jobs, Task
<1>4. loop' = IF t.what = "loop" THEN [loop EXCEPT ![t.id] = "reading"] ELSE loop
  BY DEF TakeTask, clients
<1> HIDE DEF t
<1>5. /\ loop' \in [Conns -> LoopStates]
      /\ t.what = "loop" => loop'[t.id] = "reading"
      /\ \A d \in Conns : d # t.id \/ t.what # "loop" => loop'[d] = loop[d]
  BY <1>3, <1>4 DEF Inv, TypeOK, LoopStates
<1>6. \A d \in Conns : /\ loop'[d] = loop[d] \/ (loop[d] = "submitted" /\ loop'[d] = "reading")
  BY <1>3, <1>5
<1>7. TypeOK'
  <2>1. /\ IsFiniteSet(running') /\ Cardinality(running') <= PoolSize
    <3>1. IsFiniteSet(running) /\ PoolSize \in Nat
      BY AdapterAssumption DEF Inv, TypeOK
    <3>2. IsFiniteSet(running')
      BY <1>1, <3>1, FS_AddElement
    <3>3. Cardinality(running')
            = IF t \in running THEN Cardinality(running) ELSE Cardinality(running) + 1
      BY <1>1, <3>1, FS_AddElement
    <3>4. Cardinality(running) \in Nat /\ Cardinality(running') \in Nat
      BY <3>1, <3>2, FS_CardinalityType
    <3> QED BY <1>1, <3>1, <3>2, <3>3, <3>4
  <2>2. ASSUME NEW d \in Conns
        PROVE  Task("loop", d) \in running' <=>
                 transport = "socket" /\ loop'[d] \in {"reading", "full", "draining"}
    <3>1. Task("loop", d) \in running <=>
            transport = "socket" /\ loop[d] \in {"reading", "full", "draining"}
      BY DEF Inv, TypeOK
    <3>2. Task("loop", d).what = "loop" /\ Task("loop", d).id = d
      BY DEF Task
    <3>3. CASE t.what = "loop" /\ d = t.id
      BY <1>1, <1>3, <1>5, <3>3
    <3>4. CASE ~(t.what = "loop" /\ d = t.id)
      BY <1>1, <1>5, <3>1, <3>2, <3>4
    <3> QED BY <3>3, <3>4
  <2> QED BY <1>1, <1>2, <1>5, <2>1, <2>2 DEF Inv, TypeOK, Requests
<1>8. Wires' /\ LostOnlyIfCut'
  BY <1>1, <1>6, RequestsTyped DEF Inv, Wires, LostOnlyIfCut, Requests
<1>9. Jobs'
  <2>1. \A u \in Queued' : u.what = "loop" =>
          u.id \in Conns /\ loop'[u.id] = "submitted" /\ transport' = "socket"
    <3>1. ASSUME NEW u \in Queued', u.what = "loop", t.what = "loop"
          PROVE  u.id # t.id
      <4>1. u \in Tasks /\ t \in Tasks
        BY <1>2 DEF Inv, TypeOK, Queued
      <4>2. u = [what |-> u.what, id |-> u.id] /\ t = [what |-> t.what, id |-> t.id]
        BY <4>1 DEF Tasks
      <4>3. u # t
        BY <1>2, <3>1
      <4> QED BY <3>1, <4>2, <4>3
    <3> QED BY <1>1, <1>2, <1>5, <3>1 DEF Inv, Jobs
  <2>2. \A u \in Queued' \cup running' : Placed(u)'
    BY <1>1, <1>2 DEF Inv, Jobs, Placed, Requests
  <2>3. \A u \in Queued' \cap running' : u.what = "wake"
    BY <1>1, <1>2 DEF Inv, Jobs
  <2> QED BY <1>2, <2>1, <2>2, <2>3 DEF Jobs
<1>10. Ending'
  <2>1. \A d : InFlight(d)' = InFlight(d)
    BY <1>1 DEF InFlight, OnConn, Requests
  <2> QED BY <1>1, <1>6, <2>1 DEF Inv, Ending
<1>11. Knowing' /\ InFlightBound' /\ ReadsFresh'
  BY <1>1, RequestsStay DEF Inv
<1> QED BY <1>7, <1>8, <1>9, <1>10, <1>11 DEF Inv

LEMMA TaskIs ==
    ASSUME TypeOK, NEW t \in Queued \cup running, NEW r, t.id = r
    PROVE  t = Task(t.what, r)
<1>1. t \in Tasks
  BY DEF TypeOK, Queued
<1>2. t = [what |-> t.what, id |-> t.id]
  BY <1>1 DEF Tasks
<1> QED BY <1>2 DEF Task

(* A body begins: a push replaces the table's text, a check reads it. *)
LEMMA BodyStartsKeeps ==
    ASSUME Inv, NEW r \in Requests, BodyStarts(r)
    PROVE  Inv'
<1>1. /\ requests[r].at = "body"
      /\ UNCHANGED <<transport, wire, client, eof, loop, awaited, queue, running, lock>>
      /\ \/ requests[r].kind = "push" /\ At(r, "checking") /\ latest' = r
         \/ requests[r].kind = "check" /\ CheckDocument(r)
  BY DEF BodyStarts, UpdateDocument, CheckDocument, clients
<1>2. Moves(r, "checking")
  BY <1>1, AtMoves, CheckMoves DEF Inv, Places
<1>3. /\ Requests' = Requests /\ requests' \in Seq(Request)
      /\ \A q \in Requests : /\ requests'[q].kind = requests[q].kind
                             /\ requests'[q].conn = requests[q].conn
                             /\ requests'[q].after = requests[q].after
      /\ latest \in {0} \cup {q \in Requests' : requests'[q].kind = "push"}
      /\ requests'[r].at = "checking" /\ \A q \in Requests \ {r} : requests'[q] = requests[q]
  BY <1>2, MovesTypes DEF Inv, Moves
<1>4. \/ requests[r].kind = "push" /\ latest' = r /\ requests'[r].read = requests[r].read
      \/ requests[r].kind = "check" /\ latest' = latest /\ requests'[r].read = latest
  BY <1>1, AtMoves, CheckMoves DEF Inv, Places, CheckDocument
<1>5. TypeOK'
  <2>1. latest' \in {0} \cup {q \in Requests' : requests'[q].kind = "push"}
    BY <1>3, <1>4
  <2> QED BY <1>1, <1>3, <2>1 DEF Inv, TypeOK
<1>6. Wires' /\ Ending'
  BY <1>1, <1>2, MovesOn DEF Inv, Completed, Places
<1>7. Jobs'
  <2>1. ASSUME NEW t \in Queued \cup running
        PROVE  Placed(t)'
    <3>1. Placed(t)
      BY DEF Inv, Jobs
    <3> QED BY <1>1, <1>3, <3>1 DEF Placed
  <2> QED BY <1>1, <2>1 DEF Inv, Jobs, Once, Queued
<1>8. Knowing'
  <2>1. CASE requests[r].kind = "check" /\ latest' = latest
    BY <1>1, <1>2, <2>1, MovesKnowing DEF Inv, Past
  <2>2. CASE requests[r].kind = "push" /\ latest' = r
    <3>1. \A q \in Requests : r \notin requests[q].after
      BY <1>1 DEF Inv, Knowing
    <3>2. r # 0
      BY RequestsTyped DEF Inv
    <3>3. \A q \in Requests : requests[q].at = "answered" => requests'[q].at = "answered"
      BY <1>1, <1>3
    <3>4. \A q \in Requests' : \A p \in requests'[q].after :
            p \in Requests' /\ requests'[p].kind = "push" /\ requests'[p].at = "answered"
      BY <1>3, <3>3 DEF Inv, Knowing
    <3>5. \A q \in Requests' : latest' # 0 /\ latest' \notin requests'[q].after
      BY <1>3, <2>2, <3>1, <3>2
    <3>6. \A q \in Requests' : latest' = q => Past(q)'
      BY <1>3, <2>2 DEF Past
    <3> QED BY <3>4, <3>5, <3>6 DEF Knowing
  <2> QED BY <1>4, <2>1, <2>2
<1>9. ReadsFresh'
  <2>1. CASE requests[r].kind = "push" /\ requests'[r].read = requests[r].read
    BY <1>2, <2>1, MovesFresh DEF Inv
  <2>2. CASE requests[r].kind = "check" /\ requests'[r].read = latest
    <3>1. ASSUME NEW k \in Requests, requests[k].kind = "check",
                 requests'[k].at \notin {"wire", "body"}
          PROVE  /\ requests'[k].read = 0 => requests[k].after = {}
                 /\ \A q \in requests[k].after :
                      requests'[k].read = 0 \/ requests'[k].read \notin requests[q].after
      <4>1. CASE k = r
        <5>1. \A q \in requests[r].after :
                q \in Requests /\ requests[q].kind = "push" /\ Past(q)
          BY DEF Inv, Knowing, Past
        <5>2. \A q \in requests[r].after : latest # 0 /\ latest \notin requests[q].after
          BY <5>1 DEF Inv, Knowing
        <5> QED BY <2>2, <4>1, <5>2
      <4>2. CASE k # r
        BY <1>3, <3>1, <4>2 DEF Inv, ReadsFresh
      <4> QED BY <4>1, <4>2
    <3>2. \A k \in Requests : \A q \in requests[k].after : q \in Requests
      BY DEF Inv, Knowing
    <3>3. ASSUME NEW k \in Requests', requests'[k].kind = "check",
                 requests'[k].at \notin {"wire", "body"}
          PROVE  /\ requests'[k].read = 0 => requests'[k].after = {}
                 /\ \A q \in requests'[k].after :
                      requests'[k].read = 0 \/ requests'[k].read \notin requests'[q].after
      <4>1. k \in Requests /\ requests[k].kind = "check" /\ requests'[k].after = requests[k].after
        BY <1>3, <3>3
      <4>2. \A q \in requests[k].after : requests'[q].after = requests[q].after
        BY <1>3, <3>2, <4>1
      <4> QED BY <3>1, <3>3, <4>1, <4>2
    <3> QED BY <3>3 DEF ReadsFresh
  <2> QED BY <1>4, <2>1, <2>2
<1>10. InFlightBound'
  BY <1>1, <1>2, MovesBound DEF Inv, Completed
<1>11. LostOnlyIfCut'
  BY <1>1, <1>2, MovesLost DEF Inv
<1> QED BY <1>5, <1>6, <1>7, <1>8, <1>9, <1>10, <1>11 DEF Inv

(* A task that has run its course: its thread is free. *)
LEMMA TaskEnds ==
    ASSUME TypeOK, NEW what \in {"body", "answer", "wake"}, NEW r,
           running' = running \ {Task(what, r)}
    PROVE  /\ running' \subseteq running /\ running' \subseteq Tasks /\ IsFiniteSet(running')
           /\ Cardinality(running') <= PoolSize
           /\ \A d \in Conns : Task("loop", d) \in running' <=> Task("loop", d) \in running
<1>1. IsFiniteSet(running) /\ Cardinality(running) <= PoolSize /\ PoolSize \in Nat
  BY AdapterAssumption DEF TypeOK
<1>2. /\ IsFiniteSet(running') /\ Cardinality(running') <= Cardinality(running)
      /\ Cardinality(running) \in Nat /\ Cardinality(running') \in Nat
  BY <1>1, FS_Subset, FS_CardinalityType
<1>3. \A d \in Conns : Task("loop", d) \in running' <=> Task("loop", d) \in running
  BY DEF Task
<1> QED BY <1>1, <1>2, <1>3 DEF TypeOK

(* A request's task ends, and the request moves on; another of its tasks may *)
(* be submitted, if it fits where the request now is.                        *)
LEMMA TaskEndKeeps ==
    ASSUME Inv, NEW r \in Requests, NEW what \in {"body", "answer"}, NEW where \in Places,
           Task(what, r) \in running, running' = running \ {Task(what, r)},
           requests[r].at \in {"checking", "answering"},
           At(r, where), where \notin {"wire", "body"},
           UNCHANGED <<transport, wire, client, eof, loop, awaited, latest>>,
           lock' = 0 \/ (what = "body" /\ lock' = lock),
           queue' \in Seq(Tasks), Once',
           \A t \in Queued' :
              \/ t \in Queued
              \/ t.what = "wake"
              \/ t = Task("answer", r) /\ what = "body" /\ where = "answering",
           what = "answer" => requests[r].at = "answering",
           where = "lost" => \/ client[requests[r].conn] = "gone"
                             \/ transport = "socket" /\ loop[requests[r].conn] = "cut"
    PROVE  Inv'
<1>1. Moves(r, where) /\ requests'[r].read = requests[r].read
  BY AtMoves DEF Inv
<1>2. /\ Requests' = Requests /\ requests' \in Seq(Request)
      /\ latest \in {0} \cup {q \in Requests' : requests'[q].kind = "push"}
      /\ requests'[r].at = where /\ \A q \in Requests \ {r} : requests'[q] = requests[q]
  BY <1>1, MovesTypes DEF Inv, Moves
<1>3. TypeOK'
  <2>1. /\ running' \subseteq Tasks /\ IsFiniteSet(running') /\ Cardinality(running') <= PoolSize
        /\ \A d \in Conns : Task("loop", d) \in running' <=> Task("loop", d) \in running
    BY TaskEnds DEF Inv
  <2>2. lock' \in {0} \cup {q \in Requests' : Task("answer", q) \in running'}
    <3>1. CASE lock' = 0
      BY <3>1
    <3>2. CASE what = "body" /\ lock' = lock
      <4>1. \A q : Task("answer", q) # Task("body", r)
        BY DEF Task
      <4> QED BY <1>2, <3>2, <4>1 DEF Inv, TypeOK
    <3> QED BY <3>1, <3>2
  <2> QED BY <1>2, <2>1, <2>2 DEF Inv, TypeOK
<1>4. Wires' /\ Ending'
  BY <1>1, MovesOn DEF Inv, Completed
<1>5. Jobs'
  <2>1. Task(what, r).what = what /\ Task(what, r).id = r /\ r \in Nat
    BY RequestsTyped DEF Task, Inv
  <2>2. Task(what, r) \notin Queued
    BY <2>1 DEF Inv, Jobs
  <2>3. ASSUME NEW t \in Queued \cup running', t.what \in {"body", "answer"}
        PROVE  t.id # r
    <3>1. SUFFICES ASSUME t.id = r
                   PROVE  FALSE
      OBVIOUS
    <3>2. t \in Queued \cup running
      BY <2>3
    <3>3. t = Task(t.what, r) /\ Placed(t) /\ Placed(Task(what, r))
      BY <3>1, <3>2, TaskIs DEF Inv, Jobs
    <3>4. t.what # what
      BY <2>2, <2>3, <3>3
    <3> QED BY <2>1, <2>3, <3>1, <3>3, <3>4 DEF Placed
  <2>4. Task("answer", r).what = "answer" /\ Task("answer", r).id = r
    BY DEF Task
  <2>5. ASSUME NEW t \in Queued' \cup running'
        PROVE  Placed(t)'
    <3>1. CASE t \in Queued \cup running'
      <4>1. Placed(t)
        BY <3>1 DEF Inv, Jobs
      <4> QED BY <1>2, <2>3, <3>1, <4>1 DEF Placed
    <3>2. CASE t.what = "wake"
      BY <3>2 DEF Placed
    <3>3. CASE t = Task("answer", r) /\ where = "answering"
      BY <1>2, <2>4, <3>3 DEF Placed
    <3> QED BY <2>5, <3>1, <3>2, <3>3
  <2>6. \A t \in Queued' : t.what = "loop" =>
           t.id \in Conns /\ loop'[t.id] = "submitted" /\ transport' = "socket"
    BY <2>4 DEF Inv, Jobs
  <2>7. ASSUME NEW t \in Queued' \cap running'
        PROVE  t.what = "wake"
    <3>1. t \in running /\ t \in running'
      BY <2>7
    <3>2. CASE t \in Queued
      BY <3>1, <3>2 DEF Inv, Jobs
    <3>3. CASE t = Task("answer", r)
      BY <2>3, <2>4, <3>1, <3>3
    <3> QED BY <2>7, <3>2, <3>3
  <2> QED BY <2>5, <2>6, <2>7 DEF Jobs
<1>6. Knowing' /\ ReadsFresh'
  <2>1. Past(r) /\ requests[r].at # "answered"
    BY DEF Past
  <2> QED BY <1>1, <2>1, MovesKnowing, MovesFresh DEF Inv
<1>7. InFlightBound'
  BY <1>1, MovesBound DEF Inv, Completed
<1>8. LostOnlyIfCut'
  BY <1>1, MovesLost DEF Inv
<1> QED BY <1>3, <1>4, <1>5, <1>6, <1>7, <1>8 DEF Inv

LEMMA BodyEndsKeeps ==
    ASSUME Inv, NEW r \in Requests, BodyEnds(r)
    PROVE  Inv'
<1>1. /\ Task("body", r) \in running /\ requests[r].at = "checking"
      /\ running' = running \ {Task("body", r)}
      /\ UNCHANGED <<transport, wire, client, eof, loop, awaited, lock, latest>>
  BY DEF BodyEnds, clients
<1>2. r \in Nat /\ requests[r].conn \in Conns
  BY RequestsTyped DEF Inv
<1>3. CASE At(r, "answering") /\ queue' = Append(queue, Task("answer", r))
  <2>1. /\ Task("answer", r) \in Tasks /\ Task("answer", r).what = "answer"
        /\ Task("answer", r).id = r
    BY <1>2, TaskTyped
  <2>2. Task("answer", r) \notin Queued
    BY <1>1, <2>1 DEF Inv, Jobs, Placed
  <2>3. queue' \in Seq(Tasks) /\ Queued' = Queued \cup {Task("answer", r)} /\ Once'
    BY <1>3, <2>1, <2>2, TaskSubmitted DEF Inv, Jobs
  <2>4. "answering" \in Places /\ "body" \in {"body", "answer"}
    BY DEF Places
  <2> QED BY <1>1, <1>3, <2>3, <2>4, TaskEndKeeps
<1>4. CASE At(r, "failed") /\ queue' = queue \o Wake(requests[r].conn)
  <2>1. /\ queue' \in Seq(Tasks) /\ Once'
        /\ Queued' \subseteq Queued \cup {Task("wake", requests[r].conn)}
    BY <1>2, <1>4, Wakes DEF Inv, Jobs
  <2>2. Task("wake", requests[r].conn).what = "wake"
    BY DEF Task
  <2>3. "failed" \in Places /\ "body" \in {"body", "answer"}
    BY DEF Places, Completed
  <2>4. \A t \in Queued' : t \in Queued \/ t.what = "wake"
    BY <2>1, <2>2
  <2> QED BY <1>1, <1>4, <2>1, <2>3, <2>4, TaskEndKeeps
<1> QED BY <1>3, <1>4 DEF BodyEnds

(* Nothing is in flight on a connection that was closed in order, so an      *)
(* answer to a client that is there is lost only where the end was cut short. *)
LEMMA WriteEnvelopeKeeps ==
    ASSUME Inv, NEW r \in Requests, WriteEnvelope(r)
    PROVE  Inv'
<1> DEFINE c == requests[r].conn
           where == IF client[c] = "gone" \/ SocketClosed(c) THEN "lost" ELSE "answered"
<1>1. /\ Task("answer", r) \in running /\ running' = running \ {Task("answer", r)}
      /\ At(r, where) /\ queue' = queue \o Wake(c)
      /\ UNCHANGED <<transport, wire, client, eof, loop, awaited, latest>> /\ lock' = 0
  BY DEF WriteEnvelope, clients
<1>2. r \in Nat /\ c \in Conns
  BY RequestsTyped DEF Inv
<1>3. requests[r].at = "answering"
  <2>1. Task("answer", r).what = "answer" /\ Task("answer", r).id = r
    BY DEF Task
  <2> QED BY <1>1, <2>1 DEF Inv, Jobs, Placed
<1>4. loop[c] # "closed"
  <2>1. r \in InFlight(c)
    BY <1>3 DEF InFlight, OnConn, Completed
  <2> QED BY <1>2, <2>1 DEF Inv, Ending
<1>5. /\ where \in Places /\ where \notin {"wire", "body", "answering"}
      /\ where = "lost" => \/ client[requests[r].conn] = "gone"
                           \/ transport = "socket" /\ loop[requests[r].conn] = "cut"
  BY <1>4 DEF Places, Completed, SocketClosed
<1> HIDE DEF where
<1>6. /\ queue' \in Seq(Tasks) /\ Once'
      /\ Queued' \subseteq Queued \cup {Task("wake", c)}
  BY <1>1, <1>2, Wakes DEF Inv, Jobs
<1>7. \A t \in Queued' : t \in Queued \/ t.what = "wake"
  <2>1. Task("wake", c).what = "wake"
    BY DEF Task
  <2> QED BY <1>6, <2>1
<1> QED BY <1>1, <1>3, <1>5, <1>6, <1>7, TaskEndKeeps

(* The lock passes to an answer that has a thread. *)
LEMMA TakeLockKeeps ==
    ASSUME Inv, NEW r \in Requests, TakeLock(r)
    PROVE  Inv'
<1>1. /\ Task("answer", r) \in running /\ lock' = r
      /\ UNCHANGED <<transport, wire, client, eof, loop, awaited, requests, queue, running, latest>>
  BY DEF TakeLock, clients
<1>2. TypeOK'
  BY <1>1 DEF Inv, TypeOK, Requests
<1>3. Wires' /\ Ending' /\ LostOnlyIfCut'
  BY <1>1 DEF Inv, Wires, Ending, LostOnlyIfCut, InFlight, OnConn, Requests
<1>4. Jobs'
  BY <1>1 DEF Inv, Jobs, Once, Queued, Placed, Requests
<1>5. Knowing' /\ InFlightBound' /\ ReadsFresh'
  BY <1>1, RequestsStay DEF Inv
<1> QED BY <1>2, <1>3, <1>4, <1>5 DEF Inv

(* A client stops reading, or is gone: it never comes back. *)
LEMMA FaultKeeps ==
    ASSUME Inv, NEW c \in Conns, Stalls(c) \/ Leaves(c)
    PROVE  Inv'
<1>1. /\ UNCHANGED <<transport, wire, loop, awaited, requests, queue, running, lock, latest>>
      /\ eof \subseteq eof' /\ eof' \subseteq Conns
      /\ client' \in [Conns -> {"reads", "stalls", "gone"}]
      /\ \A d \in Conns : client[d] = "gone" => client'[d] = "gone"
      /\ \A d \in Conns : client'[d] = "gone" => client[d] = "gone" \/ d \in eof'
  BY DEF Stalls, Leaves, Fault, Inv, TypeOK
<1>2. TypeOK'
  BY <1>1 DEF Inv, TypeOK, Requests
<1>3. Wires' /\ Ending'
  BY <1>1 DEF Inv, Wires, Ending, InFlight, OnConn, Requests
<1>4. LostOnlyIfCut'
  BY <1>1, RequestsTyped DEF Inv, LostOnlyIfCut, Requests
<1>5. Jobs'
  BY <1>1 DEF Inv, Jobs, Once, Queued, Placed, Requests
<1>6. Knowing' /\ InFlightBound' /\ ReadsFresh'
  BY <1>1, RequestsStay DEF Inv
<1> QED BY <1>2, <1>3, <1>4, <1>5, <1>6 DEF Inv

-----------------------------------------------------------------------------
LEMMA InvInit ==
    ASSUME Init
    PROVE  Inv
<1>1. /\ requests = <<>> /\ queue = <<>> /\ running = {} /\ latest = 0 /\ eof = {}
      /\ lock = 0 /\ client = [c \in Conns |-> "reads"]
      /\ wire = [c \in Conns |-> <<>>] /\ awaited = [c \in Conns |-> {}]
      /\ transport \in {"stdio", "socket"}
  BY DEF Init
<1>2. Requests = {} /\ Queued = {} /\ DOMAIN queue = {}
  BY <1>1, EmptySeq DEF Requests, Queued
<1>3. /\ loop \in [Conns -> LoopStates]
      /\ \A c \in Conns : loop[c] \in {"none", "reading"} /\
                          (loop[c] = "reading" => transport = "stdio")
  BY DEF Init, LoopStates
<1>4. \A c \in Conns : wire[c] = <<>> /\ DOMAIN wire[c] = {} /\ wire[c] \in Seq(Requests)
  BY <1>1, EmptySeq
<1>5. \A c \in Conns : InFlight(c) = {}
  BY <1>2 DEF InFlight, OnConn
<1>6. Cardinality({}) = 0 /\ IsFiniteSet({})
  BY FS_EmptySet
<1>7. TypeOK
  <2>1. wire \in [Conns -> Seq(Requests)] /\ awaited \in [Conns -> SUBSET Requests]
    BY <1>1, <1>4
  <2>2. requests \in Seq(Request) /\ queue \in Seq(Tasks)
    BY <1>1, EmptySeq
  <2> QED BY <1>1, <1>3, <1>6, <2>1, <2>2, AdapterAssumption DEF TypeOK
<1>8. Wires /\ Jobs /\ Ending /\ Knowing
  BY <1>1, <1>2, <1>3, <1>4 DEF Wires, Jobs, Once, Ending, Knowing
<1>9. InFlightBound /\ ReadsFresh /\ LostOnlyIfCut
  <2>1. \A c \in Conns : Cardinality(InFlight(c)) = 0
    BY <1>5, <1>6
  <2> QED BY <1>2, <2>1, AdapterAssumption DEF InFlightBound, ReadsFresh, LostOnlyIfCut
<1> QED BY <1>7, <1>8, <1>9 DEF Inv

LEMMA InvStep ==
    ASSUME Inv, [Next]_vars
    PROVE  Inv'
<1>1. ASSUME NEW c \in Conns, \/ Connect(c) \/ Send(c) \/ CloseInput(c)
                              \/ Stalls(c) \/ Leaves(c) \/ LoopStep(c)
      PROVE  Inv'
  BY <1>1, ConnectKeeps, SendKeeps, CloseInputKeeps, FaultKeeps, ReadLineKeeps, EndKeeps
     DEF LoopStep
<1>2. CASE TakeTask
  BY <1>2, TakeTaskKeeps
<1>3. CASE TaskStep \/ \E r \in Requests : BodyEnds(r)
  BY <1>3, BodyStartsKeeps, BodyEndsKeeps, TakeLockKeeps, WriteEnvelopeKeeps, WakeUpKeeps
     DEF TaskStep
<1>4. CASE Idle \/ UNCHANGED vars
  BY <1>4, StutterKeeps DEF Idle
<1> QED BY <1>1, <1>2, <1>3, <1>4 DEF Next

LEMMA Invariant == Spec => []Inv
<1> QED BY InvInit, InvStep, PTL DEF Spec

-----------------------------------------------------------------------------
(* The variables have their types; the pool never runs more tasks than it    *)
(* has threads, and in socket mode a read loop keeps the one it was given to *)
(* its end (AdapterMain.scala 298-301, 359-422).                             *)
THEOREM TypeCorrect == Spec => []TypeOK
BY Invariant, PTL DEF Inv

(* A connection never has more than MaxInFlight requests under way           *)
(* (AdapterMain.scala 384-408), whatever the limit and the pool's size.      *)
THEOREM InFlightBoundCorrect == Spec => []InFlightBound
BY Invariant, PTL DEF Inv

(* A check never reads a text that had been replaced, as far as its sender   *)
(* could know, when it was sent (AdapterMain.scala 136-162, 262-289).        *)
THEOREM ReadsFreshCorrect == Spec => []ReadsFresh
BY Invariant, PTL DEF Inv

(* An answer to a client that has not gone is lost only on a connection      *)
(* whose shutdown was cut short (AdapterMain.scala 374-378, 410-422), which  *)
(* never happens on stdio.                                                   *)
THEOREM LostOnlyIfCutCorrect == Spec => []LostOnlyIfCut
BY Invariant, PTL DEF Inv
==============================================================================
