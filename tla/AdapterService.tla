---------------------------- MODULE AdapterService ----------------------------
(***************************************************************************)
(* The Scala adapter (scala-adapter/src/main/scala/AdapterMain.scala): one *)
(* read loop per connection, one document table for all of them, and a     *)
(* fixed pool of threads with one FIFO queue.  The pool runs everything:   *)
(* in socket mode the read loops themselves, which keep their thread until *)
(* the connection ends, the body of a push or a check, the continuation    *)
(* that writes an answer, and the callback that wakes a loop waiting for   *)
(* capacity.  In stdio mode there is one loop, on the main thread.         *)
(*                                                                         *)
(* Requests are numbered in the order in which their lines are sent; a     *)
(* push is known by its number, which stands for its text, and 0 for the   *)
(* text of the file or none.  There is one document.  The two              *)
(* continuations of a body, which build and write the answer, are one.  A  *)
(* line that cannot be decoded is reported and has no other effect; it is  *)
(* left out.                                                               *)
(*                                                                         *)
(* Answers are written and flushed under one lock, for all connections.    *)
(* The write blocks while a client that reads no more has its socket or    *)
(* pipe full; a client that is only slow delays it.  PrintWriter drops     *)
(* what it cannot write, and tells nobody.                                 *)
(***************************************************************************)
EXTENDS Integers, Sequences, FiniteSets

CONSTANTS
    MaxConns,       \* bound: connections
    Kinds,          \* request kinds in use, of "push", "check", "hover"
    PoolSize,       \* threads of workerPool (4)
    MaxInFlight,    \* MaxInFlightRequests (64)
    MaxRequests,    \* bound: lines sent on all connections
    MaxFaults       \* bound: clients that stop reading or go away

ASSUME AdapterAssumption ==
    /\ MaxConns \in Nat \ {0}
    /\ PoolSize \in Nat \ {0} /\ MaxInFlight \in Nat \ {0} /\ MaxRequests \in Nat
    /\ MaxFaults \in Nat
    /\ Kinds \subseteq {"push", "check", "hover"}

VARIABLES
    transport,  \* "stdio" or "socket", from the command line
    wire,       \* the lines of each connection that the loop has not read
    client,     \* whether each connection's client reads its answers
    eof,        \* connections whose client has closed its side
    loop,       \* what each connection's streamLoop is doing
    awaited,    \* the requests that Future.sequence waits for at the end
    requests,   \* every request ever sent
    queue,      \* tasks submitted to the pool, in order
    running,    \* tasks that have a thread
    lock,       \* writeLock: the request whose answer is being written, or 0
    latest      \* latestDocuments: the push whose text the table holds

clients == <<client, eof>>
vars == <<transport, wire, clients, loop, awaited, requests, queue, running, lock, latest>>

(* Connections are numbered in the order in which they are accepted. *)
Conns == 1..MaxConns

Requests == DOMAIN requests

OnConn(c) == {r \in Requests : requests[r].conn = c}

Task(what, id) == [what |-> what, id |-> id]

Completed == {"answered", "lost", "failed"}

(* The list inflight, after pruneCompleted. *)
InFlight(c) == {r \in OnConn(c) : requests[r].at \notin Completed \cup {"wire"}}

Init ==
    /\ transport \in {"stdio", "socket"}
    /\ wire = [c \in Conns |-> <<>>]
    /\ client = [c \in Conns |-> "reads"] /\ eof = {}
    /\ loop = [c \in Conns |->
                IF transport = "stdio" /\ c = 1 THEN "reading" ELSE "none"]
    /\ awaited = [c \in Conns |-> {}]
    /\ requests = <<>> /\ queue = <<>> /\ running = {} /\ lock = 0 /\ latest = 0

-----------------------------------------------------------------------------
(* The clients.                                                            *)

(* server.accept(), which hands the loop to the pool. *)
Connect(c) ==
    /\ transport = "socket"
    /\ loop[c] = "none" /\ \A d \in 1..(c - 1) : loop[d] # "none"
    /\ loop' = [loop EXCEPT ![c] = "submitted"]
    /\ queue' = Append(queue, Task("loop", c))
    /\ UNCHANGED <<transport, wire, clients, awaited, requests, running, lock, latest>>

(* A request remembers the pushes its sender could know to be answered.    *)
Send(c) ==
    /\ loop[c] # "none" /\ c \notin eof /\ Len(requests) < MaxRequests
    /\ \E kind \in Kinds :
         requests' = Append(requests,
             [conn |-> c, kind |-> kind, at |-> "wire", read |-> 0,
              after |-> {r \in Requests : requests[r].kind = "push"
                                          /\ requests[r].at = "answered"}])
    /\ wire' = [wire EXCEPT ![c] = Append(@, Len(requests) + 1)]
    /\ UNCHANGED <<transport, clients, loop, awaited, queue, running, lock, latest>>

CloseInput(c) ==
    /\ loop[c] # "none" /\ c \notin eof
    /\ eof' = eof \cup {c}
    /\ UNCHANGED <<transport, wire, client, loop, awaited, requests, queue, running, lock, latest>>

Fault(c, how) ==
    /\ client' = [client EXCEPT ![c] = how]
    /\ Cardinality({d \in Conns : client'[d] # "reads"}) <= MaxFaults

(* The client reads no answer any more and its buffers are full, which is   *)
(* felt by the answer that is being written to it, and by the next ones.    *)
Stalls(c) ==
    /\ client[c] = "reads" /\ lock # 0 /\ requests[lock].conn = c
    /\ Fault(c, "stalls")
    /\ UNCHANGED <<transport, wire, eof, loop, awaited, requests, queue, running, lock, latest>>

(* The client is gone, and both directions with it, before the loop ends. *)
Leaves(c) ==
    /\ loop[c] \notin {"none", "closed", "cut"} /\ client[c] # "gone"
    /\ Fault(c, "gone") /\ eof' = eof \cup {c}
    /\ UNCHANGED <<transport, wire, loop, awaited, requests, queue, running, lock, latest>>

-----------------------------------------------------------------------------
(* streamLoop.                                                             *)

At(r, where) == requests' = [requests EXCEPT ![r].at = where]

(* processLine: hover is answered without a body. *)
ProcessLine(r) ==
    \/ /\ requests[r].kind = "hover" /\ At(r, "answering")
       /\ queue' = Append(queue, Task("answer", r))
    \/ /\ requests[r].kind \in {"push", "check"} /\ At(r, "body")
       /\ queue' = Append(queue, Task("body", r))

(* Variant: one more than the limit. *)
HasCapacityOffByOne(c) == Cardinality(InFlight(c)) <= MaxInFlight

HasCapacity(c) == Cardinality(InFlight(c)) < MaxInFlight

Accepts(c) ==
    /\ ProcessLine(Head(wire[c]))
    /\ wire' = [wire EXCEPT ![c] = Tail(@)]
    /\ loop' = [loop EXCEPT ![c] = "reading"]

(* A line is read; waitForCapacity lets it through, or the loop blocks on  *)
(* the first of its requests to complete, and keeps its thread.            *)
ReadLine(c) ==
    /\ loop[c] = "reading" /\ wire[c] # <<>>
    /\ \/ HasCapacity(c) /\ Accepts(c)
       \/ /\ ~HasCapacity(c)
          /\ loop' = [loop EXCEPT ![c] = "full"]
          /\ UNCHANGED <<wire, requests, queue>>
    /\ UNCHANGED <<transport, clients, awaited, running, lock, latest>>

Release(c) == running' = running \ {Task("loop", c)}

(* Variant: what is in flight is not waited for. *)
ReadEofAtOnce(c) ==
    /\ loop[c] = "reading" /\ wire[c] = <<>> /\ c \in eof
    /\ loop' = [loop EXCEPT ![c] = "closed"] /\ Release(c)
    /\ UNCHANGED <<transport, wire, clients, awaited, requests, queue, lock, latest>>

ReadEof(c) ==
    /\ loop[c] = "reading" /\ wire[c] = <<>> /\ c \in eof
    /\ awaited' = [awaited EXCEPT ![c] = InFlight(c)]
    /\ IF InFlight(c) = {}
         THEN loop' = [loop EXCEPT ![c] = "closed"] /\ Release(c)
         ELSE loop' = [loop EXCEPT ![c] = "draining"] /\ UNCHANGED running
    /\ UNCHANGED <<transport, wire, clients, requests, queue, lock, latest>>

(* readLine throws on a reset: the loop is left, and the socket closed,     *)
(* without waiting for anything.                                            *)
ReadFails(c) ==
    /\ transport = "socket" /\ loop[c] = "reading" /\ client[c] = "gone"
    /\ loop' = [loop EXCEPT ![c] = "cut"] /\ Release(c)
    /\ UNCHANGED <<transport, wire, clients, awaited, requests, queue, lock, latest>>

(* Variant: no time limit. *)
DrainForever(c) ==
    /\ loop[c] = "draining" /\ Release(c)
    /\ \/ /\ \A r \in awaited[c] : requests[r].at \in Completed \ {"failed"}
          /\ loop' = [loop EXCEPT ![c] = "closed"]
       \/ /\ \E r \in awaited[c] : requests[r].at = "failed"
          /\ loop' = [loop EXCEPT ![c] = "cut"]
    /\ UNCHANGED <<transport, wire, clients, awaited, requests, queue, lock, latest>>

(* Await.result of Future.sequence: all have completed; or the first       *)
(* failure, or ShutdownWait, cuts it short.                                *)
Drain(c) ==
    /\ loop[c] = "draining" /\ Release(c)
    /\ \/ /\ \A r \in awaited[c] : requests[r].at \in Completed \ {"failed"}
          /\ loop' = [loop EXCEPT ![c] = "closed"]
       \/ loop' = [loop EXCEPT ![c] = "cut"]
    /\ UNCHANGED <<transport, wire, clients, awaited, requests, queue, lock, latest>>

-----------------------------------------------------------------------------
(* The pool.                                                               *)

(* Variant: a pool that grows with its work. *)
TakeTaskAlways ==
    /\ queue # <<>>
    /\ running' = running \cup {Head(queue)} /\ queue' = Tail(queue)
    /\ loop' = IF Head(queue).what = "loop"
                 THEN [loop EXCEPT ![Head(queue).id] = "reading"] ELSE loop
    /\ UNCHANGED <<transport, wire, clients, awaited, requests, lock, latest>>

(* A free thread takes the oldest task. *)
TakeTask ==
    /\ queue # <<>> /\ Cardinality(running) < PoolSize
    /\ running' = running \cup {Head(queue)} /\ queue' = Tail(queue)
    /\ loop' = IF Head(queue).what = "loop"
                 THEN [loop EXCEPT ![Head(queue).id] = "reading"] ELSE loop
    /\ UNCHANGED <<transport, wire, clients, awaited, requests, lock, latest>>

(* Variant: a text that is there is not replaced. *)
UpdateDocumentIfAbsent(r) ==
    /\ requests[r].kind = "push" /\ At(r, "checking")
    /\ latest' = IF latest = 0 THEN r ELSE latest

(* updateDocument puts the text, whatever the table holds; then, like      *)
(* checkDocument, it runs Isabelle on the text it has.                     *)
UpdateDocument(r) ==
    requests[r].kind = "push" /\ At(r, "checking") /\ latest' = r

CheckDocument(r) ==
    /\ requests[r].kind = "check"
    /\ requests' = [requests EXCEPT ![r].at = "checking", ![r].read = latest]
    /\ UNCHANGED latest

BodyStarts(r) ==
    /\ Task("body", r) \in running /\ requests[r].at = "body"
    /\ UpdateDocument(r) \/ CheckDocument(r)
    /\ UNCHANGED <<transport, wire, clients, loop, awaited, queue, running, lock>>

(* Every completion wakes the connection's loop, through the pool, if it   *)
(* waits for capacity.                                                     *)
Wake(c) == IF loop[c] = "full" THEN <<Task("wake", c)>> ELSE <<>>

(* Variant: the loop is not told of a failure. *)
BodyEndsUnnoticed(r) ==
    /\ Task("body", r) \in running /\ requests[r].at = "checking"
    /\ running' = running \ {Task("body", r)}
    /\ \/ At(r, "answering") /\ queue' = Append(queue, Task("answer", r))
       \/ At(r, "failed") /\ UNCHANGED queue
    /\ UNCHANGED <<transport, wire, clients, loop, awaited, lock, latest>>

(* Isabelle is done, or cannot be run: then nothing is written.  There is  *)
(* no limit to the time it takes.                                          *)
BodyEnds(r) ==
    /\ Task("body", r) \in running /\ requests[r].at = "checking"
    /\ running' = running \ {Task("body", r)}
    /\ \/ At(r, "answering") /\ queue' = Append(queue, Task("answer", r))
       \/ At(r, "failed") /\ queue' = queue \o Wake(requests[r].conn)
    /\ UNCHANGED <<transport, wire, clients, loop, awaited, lock, latest>>

(* A socket is closed with its loop; stdout stays open. *)
SocketClosed(c) == transport = "socket" /\ loop[c] \in {"closed", "cut"}

TakeLock(r) ==
    /\ Task("answer", r) \in running /\ lock = 0 /\ lock' = r
    /\ UNCHANGED <<transport, wire, clients, loop, awaited, requests, queue, running, latest>>

(* Blocks on a client that does not read, until its socket is closed. *)
WriteEnvelope(r) ==
    LET c == requests[r].conn IN
      /\ Task("answer", r) \in running /\ lock = r
      /\ client[c] = "stalls" => SocketClosed(c)
      /\ running' = running \ {Task("answer", r)} /\ lock' = 0
      /\ At(r, IF client[c] = "gone" \/ SocketClosed(c) THEN "lost" ELSE "answered")
      /\ queue' = queue \o Wake(c)
      /\ UNCHANGED <<transport, wire, clients, loop, awaited, latest>>

(* The callback of firstCompletedOf: the loop prunes and looks again. *)
WakeUp(c) ==
    /\ Task("wake", c) \in running
    /\ running' = running \ {Task("wake", c)}
    /\ IF loop[c] = "full" /\ HasCapacity(c)
         THEN Accepts(c)
         ELSE UNCHANGED <<wire, loop, requests, queue>>
    /\ UNCHANGED <<transport, clients, awaited, lock, latest>>

LoopStep(c) == ReadLine(c) \/ ReadEof(c) \/ ReadFails(c) \/ Drain(c)

TaskStep ==
    \/ \E r \in Requests : BodyStarts(r) \/ TakeLock(r) \/ WriteEnvelope(r)
    \/ \E c \in Conns : WakeUp(c)

(* The lock of all connections is in the hands of an answer to a client     *)
(* that does not read (AdapterMain.scala 260, 291-295).                     *)
Locked ==
    /\ lock # 0 /\ client[requests[lock].conn] = "stalls"
    /\ ~SocketClosed(requests[lock].conn)

Idle ==
    /\ queue = <<>> \/ Cardinality(running) = PoolSize
    /\ \A t \in running : t.what = "loop" \/ (t.what = "answer" /\ Locked)
    /\ UNCHANGED vars

Next ==
    \/ \E c \in Conns : \/ Connect(c) \/ Send(c) \/ CloseInput(c) \/ Stalls(c) \/ Leaves(c)
                        \/ LoopStep(c)
    \/ \E r \in Requests : BodyEnds(r)
    \/ TakeTask \/ TaskStep \/ Idle

(* Fairness: threads that can run do.  Clients owe nothing, not even to     *)
(* read, and neither does Isabelle: its runs may never end.                 *)
Fairness ==
    /\ \A c \in Conns : WF_vars(LoopStep(c))
    /\ WF_vars(TakeTask) /\ WF_vars(TaskStep)

Spec == Init /\ [][Next]_vars /\ Fairness

-----------------------------------------------------------------------------
(* Properties.                                                             *)

Request ==
    [conn: Conns, kind: Kinds, at: {"wire", "body", "checking", "answering"} \cup Completed,
     read: Nat, after: SUBSET Nat]

Tasks == [what: {"loop", "body", "answer", "wake"}, id: Nat]

LoopStates == {"none", "submitted", "reading", "full", "draining", "closed", "cut"}

(* The variables have their types; the pool never runs more tasks than     *)
(* threads, and in socket mode a loop that is past its submission has one. *)
TypeOK ==
    /\ transport \in {"stdio", "socket"}
    /\ client \in [Conns -> {"reads", "stalls", "gone"}] /\ eof \subseteq Conns
    /\ requests \in Seq(Request)
    /\ wire \in [Conns -> Seq(Requests)]
    /\ loop \in [Conns -> LoopStates]
    /\ awaited \in [Conns -> SUBSET Requests]
    /\ queue \in Seq(Tasks)
    /\ latest \in {0} \cup {r \in Requests : requests[r].kind = "push"}
    /\ running \subseteq Tasks /\ IsFiniteSet(running) /\ Cardinality(running) <= PoolSize
    /\ \A c \in Conns : Task("loop", c) \in running <=>
         transport = "socket" /\ loop[c] \in {"reading", "full", "draining"}
    /\ lock \in {0} \cup {r \in Requests : Task("answer", r) \in running}

(* scala-adapter/CHANGELOG and README, "connection-level concurrency cap":  *)
(* a connection never has more than MaxInFlight requests under way, however *)
(* completions, failures and wake-ups fall.                                 *)
InFlightBound == \A c \in Conns : Cardinality(InFlight(c)) <= MaxInFlight

(* The table is shared by all connections, and pushes run on any thread     *)
(* (AdapterMain.scala 136-148).  What a check reads was not replaced before *)
(* the check was sent: no push was sent after that text's answer and        *)
(* answered before the check.  In particular, a client that waits for the   *)
(* answer to its push never has an older text of its own checked.           *)
ReadsFresh ==
    \A k \in Requests :
        requests[k].kind = "check" /\ requests[k].at \notin {"wire", "body"} =>
            LET p == requests[k].read IN
              /\ p = 0 => requests[k].after = {}
              /\ \A q \in requests[k].after : p = 0 \/ p \notin requests[q].after

(* "Shutdown safeguards" (scala-adapter/README.md): a client that has not   *)
(* gone loses an answer only when the shutdown of its connection was cut    *)
(* short, by the time limit or by a request that failed; never in stdio     *)
(* mode.                                                                    *)
LostOnlyIfCut ==
    \A r \in Requests :
      LET c == requests[r].conn IN
        requests[r].at = "lost" =>
            client[c] = "gone" \/ (transport = "socket" /\ loop[c] = "cut")

(* Every thread of the pool has a read loop, or an Isabelle run that is not *)
(* over (AdapterMain.scala 195, 298-299, 366).                              *)
Held ==
    Cardinality({t \in running :
        \/ t.what = "loop"
        \/ t.what = "body" /\ requests[t.id].at = "checking"}) = PoolSize

(* Every request whose client stays is answered in the end, or fails, but   *)
(* for three causes: its own Isabelle run does not end, or the pool is held *)
(* for ever, or the lock is.  Nothing else keeps it: no thread waits for a  *)
(* thread that waits for it, no completion goes unnoticed by a loop that    *)
(* waits for capacity.                                                      *)
Served ==
    \A r \in 1..MaxRequests :
        <>[](r \in Requests =>
                \/ requests[r].at \in Completed \cup {"checking"}
                \/ client[requests[r].conn] = "gone"
                \/ Held \/ Locked)

(* A client that closes its side, or is gone, gets its loop ended, within   *)
(* the time limit whatever becomes of its requests.  The wait for capacity  *)
(* has no limit: a loop that is in it, or has no thread yet, depends on the *)
(* others' threads and on the lock.                                         *)
Releases ==
    \A c \in Conns :
        <>[](c \in eof => \/ loop[c] \in {"closed", "cut"}
                          \/ loop[c] \in {"submitted", "full"} /\ (Held \/ Locked))
===============================================================================
