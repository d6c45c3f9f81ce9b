---------------------------- MODULE BridgeSession ----------------------------
(***************************************************************************)
(* One session of the bridge: the select loop of run_session               *)
(* (bridge/src/main.rs), the ProcessManager it forwards to                 *)
(* (bridge/src/process.rs) with its restarts, the reader task of every     *)
(* adapter it ever started, the bounded output channel they share, and     *)
(* the adapters at the other end.                                          *)
(*                                                                         *)
(* The editor's lines are numbered as they are read; the number is the     *)
(* message's id.  A payload that does not decode has uri NoUri.  Blank     *)
(* lines and lines that are not a message change nothing and are left out. *)
(*                                                                         *)
(* In Mode                                                                 *)
(*   "child"   the adapter is a child process on pipes that answers like   *)
(*             run_mock_adapter (--mock): one request at a time, in order; *)
(*   "sbt"     it is the Scala adapter (the default real mode), in a JVM   *)
(*             that the child process, sbt, has forked (build.sbt 15),     *)
(*             reached over TCP;                                           *)
(*   "socket"  it is a Scala adapter somebody else runs, reached over TCP  *)
(*             (--adapter-socket).                                         *)
(* The Scala adapter works on several requests and answers in any order.   *)
(*                                                                         *)
(* The state of an adapter is that of its end of the connection: "running" *)
(* while it is open, then "closing" until the operating system has reaped  *)
(* the child on pipes, or reset the TCP connection, then "exited".  sbt is *)
(* a process of its own, and may be gone while the adapter behind it runs. *)
(* A write to a pipe whose reader is gone fails; one to a TCP peer that is *)
(* gone is accepted, and lost, until the reset has arrived.                *)
(***************************************************************************)
EXTENDS DebounceQueue, Sequences, FiniteSets

CONSTANTS
    Uris, NoUri, Versions,  \* documents, "payload does not decode", versions
    NoMessage,              \* no message where one might be
    Mode,                   \* how the adapter is reached
    MaxRetries,             \* ProcessManager.max_retries: 3 in the code
    ChannelCapacity,        \* lines in the output channel: 256 in the code
    PipeCapacity,           \* lines an OS pipe or socket buffer holds
    MaxInFlight,            \* requests an adapter works on: 1 on pipes, 64 in Scala
    Lines,                  \* the editor's lines, as [type, uri, version]
    MaxLines,               \* bound: lines the editor sends
    MaxCrashes              \* bound: adapters that quit on their own

Types == {"push", "check", "markup", "diagnostics"}

ASSUME SessionAssumption ==
    /\ Versions \subseteq Nat
    /\ NoUri \notin Uris
    /\ MaxRetries \in Nat
    /\ ChannelCapacity \in Nat \ {0}
    /\ PipeCapacity \in Nat \ {0}
    /\ MaxInFlight \in Nat \ {0}
    /\ MaxLines \in Nat
    /\ MaxCrashes \in Nat
    /\ Mode \in {"child", "sbt", "socket"}
    /\ Lines \subseteq [type: Types, uri: Uris \cup {NoUri}, version: Versions]

Message ==
    [id: Nat, type: Types, uri: Uris \cup {NoUri}, version: Versions]

Deliveries == [gen: Nat, message: Message] \* an answer, and whose it is

ASSUME NoMessageAssumption == NoMessage \notin Message \cup Deliveries

VARIABLES
    phase,      \* where run_session stands
    eof,        \* the editor closed its side: stop once the flush is written
    attempts,   \* restarts made for the message being written
    input,      \* history: the messages read
    pending,    \* the debounce queue
    batch,      \* drained pushes not written yet, in no particular order
    request,    \* the message to forward after them, or NoMessage
    sending,    \* the message being written, or NoMessage
    sent,       \* history: writes that returned Ok
    adapters,   \* every adapter started so far, the current one last
    crashes,    \* counts against MaxCrashes
    channel,    \* the output channel
    answer,     \* the line being written to the editor, or NoMessage
    delivered   \* history: answers written to the editor

queueVars   == <<input, pending>>
sendVars    == <<batch, request, sending, attempts, sent>>
adapterVars == <<adapters, crashes>>
outVars     == <<channel, answer, delivered>>
vars == <<phase, eof, queueVars, sendVars, adapterVars, outVars>>

-----------------------------------------------------------------------------
(* The adapter's side of one connection, and the reader task behind it.    *)
NewAdapter ==
    [state    |-> "running",
     sbt      |-> Mode = "sbt", \* the sbt process in front of it runs
     stdin    |-> <<>>,         \* written by the bridge, not read yet
     handling |-> {},           \* read, not answered yet
     told     |-> <<>>,         \* history: its answers, in its order
     stdout   |-> <<>>,         \* answered, not taken by the reader task
     reader   |-> NoMessage]    \* held by the reader task

Current == Len(adapters)

(* The child process of the bridge, which kill and try_wait are about. *)
ChildLives(a) == IF Mode = "child" THEN a.state # "exited" ELSE a.sbt

ChildExited(a) == Mode # "socket" /\ ~ChildLives(a)

Gone(a, state) == [a EXCEPT !.state = state, !.stdin = <<>>, !.handling = {}]

(* Variant: stop() only drops the writer. *)
StoppedWithoutKill == adapters

(* ProcessManager::stop: drop the writer, kill and reap the child.  The    *)
(* child of the sbt mode is sbt: the JVM behind it is not killed.          *)
Reaped(a) == IF Mode = "child" THEN Gone(a, "exited") ELSE [a EXCEPT !.sbt = FALSE]

Stopped ==
    IF Current = 0 THEN adapters ELSE [adapters EXCEPT ![Current] = Reaped(@)]

Over == phase \in {"ended", "failed"}

-----------------------------------------------------------------------------
Init ==
    /\ phase = "starting" /\ eof = FALSE /\ attempts = 0
    /\ input = <<>> /\ pending = EmptyQueue
    /\ batch = {} /\ request = NoMessage /\ sending = NoMessage /\ sent = <<>>
    /\ adapters = <<>> /\ crashes = 0
    /\ channel = <<>> /\ answer = NoMessage /\ delivered = <<>>

(* The next message of the drain, then the request behind it, then back to *)
(* select, or out of the loop after the flush at end of input.             *)
Proceed(drained, req, closing) ==
    /\ attempts' = 0
    /\ \/ /\ drained # {}
          /\ \E m \in drained : sending' = m /\ batch' = drained \ {m}
          /\ request' = req /\ phase' = "sending"
       \/ /\ drained = {} /\ req # NoMessage
          /\ sending' = req /\ batch' = {} /\ request' = NoMessage
          /\ phase' = "sending"
       \/ /\ drained = {} /\ req = NoMessage
          /\ sending' = NoMessage /\ batch' = {} /\ request' = NoMessage
          /\ phase' = IF closing THEN "stopping" ELSE "select"

(* Every `?` of run_session leaves without stop(). *)
Fail == phase' = "failed"

(* process.start() before the loop. *)
StartSession ==
    /\ phase = "starting"
    /\ \/ phase' = "select" /\ adapters' = Append(Stopped, NewAdapter)
       \/ Fail /\ adapters' = Stopped
    /\ UNCHANGED <<eof, queueVars, sendVars, crashes, outVars>>

ReadPush(m) ==
    /\ m.type = "push"
    /\ IF m.uri = NoUri
         THEN Fail /\ UNCHANGED pending
         ELSE pending' = Enqueue(pending, m) /\ UNCHANGED phase
    /\ UNCHANGED sendVars

(* Variants: the check is forwarded and the pending push stays; only a push *)
(* whose window has elapsed is drained.                                     *)
ReadCheckAlone(m) ==
    /\ m.type = "check"
    /\ Proceed({}, m, FALSE)
    /\ UNCHANGED <<pending, sent>>

ReadCheckReadyOnly(m) ==
    /\ m.type = "check"
    /\ LET drained == EntriesFor(pending, m.uri) \cap Ready(pending) IN
         /\ pending' = pending \ drained
         /\ Proceed(MessagesOf(drained), m, FALSE)
    /\ UNCHANGED sent

(* A check takes its document's pending push along, in front of it; one    *)
(* that does not decode is forwarded all the same.                         *)
ReadCheck(m) ==
    /\ m.type = "check"
    /\ LET drained == EntriesFor(pending, m.uri) IN
         /\ pending' = pending \ drained
         /\ Proceed(MessagesOf(drained), m, FALSE)
    /\ UNCHANGED sent

ReadOther(m) ==
    /\ m.type \in {"markup", "diagnostics"}
    /\ Proceed({}, m, FALSE)
    /\ UNCHANGED <<pending, sent>>

ReadLine ==
    /\ phase = "select" /\ Len(input) < MaxLines
    /\ \E line \in Lines :
         LET m == [id |-> Len(input) + 1, type |-> line.type,
                   uri |-> line.uri, version |-> line.version]
         IN /\ input' = Append(input, m)
            /\ ReadPush(m) \/ ReadCheck(m) \/ ReadOther(m)
    /\ UNCHANGED <<eof, adapterVars, outVars>>

(* Variant: end of input leaves the loop at once. *)
ReadEofNoFlush ==
    /\ phase = "select"
    /\ eof' = TRUE /\ pending' = EmptyQueue
    /\ Proceed({}, NoMessage, TRUE)
    /\ UNCHANGED <<input, sent, adapterVars, outVars>>

ReadEof ==
    /\ phase = "select"
    /\ eof' = TRUE /\ pending' = EmptyQueue
    /\ Proceed(MessagesOf(pending), NoMessage, TRUE)
    /\ UNCHANGED <<input, sent, adapterVars, outVars>>

(* The editor's connection breaks: the next read fails. *)
ReadError ==
    /\ phase = "select" /\ Fail
    /\ UNCHANGED <<eof, queueVars, sendVars, adapterVars, outVars>>

(* The bridge is killed, as the language server that started it does when  *)
(* it ends (isabelle-lsp/src/main.rs 1064-1067): no stop() at all.         *)
Killed ==
    /\ ~Over /\ Fail
    /\ UNCHANGED <<eof, queueVars, sendVars, adapterVars, outVars>>

(* The 25 ms tick; one that finds nothing ready changes nothing. *)
FlushTick ==
    /\ phase = "select" /\ Ready(pending) # {}
    /\ pending' = pending \ Ready(pending)
    /\ Proceed(MessagesOf(Ready(pending)), NoMessage, FALSE)
    /\ UNCHANGED <<eof, input, sent, adapterVars, outVars>>

TimePasses ==
    /\ ~Over /\ Elapse(pending) # pending
    /\ pending' = Elapse(pending)
    /\ UNCHANGED <<phase, eof, input, sendVars, adapterVars, outVars>>
-----------------------------------------------------------------------------
(* ProcessManager::send. *)
RecordSent ==
    sent' = Append(sent, [message |-> sending, gen |-> Current, at |-> Len(input)])

(* write_line looks at the child, and goes on to write. *)
TryWait ==
    /\ phase = "sending" /\ ~ChildExited(adapters[Current])
    /\ phase' = "writing"
    /\ UNCHANGED <<eof, queueVars, sendVars, adapterVars, outVars>>

Fed(a, m) == [a EXCEPT !.stdin = Append(a.stdin, m)]

(* Blocked while the pipe is full. *)
WriteOk ==
    /\ phase = "writing"
    /\ adapters[Current].state = "running"
    /\ Len(adapters[Current].stdin) < PipeCapacity
    /\ adapters' = [adapters EXCEPT ![Current] = Fed(@, sending)]
    /\ RecordSent /\ Proceed(batch, request, eof)
    /\ UNCHANGED <<eof, queueVars, crashes, outVars>>

(* TCP takes a line for a peer that has just gone. *)
WriteLost ==
    /\ phase = "writing" /\ Mode # "child"
    /\ adapters[Current].state = "closing"
    /\ RecordSent /\ Proceed(batch, request, eof)
    /\ UNCHANGED <<eof, queueVars, adapterVars, outVars>>

(* write_line fails when it finds that the child has exited, whatever has  *)
(* become of an adapter behind it, and when the far end of the connection  *)
(* is gone: EPIPE or a reset.                                              *)
CannotWrite ==
    \/ phase = "sending" /\ ChildExited(adapters[Current])
    \/ phase = "writing" /\ adapters[Current].state # "running"

(* Then stop() and the backoff, or MaxRetriesExceeded. *)
WriteFails ==
    /\ CannotWrite
    /\ IF attempts >= MaxRetries
         THEN Fail /\ UNCHANGED adapters
         ELSE phase' = "backoff" /\ adapters' = Stopped
    /\ UNCHANGED <<eof, queueVars, sendVars, crashes, outVars>>

(* After the backoff: start(), and write the same message again.  A start  *)
(* that fails ends the session, whatever attempts are left.                *)
Restart ==
    /\ phase = "backoff"
    /\ \/ /\ adapters' = Append(Stopped, NewAdapter)
          /\ attempts' = attempts + 1 /\ phase' = "sending"
       \/ Fail /\ adapters' = Stopped /\ UNCHANGED attempts
    /\ UNCHANGED <<eof, queueVars, batch, request, sending, sent, crashes, outVars>>

(* The loop is left and stop() runs. *)
StopSession ==
    /\ phase = "stopping" /\ phase' = "ended" /\ adapters' = Stopped
    /\ UNCHANGED <<eof, queueVars, sendVars, crashes, outVars>>
-----------------------------------------------------------------------------
(* adapter_output.recv(), and the write to the editor inside the select     *)
(* arm: it is over when the editor's pipe has taken the line, which is up   *)
(* to the editor, and may fail.                                            *)
TakeAnswer ==
    /\ phase = "select" /\ channel # <<>>
    /\ channel' = Tail(channel) /\ answer' = Head(channel)
    /\ phase' = "delivering"
    /\ UNCHANGED <<eof, queueVars, sendVars, adapterVars, delivered>>

DeliverAnswer ==
    /\ phase = "delivering" /\ answer' = NoMessage
    /\ \/ delivered' = Append(delivered, answer) /\ phase' = "select"
       \/ Fail /\ UNCHANGED delivered
    /\ UNCHANGED <<eof, queueVars, sendVars, adapterVars, channel>>

(* The reader tasks: one per adapter ever started, never cancelled, all    *)
(* sending into the one channel; after the session they find it closed.    *)
Taken(a) == [a EXCEPT !.reader = Head(a.stdout), !.stdout = Tail(a.stdout)]

ReaderTakes(g) ==
    /\ ~Over
    /\ adapters[g].reader = NoMessage /\ adapters[g].stdout # <<>>
    /\ adapters' = [adapters EXCEPT ![g] = Taken(@)]
    /\ UNCHANGED <<phase, eof, queueVars, sendVars, crashes, outVars>>

(* Variants: the line is sent again; the channel takes any number of lines. *)
ReaderPutsAgain(g) ==
    /\ ~Over
    /\ adapters[g].reader # NoMessage /\ Len(channel) < ChannelCapacity
    /\ channel' = Append(channel, [gen |-> g, message |-> adapters[g].reader])
    /\ UNCHANGED <<phase, eof, queueVars, sendVars, adapterVars, answer, delivered>>

ReaderPutsUnbounded(g) ==
    /\ ~Over /\ adapters[g].reader # NoMessage
    /\ channel' = Append(channel, [gen |-> g, message |-> adapters[g].reader])
    /\ adapters' = [adapters EXCEPT ![g] = [@ EXCEPT !.reader = NoMessage]]
    /\ UNCHANGED <<phase, eof, queueVars, sendVars, crashes, answer, delivered>>

ReaderPuts(g) ==
    /\ ~Over
    /\ adapters[g].reader # NoMessage /\ Len(channel) < ChannelCapacity
    /\ channel' = Append(channel, [gen |-> g, message |-> adapters[g].reader])
    /\ adapters' = [adapters EXCEPT ![g] = [@ EXCEPT !.reader = NoMessage]]
    /\ UNCHANGED <<phase, eof, queueVars, sendVars, crashes, answer, delivered>>

-----------------------------------------------------------------------------
(* Nobody sees what an adapter beyond TCP does once the session is over:   *)
(* its steps are left out.                                                  *)
Seen == Over => Mode = "child"

(* The adapters.  A push or check that does not decode, and a diagnostics   *)
(* message, get no answer; a markup request that does not decode ends       *)
(* run_mock_adapter, and gets no answer from the Scala adapter.             *)
Answered(m) == m.type \in {"push", "check", "markup"} /\ m.uri # NoUri

Read(a) ==
    LET m == Head(a.stdin) IN
      IF Mode = "child" /\ m.type = "markup" /\ m.uri = NoUri
        THEN Gone(a, "closing")
        ELSE [a EXCEPT !.stdin = Tail(a.stdin),
                       !.handling = @ \cup {n \in {m} : Answered(n)}]

Told(a, m) ==
    [a EXCEPT !.told = Append(a.told, m), !.stdout = Append(a.stdout, m), !.handling = @ \ {m}]

Dropped(a, m) == [a EXCEPT !.handling = @ \ {m}]

AdapterReads(g) ==
    /\ Seen /\ adapters[g].state = "running" /\ adapters[g].stdin # <<>>
    /\ Cardinality(adapters[g].handling) < MaxInFlight
    /\ adapters' = [adapters EXCEPT ![g] = Read(@)]
    /\ UNCHANGED <<phase, eof, queueVars, sendVars, crashes, outVars>>

(* Variant: a reader task that outlives the session keeps the pipe open. *)
AdapterAnswersBlocked(g) ==
    /\ adapters[g].state = "running" /\ Len(adapters[g].stdout) < PipeCapacity
    /\ \E m \in adapters[g].handling : adapters' = [adapters EXCEPT ![g] = Told(@, m)]
    /\ UNCHANGED <<phase, eof, queueVars, sendVars, crashes, outVars>>

(* Any of the requests at hand, of which run_mock_adapter has only one.    *)
(* Blocked while stdout is full; a child on pipes dies of the broken pipe   *)
(* when nobody holds the far end any more.                                  *)
AdapterAnswers(g) ==
    /\ Seen /\ adapters[g].state = "running"
    /\ \E m \in adapters[g].handling :
         IF Over
           THEN adapters' = [adapters EXCEPT ![g] = Gone(@, "closing")]
           ELSE /\ Len(adapters[g].stdout) < PipeCapacity
                /\ adapters' = [adapters EXCEPT ![g] = Told(@, m)]
    /\ UNCHANGED <<phase, eof, queueVars, sendVars, crashes, outVars>>

(* A request of the Scala adapter that fails is only logged. *)
RequestFails(g) ==
    /\ Mode # "child" /\ Seen /\ adapters[g].state = "running"
    /\ \E m \in adapters[g].handling : adapters' = [adapters EXCEPT ![g] = Dropped(@, m)]
    /\ UNCHANGED <<phase, eof, queueVars, sendVars, crashes, outVars>>

(* The bridge has dropped its writer: end of input for the adapter. *)
WriterDropped(g) == Over \/ phase = "backoff" \/ g # Current

(* It ends a child on pipes, and the Scala adapter's connection, which does *)
(* not wait for requests longer than ShutdownWait.                          *)
AdapterSeesEof(g) ==
    /\ Seen /\ WriterDropped(g)
    /\ adapters[g].state = "running" /\ adapters[g].stdin = <<>>
    /\ Mode = "child" => adapters[g].handling = {}
    /\ adapters' = [adapters EXCEPT ![g] = Gone(@, "closing")]
    /\ UNCHANGED <<phase, eof, queueVars, sendVars, crashes, outVars>>

(* The adapter exits on its own, or only its connection breaks. *)
AdapterQuits(g) ==
    /\ ~Over /\ crashes < MaxCrashes /\ adapters[g].state = "running"
    /\ adapters' = [adapters EXCEPT ![g] = Gone(@, "closing")]
    /\ crashes' = crashes + 1
    /\ UNCHANGED <<phase, eof, queueVars, sendVars, outVars>>

AdapterExits(g) ==
    /\ Seen /\ adapters[g].state = "closing"
    /\ adapters' = [adapters EXCEPT ![g] = [@ EXCEPT !.state = "exited"]]
    /\ UNCHANGED <<phase, eof, queueVars, sendVars, crashes, outVars>>

(* sbt exits after the adapter it forked, or alone: its JVM lives on. *)
SbtExits(g) ==
    /\ ~Over /\ adapters[g].sbt
    /\ IF adapters[g].state = "running"
         THEN crashes < MaxCrashes /\ crashes' = crashes + 1
         ELSE UNCHANGED crashes
    /\ adapters' = [adapters EXCEPT ![g] = [@ EXCEPT !.sbt = FALSE]]
    /\ UNCHANGED <<phase, eof, queueVars, sendVars, outVars>>

-----------------------------------------------------------------------------
(* A session that is over stays so. *)
Terminated == Over /\ UNCHANGED vars

Loop == StartSession \/ ReadEof \/ ReadError \/ FlushTick \/ TryWait \/ WriteOk \/ WriteLost
        \/ WriteFails \/ Restart \/ StopSession \/ TakeAnswer \/ DeliverAnswer

Reader(g) == ReaderTakes(g) \/ ReaderPuts(g)

Adapter(g) == AdapterReads(g) \/ AdapterAnswers(g) \/ AdapterSeesEof(g) \/ AdapterExits(g)

Accident(g) == RequestFails(g) \/ AdapterQuits(g) \/ SbtExits(g)

Next ==
    \/ Loop \/ ReadLine \/ TimePasses \/ Killed \/ Terminated
    \/ \E g \in DOMAIN adapters : Reader(g) \/ Adapter(g) \/ Accident(g)

(* Fairness.  The bridge's tasks run on tokio and take the steps they can;   *)
(* the clock advances; an adapter that has read a line answers it when its   *)
(* stdout has room, as run_mock_adapter does (an Isabelle run of the Scala   *)
(* adapter has no time limit: liveness is checked in Mode "child" only), and *)
(* one whose connection has closed is reaped.  The editor owes nothing: that *)
(* it sends, that it reads what the bridge writes (DeliverAnswer), that its  *)
(* connection holds.  The input is finite, so a select arm is interrupted    *)
(* finitely often and weak fairness is enough for each.                      *)
Writer == StartSession \/ TryWait \/ WriteOk \/ WriteLost \/ WriteFails \/ Restart
          \/ StopSession

Fairness ==
    /\ WF_vars(Writer) /\ WF_vars(FlushTick) /\ WF_vars(TakeAnswer)
    /\ WF_vars(TimePasses)
    /\ WF_vars(\E g \in DOMAIN adapters : Reader(g))
    /\ WF_vars(\E g \in DOMAIN adapters : Adapter(g))

Spec == Init /\ [][Next]_vars

FairSpec == Spec /\ Fairness

-----------------------------------------------------------------------------
(* Properties.                                                               *)

SentMessages == {sent[i].message : i \in DOMAIN sent}

Some(m) == IF m = NoMessage THEN {} ELSE {m}

(* What the session still has to write. *)
Held == MessagesOf(pending) \cup batch \cup Some(sending) \cup Some(request)

Adapters ==
    [state: {"running", "closing", "exited"}, sbt: BOOLEAN, stdin: Seq(Message),
     handling: SUBSET Message, told: Seq(Message), stdout: Seq(Message),
     reader: Message \cup {NoMessage}]

(* Every variable has its type; the retries of a message and the lines in    *)
(* the channel stay within their limits (process.rs 103, 145, 332-338).      *)
TypeOK ==
    /\ phase \in {"starting", "select", "sending", "writing", "backoff", "delivering",
                  "stopping", "ended", "failed"}
    /\ eof \in BOOLEAN
    /\ attempts \in 0..MaxRetries
    /\ input \in Seq(Message)
    /\ pending \subseteq [message: Message, age: 0..Debounce]
    /\ batch \subseteq Message
    /\ request \in Message \cup {NoMessage}
    /\ sending \in Message \cup {NoMessage}
    /\ sent \in Seq([message: Message, gen: Nat, at: Nat])
    /\ adapters \in Seq(Adapters)
    /\ crashes \in 0..MaxCrashes
    /\ channel \in Seq(Deliveries) /\ Len(channel) <= ChannelCapacity
    /\ answer \in Deliveries \cup {NoMessage}
    /\ delivered \in Seq(Deliveries)

(* A write that covers push p and was made after p had been read. *)
SentFor(p) ==
    \E i \in DOMAIN sent : /\ sent[i].message.type = "push"
                           /\ Covers(sent[i].message, p)
                           /\ sent[i].at >= p.id

HeldFor(p) == \E h \in Held : h.type = "push" /\ Covers(h, p)

(* Debouncing, the drain in front of a check, retries over an adapter that   *)
(* crashed and the flush at end of input lose nothing (main.rs 200-252,      *)
(* process.rs 138-164): as long as no error has ended the session, every     *)
(* request read has been written or is held, and every push read has been    *)
(* written, or is held, or gave way to a push of its URI that was in the     *)
(* queue with it and is not older.                                           *)
NothingLost ==
    phase # "failed" =>
        \A i \in DOMAIN input :
            IF input[i].type = "push"
              THEN SentFor(input[i]) \/ HeldFor(input[i])
              ELSE input[i] \in SentMessages \cup Held

(* CHANGELOG 0.2.3, "flushes pending debounced document.push messages before *)
(* session shutdown on input EOF": a session that ended without an error     *)
(* owes the adapter nothing.                                                 *)
EofFlushes ==
    phase = "ended" =>
        \A i \in DOMAIN input :
            IF input[i].type = "push"
              THEN SentFor(input[i])
              ELSE input[i] \in SentMessages

(* Pushes and checks of one document, the messages whose order matters. *)
SameDocument(m, n) ==
    /\ m.uri = n.uri /\ m.uri # NoUri
    /\ {m.type, n.type} \subseteq {"push", "check"}

(* However pushes are delayed, replaced, drained and retried, the adapter    *)
(* gets the pushes and checks of a document in the order the editor sent     *)
(* them, each at most once: a check never overtakes the text it is about     *)
(* (main.rs 208-222), a replaced push never comes after its replacement.     *)
DocumentOrder ==
    \A i, j \in DOMAIN sent :
        i < j /\ SameDocument(sent[i].message, sent[j].message)
            => sent[i].message.id < sent[j].message.id

(* When a check has been written, every push of its document that was read   *)
(* before it has been written ahead of it, or gave way to one that was: the  *)
(* adapter checks the newest text the editor had sent (main.rs 208-222).     *)
CheckSeesLatestPush ==
    \A j \in DOMAIN sent :
        sent[j].message.type = "check" =>
            \A k \in DOMAIN input :
                /\ input[k].type = "push" /\ input[k].id < sent[j].message.id
                /\ input[k].uri = sent[j].message.uri
                => \E i \in 1..(j - 1) : /\ sent[i].message.type = "push"
                                        /\ Covers(sent[i].message, input[k])
                                        /\ sent[i].at >= input[k].id

(* Restarts, and reader tasks that outlive their adapter (process.rs         *)
(* 332-408, 435-441), neither repeat an answer nor turn it into another's    *)
(* nor change the order: what the editor gets from one adapter are answers   *)
(* to messages written to that adapter, each at most once, in the order in   *)
(* which that adapter gave them.  That need not be the order in which the    *)
(* messages were written: the Scala adapter works on several.                *)
ToldAt(x) == CHOOSE i \in DOMAIN adapters[x.gen].told : adapters[x.gen].told[i] = x.message

AnswersFollowRequests ==
    /\ \A i \in DOMAIN delivered :
         \E k \in DOMAIN sent : /\ sent[k].message = delivered[i].message
                                /\ sent[k].gen = delivered[i].gen
    /\ \A i, j \in DOMAIN delivered :
         i < j =>
            /\ delivered[i].message # delivered[j].message
            /\ delivered[i].gen = delivered[j].gen
                => ToldAt(delivered[i]) < ToldAt(delivered[j])

(* ProcessManager never has a second child process beside the first: of      *)
(* those it started only the newest lives, none through a backoff, and none  *)
(* after the session ended without an error (process.rs 112-113, 166-173,    *)
(* 410-416, 435-441).  The child is the adapter on pipes, and sbt in the     *)
(* sbt mode, where the adapter itself, in a JVM of its own, is not the       *)
(* bridge's child: one that sbt left behind may still run and answer beside  *)
(* the next.                                                                 *)
AtMostOneChild ==
    \A g \in DOMAIN adapters :
        ChildLives(adapters[g]) =>
            g = Current /\ phase \notin {"starting", "backoff", "ended"}

(* The bridge, the adapter and the reader task wait on each other: a write   *)
(* blocked on a full stdin, the adapter on a full stdout, the reader task on *)
(* a full channel that only the bridge drains.                               *)
Circle ==
    /\ phase = "writing"
    /\ LET far == adapters[Current] IN
         /\ far.state = "running"
         /\ Len(far.stdin) = PipeCapacity /\ Cardinality(far.handling) = MaxInFlight
         /\ Len(far.stdout) = PipeCapacity /\ far.reader # NoMessage
         /\ Len(channel) = ChannelCapacity

(* A push the editor has sent reaches the adapter, or gives way to one that  *)
(* does, or the session fails: a replacement, a full pipe, a restart or end  *)
(* of input only delays it.  Two things alone can keep it for ever: an       *)
(* editor that does not read what the bridge writes to it (main.rs 253-258), *)
(* and the circle.  The input is finite: from some time on nothing is owed.  *)
PushReachesAdapter ==
    <>[] \/ phase \in {"failed", "delivering"} \/ Circle
         \/ \A i \in DOMAIN input : input[i].type = "push" => SentFor(input[i])

(* A session that is over leaves no adapter on pipes behind, not even one    *)
(* that was killed: stop() kills it (process.rs 166-173), or the end of its  *)
(* input or a broken pipe ends run_mock_adapter (456-460, 519-523).          *)
AdapterEnds == Over ~> \A g \in DOMAIN adapters : adapters[g].state = "exited"

(* Two claims of the repository's texts that the code does not keep.         *)

(* bridge/README.md 124 runs the bridge as `cat request.ndjson | bridge`:    *)
(* a session that ended without an error has printed the answer to every     *)
(* message it forwarded.                                                     *)
CleanEndAnswersAll ==
    phase = "ended" =>
        \A i \in DOMAIN sent :
            Answered(sent[i].message) =>
                \E k \in DOMAIN delivered : delivered[k].message = sent[i].message

(* CHANGELOG 0.2.1, "avoid potential pipe backpressure deadlocks": the       *)
(* bridge, the adapter and the reader task never wait on each other in a     *)
(* circle.                                                                   *)
NoBackpressureDeadlock == ~Circle
=============================================================================
