---------------------------- MODULE LanguageServer ----------------------------
(***************************************************************************)
(* The language server between the editor and the bridge                   *)
(* (isabelle-lsp/src/main.rs 210-855): the notification handlers, the      *)
(* commands, hover and didClose as tasks that interleave at their awaits,  *)
(* the push worker, and the publication of diagnostics.                    *)
(*                                                                         *)
(* A request to the bridge is the remote call of BridgeRpc, which          *)
(* BridgeTransport implements: it reaches the bridge at most twice, is     *)
(* answered only if it reached it, and may fail.                           *)
(*                                                                         *)
(* A notification handler is one step: the documents' lock is only taken   *)
(* by handlers, which one task polls, and never held across an await.      *)
(* Time is left out: the worker's tick may find any pending push ready.    *)
(* Texts are numbered: a document's text is the number of the notification *)
(* that brought it.                                                        *)
(***************************************************************************)
EXTENDS Naturals, Sequences, FiniteSets

CONSTANTS
    Uris, None,     \* documents; no document, call, command or source
    Worker,         \* the push worker
    Commands,       \* tasks of handlers that run beside it, each used once
    Kinds,          \* what the editor asks of them
    Cancellable,    \* the kinds it may cancel
    Reports,        \* the sets of URIs an answer may have diagnostics for
    OpenVersions,   \* versions a document may be opened with
    MaxNotes        \* bound: didOpen, didChange and didSave notifications

AllKinds == {"start", "stop", "check", "hover", "close"}

ASSUME ServerAssumption ==
    /\ None \notin Uris \cup Commands \cup AllKinds
    /\ Worker \notin Commands
    /\ Kinds \subseteq AllKinds
    /\ Cancellable \subseteq AllKinds \ {"close"}
    /\ Reports \subseteq SUBSET Uris
    /\ OpenVersions \subseteq Nat
    /\ MaxNotes \in Nat

Actors == Commands \cup {Worker}

Document == [version: Nat, text: Nat]

Push == [id: Nat, uri: Uris, version: Nat, text: Nat]

Call == [type: {"push", "check", "markup"}, uri: Uris, id: Nat, text: Nat, reached: BOOLEAN]

ASSUME NoneAssumption == None \notin Document \cup Push \cup Call

VARIABLES
    documents,      \* the open documents: version and text, or None
    notes,          \* notifications so far
    events,         \* push_tx: updates and flushes, not received yet
    pending,        \* pending_by_uri
    batch, ack,     \* pushes the worker is about to send, for whose flush
    running,        \* session_running
    command,        \* where each handler's task stands
    call,           \* the request each actor has open, or None
    out,            \* the publications each actor has yet to make
    targets,        \* published_diagnostic_targets, {} for no entry
    shown,          \* the editor: whose diagnostics each document shows
    pushed,         \* history: the text last pushed to the bridge, or 0
    late,           \* history: requests that reached it after a stop
    behind,         \* history: documents that lost a push, and why
    disturbed       \* history: documents whose publications overlapped

editorVars == <<documents, notes>>
workerVars == <<events, pending, batch, ack>>
outVars    == <<out, targets, shown, disturbed>>
callVars   == <<call, pushed, late, behind>>
vars == <<editorVars, workerVars, running, command, outVars, callVars>>

Unused == [kind |-> None, stage |-> "unused", checks |-> {}, uri |-> None, serial |-> 0]

Done == [Unused EXCEPT !.stage = "done"]

Init ==
    /\ documents = [u \in Uris |-> None] /\ notes = 0
    /\ events = <<>> /\ pending = {} /\ batch = {} /\ ack = None
    /\ running = TRUE
    /\ command = [c \in Commands |-> Unused]
    /\ call = [c \in Actors |-> None] /\ out = [c \in Actors |-> {}]
    /\ targets = [u \in Uris |-> {}] /\ shown = [u \in Uris |-> None]
    /\ pushed = [u \in Uris |-> 0] /\ late = [c \in Actors |-> 0]
    /\ behind = {} /\ disturbed = {}

Free(c) == call[c] = None /\ out[c] = {}

Open(u) == documents[u] # None

-----------------------------------------------------------------------------
(* Notifications: the document is stored and its push scheduled.           *)
Schedule(u, version, text) ==
    /\ notes' = notes + 1
    /\ documents' = [documents EXCEPT ![u] = [version |-> version, text |-> text]]
    /\ events' = Append(events,
         [update |-> [id |-> notes + 1, uri |-> u, version |-> version, text |-> text],
          uris |-> {}, by |-> None])
    /\ UNCHANGED <<pending, batch, ack, running, command, outVars, callVars>>

(* A document that is opened again starts over with the editor's version.  *)
DidOpen(u) == ~Open(u) /\ \E v \in OpenVersions : Schedule(u, v, notes + 1)

DidChange(u) == Open(u) /\ Schedule(u, documents[u].version + 1, notes + 1)

DidSave(u) == Open(u) /\ Schedule(u, documents[u].version, documents[u].text)

Notify ==
    /\ notes < MaxNotes
    /\ \E u \in Uris : DidOpen(u) \/ DidChange(u) \/ DidSave(u)

-----------------------------------------------------------------------------
(* The push worker: one event, or one tick, at a time, to its end.         *)
WorkerIdle == batch = {} /\ ack = None /\ Free(Worker)

StaleUpdate(p) == \E q \in pending : q.uri = p.uri /\ q.version > p.version

(* Variants: the first push of a window is the one that is sent; all are.  *)
SupersedeFirst(p) ==
    IF \E q \in pending : q.uri = p.uri THEN pending ELSE pending \cup {p}

SupersedeNone(p) == IF StaleUpdate(p) THEN pending ELSE pending \cup {p}

Supersede(p) ==
    IF StaleUpdate(p) THEN pending ELSE {q \in pending : q.uri # p.uri} \cup {p}

WorkerUpdate ==
    /\ WorkerIdle /\ events # <<>> /\ Head(events).update # None
    /\ events' = Tail(events)
    /\ LET p == Head(events).update IN
         /\ pending' = Supersede(p)
         /\ behind' = IF StaleUpdate(p) THEN behind \cup {<<p.uri, "reopened">>} ELSE behind
    /\ UNCHANGED <<editorVars, batch, ack, running, command, outVars, call, pushed, late>>

(* Variants: the flush is acknowledged first and leaves the pushes pending; *)
(* one that finds nothing to send is not acknowledged.                      *)
WorkerFlushLater ==
    /\ WorkerIdle /\ events # <<>> /\ Head(events).update = None
    /\ events' = Tail(events) /\ ack' = Head(events).by
    /\ UNCHANGED <<editorVars, pending, batch, running, command, outVars, callVars>>

WorkerFlushUnlessEmpty ==
    /\ WorkerIdle /\ events # <<>> /\ Head(events).update = None
    /\ events' = Tail(events)
    /\ batch' = {p \in pending : p.uri \in Head(events).uris}
    /\ pending' = pending \ batch'
    /\ ack' = IF batch' = {} THEN None ELSE Head(events).by
    /\ UNCHANGED <<editorVars, running, command, outVars, callVars>>

WorkerFlush ==
    /\ WorkerIdle /\ events # <<>> /\ Head(events).update = None
    /\ events' = Tail(events)
    /\ batch' = {p \in pending : p.uri \in Head(events).uris}
    /\ pending' = pending \ batch'
    /\ ack' = Head(events).by
    /\ UNCHANGED <<editorVars, running, command, outVars, callVars>>

WorkerTick ==
    /\ WorkerIdle /\ pending # {}
    /\ batch' \in SUBSET pending \ {{}}
    /\ pending' = pending \ batch'
    /\ UNCHANGED <<editorVars, events, ack, running, command, outVars, callVars>>

(* Requests.  Whoever makes one has read session_running just before; id is *)
(* the push's number, or 0.                                                *)
Request(c, type, uri, id, text) ==
    call' = [call EXCEPT ![c] =
        [type |-> type, uri |-> uri, id |-> id, text |-> text, reached |-> FALSE]]

(* send_document_push: dropped while the session is stopped. *)
WorkerSends ==
    /\ Free(Worker)
    /\ \E p \in batch :
         /\ batch' = batch \ {p}
         /\ IF running
              THEN Request(Worker, "push", p.uri, p.id, p.text) /\ UNCHANGED behind
              ELSE behind' = behind \cup {<<p.uri, "stopped">>} /\ UNCHANGED call
    /\ UNCHANGED <<editorVars, events, pending, ack, running, command, outVars, pushed, late>>

(* respond_to.send; nobody may be waiting any more. *)
WorkerAcks ==
    /\ batch = {} /\ Free(Worker) /\ ack # None
    /\ ack' = None
    /\ command' = IF command[ack].stage = "flushing"
                    THEN [command EXCEPT ![ack].stage = "working"] ELSE command
    /\ UNCHANGED <<editorVars, events, pending, batch, running, outVars, callVars>>

PushWorker == WorkerUpdate \/ WorkerFlush \/ WorkerTick \/ WorkerSends \/ WorkerAcks

-----------------------------------------------------------------------------
(* Commands, hover and didClose.                                           *)
Stages == {"unused", "beginning", "flushing", "asking", "clearing", "sweeping",
           "working", "done"}

Begin(c, kind, stage, uri) ==
    command' = [command EXCEPT ![c] = [@ EXCEPT !.kind = kind, !.stage = stage, !.uri = uri]]

Issue(c) ==
    /\ command[c].stage = "unused"
    /\ \/ /\ "start" \in Kinds /\ Begin(c, "start", "beginning", None)
          /\ running' = TRUE /\ UNCHANGED <<documents, late>>
       \/ /\ "stop" \in Kinds /\ Begin(c, "stop", "clearing", None)
          /\ running' = FALSE /\ late' = [d \in Actors |-> 0] /\ UNCHANGED documents
       \/ /\ "check" \in Kinds
          /\ \E u \in Uris \cup {None} : Begin(c, "check", "beginning", u)
          /\ UNCHANGED <<documents, running, late>>
       \/ /\ "hover" \in Kinds
          /\ \E u \in Uris : Begin(c, "hover", "asking", u)
          /\ UNCHANGED <<documents, running, late>>
       \/ /\ "close" \in Kinds
          /\ \E u \in {v \in Uris : Open(v)} :
               Begin(c, "close", "clearing", u) /\ documents' = [documents EXCEPT ![u] = None]
          /\ UNCHANGED <<running, late>>
    /\ UNCHANGED <<notes, workerVars, outVars, call, pushed, behind>>

(* Variant: the document is taken to be open. *)
SnapshotUnchecked(u) == documents[u]

(* What run_check will check: the named document, version 1 if it is not    *)
(* open, or all that are open.                                              *)
Snapshot(u) == IF Open(u) THEN documents[u] ELSE [version |-> 1, text |-> 0]

Chosen(c) == IF command[c].uri # None THEN {command[c].uri} ELSE {u \in Uris : Open(u)}

(* run_check_command: snapshot, then the flush event behind all updates. *)
BeginCheck(c) ==
    /\ command[c].stage = "beginning"
    /\ IF running
         THEN /\ command' = [command EXCEPT ![c] = [@ EXCEPT
                    !.stage = "flushing", !.serial = notes,
                    !.checks = {[uri |-> u, doc |-> Snapshot(u)] : u \in Chosen(c)}]]
              /\ events' = Append(events, [update |-> None, by |-> c,
                    uris |-> IF command[c].uri # None THEN {command[c].uri} ELSE Uris])
         ELSE command' = [command EXCEPT ![c] = Done] /\ UNCHANGED events
    /\ UNCHANGED <<editorVars, pending, batch, ack, running, outVars, callVars>>

(* Variant: the session flag is only read when the command begins. *)
CheckNextUnguarded(c) ==
    /\ command[c].stage = "working" /\ Free(c)
    /\ \E t \in command[c].checks :
         /\ Request(c, "check", t.uri, 0, t.doc.text)
         /\ command' = [command EXCEPT ![c].checks = @ \ {t}]
    /\ UNCHANGED <<editorVars, workerVars, running, outVars, pushed, late, behind>>

(* check_document: an error abandons the documents that are left. *)
CheckNext(c) ==
    /\ command[c].stage = "working" /\ Free(c)
    /\ \E t \in command[c].checks :
         IF running
           THEN /\ Request(c, "check", t.uri, 0, t.doc.text)
                /\ command' = [command EXCEPT ![c].checks = @ \ {t}]
           ELSE command' = [command EXCEPT ![c].checks = {}] /\ UNCHANGED call
    /\ UNCHANGED <<editorVars, workerVars, running, outVars, pushed, late, behind>>

Ask(c) ==
    /\ command[c].stage = "asking"
    /\ command' = [command EXCEPT ![c].stage = "working"]
    /\ IF running
         THEN Request(c, "markup", command[c].uri, 0, 0)
         ELSE UNCHANGED call
    /\ UNCHANGED <<editorVars, workerVars, running, outVars, pushed, late, behind>>

-----------------------------------------------------------------------------
(* Publications: to a document, with the diagnostics of an answer for      *)
(* "from", or none at all; on behalf of an answer for "about".             *)
Clears(us, about) == [to: us, from: {None}, about: {about}]

(* Somebody else still publishes on behalf of a source of us. *)
Overlap(c, us) ==
    {s \in us : \E d \in Actors \ {c} : \E p \in out[d] : p.about = s}

(* clear_diagnostics_for_uri and the first half of clear_diagnostics. *)
Clear(c) ==
    /\ command[c].stage = "clearing"
    /\ LET u == command[c].uri
           all == UNION {targets[s] : s \in Uris}
           sources == IF u = None THEN Uris ELSE {u}
       IN /\ targets' = [s \in Uris |-> IF s \in sources THEN {} ELSE targets[s]]
          /\ out' = [out EXCEPT ![c] = Clears(IF u = None THEN all ELSE targets[u] \cup {u}, u)]
          /\ disturbed' = disturbed \cup Overlap(c, sources)
    /\ command' = [command EXCEPT ![c].stage =
                     IF command[c].uri = None THEN "sweeping" ELSE "working"]
    /\ UNCHANGED <<editorVars, workerVars, running, shown, callVars>>

(* The second half: every open document. *)
Sweep(c) ==
    /\ command[c].stage = "sweeping" /\ Free(c)
    /\ out' = [out EXCEPT ![c] = Clears({u \in Uris : Open(u)}, None)]
    /\ command' = [command EXCEPT ![c].stage = "working"]
    /\ UNCHANGED <<editorVars, workerVars, running, targets, shown, disturbed, callVars>>

Publish(c) ==
    /\ \E p \in out[c] :
         /\ shown' = [shown EXCEPT ![p.to] = p.from]
         /\ out' = [out EXCEPT ![c] = @ \ {p}]
    /\ UNCHANGED <<editorVars, workerVars, running, command, targets, disturbed, callVars>>

Finish(c) ==
    /\ command[c].stage = "working" /\ Free(c) /\ command[c].checks = {}
    /\ command' = [command EXCEPT ![c] = Done]
    /\ UNCHANGED <<editorVars, workerVars, running, outVars, callVars>>

(* $/cancelRequest drops the handler's future at whatever await it stands. *)
Cancel(c) ==
    /\ command[c].stage \notin {"unused", "done"} /\ command[c].kind \in Cancellable
    /\ command' = [command EXCEPT ![c] = Done]
    /\ call' = [call EXCEPT ![c] = None]
    /\ out' = [out EXCEPT ![c] = {}]
    /\ disturbed' = disturbed \cup
         IF \E p \in out[c] : p.about = None THEN Uris ELSE {p.about : p \in out[c]}
    /\ UNCHANGED <<editorVars, workerVars, running, targets, shown, pushed, late, behind>>

-----------------------------------------------------------------------------
(* The remote call.  A retry that reaches the bridge a second time changes *)
(* nothing here.                                                           *)
Reach(c) ==
    /\ call[c] # None /\ ~call[c].reached
    /\ call' = [call EXCEPT ![c].reached = TRUE]
    /\ pushed' = IF call[c].type = "push"
                   THEN [pushed EXCEPT ![call[c].uri] = call[c].text] ELSE pushed
    /\ late' = IF running THEN late ELSE [late EXCEPT ![c] = @ + 1]
    /\ UNCHANGED <<editorVars, workerVars, running, command, outVars, behind>>

(* Variant: what the last answer reported elsewhere is not withdrawn. *)
SwapTargetsKeeps(c, u, report) ==
    /\ targets' = [targets EXCEPT ![u] = report \cup {u}]
    /\ out' = [out EXCEPT ![c] =
         [to: report, from: {u}, about: {u}] \cup Clears({u} \ report, u)]
    /\ disturbed' = disturbed \cup Overlap(c, {u})

(* publish_diagnostics_for: the answer's targets replace those of the last *)
(* one; targets that are no longer there, and the document itself if it    *)
(* has no diagnostics, are cleared.                                        *)
SwapTargets(c, u, report) ==
    /\ targets' = [targets EXCEPT ![u] = report \cup {u}]
    /\ out' = [out EXCEPT ![c] =
         [to: report, from: {u}, about: {u}]
         \cup Clears((targets[u] \cup {u}) \ report, u)]
    /\ disturbed' = disturbed \cup Overlap(c, {u})

Answered(c) ==
    /\ call[c] # None /\ call[c].reached
    /\ call' = [call EXCEPT ![c] = None]
    /\ IF call[c].type = "markup"
         THEN UNCHANGED <<targets, out, disturbed>>
         ELSE \E report \in Reports : SwapTargets(c, call[c].uri, report)
    /\ UNCHANGED <<editorVars, workerVars, running, command, shown, pushed, late, behind>>

(* An error, or an answer of the wrong type: logged; a push is not sent    *)
(* again.                                                                  *)
Failed(c) ==
    /\ call[c] # None
    /\ call' = [call EXCEPT ![c] = None]
    /\ IF c = Worker
         THEN behind' = behind \cup {<<call[c].uri, "failed">>} /\ UNCHANGED command
         ELSE command' = [command EXCEPT ![c].checks = {}] /\ UNCHANGED behind
    /\ UNCHANGED <<editorVars, workerVars, running, outVars, pushed, late>>

Handler(c) == BeginCheck(c) \/ CheckNext(c) \/ Ask(c) \/ Clear(c) \/ Sweep(c) \/ Finish(c)

Settle(c) == Answered(c) \/ Failed(c)

Quiet ==
    /\ events = <<>> /\ pending = {} /\ WorkerIdle
    /\ \A c \in Commands : command[c].stage \in {"unused", "done"}

Terminated ==
    /\ Quiet /\ notes = MaxNotes /\ \A c \in Commands : command[c].stage = "done"
    /\ UNCHANGED vars

Next ==
    \/ Notify \/ PushWorker \/ Terminated
    \/ \E c \in Commands : Issue(c) \/ Handler(c) \/ Cancel(c)
    \/ \E c \in Actors : Publish(c) \/ Reach(c) \/ Settle(c)

Spec == Init /\ [][Next]_vars

(* Fairness.  The worker's task and every handler's take the steps they can  *)
(* (tokio), the client socket takes publications, and a request comes to an  *)
(* end (RequestsFinish of BridgeTransport).  The editor owes nothing.  Every *)
(* step uses up a note, a handler or something they caused, so fairness of   *)
(* all of them together is enough.                                           *)
Progress ==
    \/ PushWorker
    \/ \E c \in Commands : Handler(c)
    \/ \E c \in Actors : Publish(c) \/ Settle(c)

FairSpec == Spec /\ WF_vars(Progress)

-----------------------------------------------------------------------------
(* Properties.                                                               *)
Events == [update: Push \cup {None}, uris: SUBSET Uris, by: Commands \cup {None}]

Checks == [uri: Uris, doc: Document]

Tasks == [kind: AllKinds \cup {None}, stage: Stages, uri: Uris \cup {None},
          checks: SUBSET Checks, serial: 0..MaxNotes]

Publications == [to: Uris, from: Uris \cup {None}, about: Uris \cup {None}]

TypeOK ==
    /\ documents \in [Uris -> Document \cup {None}]
    /\ notes \in 0..MaxNotes
    /\ events \in Seq(Events)
    /\ pending \subseteq Push /\ batch \subseteq Push
    /\ ack \in Commands \cup {None}
    /\ running \in BOOLEAN
    /\ command \in [Commands -> Tasks]
    /\ call \in [Actors -> Call \cup {None}]
    /\ out \in [Actors -> SUBSET Publications]
    /\ targets \in [Uris -> SUBSET Uris]
    /\ shown \in [Uris -> Uris \cup {None}]
    /\ pushed \in [Uris -> 0..MaxNotes]
    /\ late \in [Actors -> Nat]
    /\ behind \subseteq Uris \X {"reopened", "stopped", "failed"}
    /\ disturbed \subseteq Uris

(* What the worker still has to send. *)
Updates == {events[i].update : i \in DOMAIN events} \ {None}

Owed == Updates \cup pending \cup batch

(* flush_pushes waits for what it has to (main.rs 330-341, 421-449,          *)
(* 533-555): when a check is made, every push of its document that had been  *)
(* scheduled when the check's snapshot was taken has been sent and answered, *)
(* or dropped, or replaced; none of them is still queued or open.            *)
FlushCovers ==
    \A c \in Commands : command[c].stage = "working" =>
        \A t \in command[c].checks :
            /\ \A p \in Owed : p.uri = t.uri => p.id > command[c].serial
            /\ call[Worker] # None /\ call[Worker].uri = t.uri
                 => call[Worker].id > command[c].serial

(* The bridge sees the texts of a document in the order the editor wrote     *)
(* them, whatever mix of ticks and flushes sends them (main.rs 515-583):     *)
(* a text never comes back once a later one has been pushed.                 *)
PushOrder == [][\A u \in Uris : pushed'[u] >= pushed[u]]_vars

(* isabelle.stop_session, "subsequent push/check/hover are ignored"          *)
(* (isabelle-lsp/README.md 59): after a stop every task lets at most the one *)
(* request through that it had already decided on, the rest of a batch or of *)
(* a list of checks is dropped.                                              *)
StopIsPrompt == \A c \in Actors : late[c] <= 1

(* The table of published targets is enough to clean up after every answer:  *)
(* a document shows diagnostics of an answer for s only while the table      *)
(* lists it under s, or the publication that clears it is on its way.  Two   *)
(* publications for one document that overlap, or one that is cancelled,     *)
(* break this (main.rs 662-700); nothing else does.                          *)
NoOrphans ==
    \A t \in Uris : LET s == shown[t] IN
        s # None /\ s \notin disturbed =>
            t \in targets[s] \/ \E c \in Actors : \E p \in out[c] : p.to = t /\ p.from = None

(* The text the bridge has of an open document is the editor's, once the     *)
(* worker owes it no push, except after one of three losses: a push whose    *)
(* request failed, one that came up while the session was stopped, and the   *)
(* first text of a document that was opened again while a later version of   *)
(* its former self was pending (main.rs 519-532, 598-611).                   *)
Losses(u) == {b \in behind : b[1] = u}

TextArrives ==
    \A u \in Uris :
        /\ Open(u) /\ Losses(u) = {} /\ ~\E p \in Owed : p.uri = u
        /\ call[Worker] = None \/ call[Worker].uri # u
        => pushed[u] = documents[u].text

(* Every command ends, however the worker, the flush it waits for, a stop    *)
(* and failing requests interleave (main.rs 330-341, 554).                   *)
CommandsFinish ==
    \A c \in Commands : command[c].stage # "unused" ~> command[c].stage = "done"

(* Claims of the repository's texts that the code does not keep.             *)

(* isabelle-lsp/README.md 59, "stop session and clear diagnostics": once     *)
(* the command has run, and until a start, no diagnostics are shown.         *)
StopClears ==
    ~running /\ (\A c \in Commands : command[c].stage \in {"unused", "done"})
        => \A t \in Uris : shown[t] = None

(* CHANGELOG 0.2.3, "stop pauses push/check/hover; start resumes and         *)
(* triggers one check": no request having failed, a check that reaches the   *)
(* bridge comes after the text it is about.                                  *)
ResumedCheckIsCurrent ==
    \A c \in Commands :
        /\ call[c] # None /\ call[c].type = "check" /\ call[c].reached
        /\ Losses(call[c].uri) \subseteq {<<call[c].uri, "stopped">>}
        => pushed[call[c].uri] >= call[c].text

(* CHANGELOG 0.2.1, "diagnostics are published by each diagnostic uri        *)
(* (cross-file diagnostics preserved)": when all is quiet, a document that   *)
(* has had no answer of its own, such as an imported theory that is not      *)
(* open, shows diagnostics as long as the last answer for some other         *)
(* document has any for it.                                                  *)
CrossFilePreserved ==
    Quiet => \A s, t \in Uris : t \in targets[s] \ {s} /\ targets[t] = {} => shown[t] # None
=============================================================================
