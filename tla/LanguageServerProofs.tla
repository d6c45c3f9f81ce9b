------------------------- MODULE LanguageServerProofs -------------------------
(***************************************************************************)
(* What holds of the language server for every set of documents and        *)
(* handlers, whatever of them the editor may cancel, whatever the bridge   *)
(* answers and however many notifications come.                            *)
(***************************************************************************)
EXTENDS LanguageServer, SequenceTheorems, TLAPS

-----------------------------------------------------------------------------
(* Where each handler stands, and what it may have open there. *)
Standing(c) ==
    /\ command[c].stage \notin {"sweeping", "working"} => Free(c)
    /\ command[c].stage \notin {"flushing", "working"} => command[c].checks = {}
    /\ command[c].stage = "asking" => command[c].uri \in Uris
    /\ command[c].serial <= notes

Handlers ==
    /\ \A c \in Commands : Standing(c)
    /\ \A c \in Actors : call[c] # None => out[c] = {} /\ (call[c].type = "push" <=> c = Worker)

(* The way of a text to the bridge: events, pending, batch, the worker's     *)
(* request.                                                                  *)
Scheduled == pending \cup batch

InOrder(p, q) == p.uri = q.uri => p.text <= q.text

InWork == Owed \cup ({call[Worker]} \ {None})

Texts ==
    /\ \A u \in Uris :
         /\ pushed[u] <= notes
         /\ Open(u) => pushed[u] <= documents[u].text /\ documents[u].text <= notes
    /\ \A p \in InWork :
         /\ p.text <= notes /\ p.id <= notes /\ pushed[p.uri] <= p.text
         /\ Open(p.uri) => p.text <= documents[p.uri].text

OnePush == \A p, q \in Scheduled : p.uri = q.uri => p = q

Pipeline ==
    /\ \A i, j \in DOMAIN events :
         i < j /\ events[i].update # None /\ events[j].update # None
            => InOrder(events[i].update, events[j].update)
    /\ \A p \in Scheduled, q \in Updates : InOrder(p, q)
    /\ call[Worker] # None => \A p \in Owed : InOrder(call[Worker], p)

Arriving ==
    /\ call[Worker] # None /\ call[Worker].reached => pushed[call[Worker].uri] = call[Worker].text
    /\ \A u \in Uris : Open(u) /\ Losses(u) = {} =>
         \/ pushed[u] = documents[u].text
         \/ \E p \in InWork :
               p.uri = u /\ p.text = documents[u].text

Way == Texts /\ OnePush /\ Pipeline /\ Arriving

(* A flush event stands behind every push its check must wait for. *)
Behind(c, i) ==
    command[c].stage = "flushing" =>
        /\ \A t \in command[c].checks : t.uri \in events[i].uris
        /\ \A j \in DOMAIN events : j > i /\ events[j].update # None
             => events[j].update.id > command[c].serial

Flushing ==
    /\ \A i \in DOMAIN events : events[i].update = None =>
         LET c == events[i].by IN
           /\ c \in Commands /\ c # ack /\ command[c].stage \in {"flushing", "done"}
           /\ Behind(c, i)
    /\ \A i, j \in DOMAIN events :
         events[i].update = None /\ events[j].update = None /\ events[i].by = events[j].by => i = j
    /\ ack # None =>
         /\ command[ack].stage \in {"flushing", "done"}
         /\ command[ack].stage = "flushing" =>
              \A t \in command[ack].checks : \A p \in Updates \cup pending :
                 p.uri = t.uri => p.id > command[ack].serial

(* What a task may still let through. *)
Decided(c) == IF call[c] # None /\ ~call[c].reached THEN 1 ELSE 0

Stopping == \A c \in Actors : late[c] <= 1 /\ (~running => late[c] + Decided(c) <= 1)

(* Publications. *)
Listed ==
    \A c \in Actors : \A p \in out[c] : p.from # None =>
        p.about = p.from /\ (p.from \notin disturbed => p.to \in targets[p.from])

Covered(t, s) ==
    t \in targets[s] \/ \E c \in Actors : \E p \in out[c] :
        p.to = t /\ p.from = None /\ p.about \in {s, None}

Shown == \A t \in Uris : shown[t] # None /\ shown[t] \notin disturbed => Covered(t, shown[t])

-----------------------------------------------------------------------------
(* What a field of one handler's record becomes, the others staying.        *)
LEMMA CommandChanges ==
    ASSUME TypeOK, NEW c \in Commands, NEW task \in Tasks,
           command' = [command EXCEPT ![c] = task]
    PROVE  /\ command' \in [Commands -> Tasks]
           /\ command'[c] = task
           /\ \A d \in Commands \ {c} : command'[d] = command[d]
BY DEF TypeOK

LEMMA CommandTyped ==
    ASSUME TypeOK, NEW c \in Commands
    PROVE  /\ command[c] \in Tasks
           /\ command[c] = [kind |-> command[c].kind, stage |-> command[c].stage,
                            uri |-> command[c].uri, checks |-> command[c].checks,
                            serial |-> command[c].serial]
           /\ command[c].kind \in AllKinds \cup {None} /\ command[c].stage \in Stages
           /\ command[c].uri \in Uris \cup {None} /\ command[c].checks \subseteq Checks
           /\ command[c].serial \in 0..MaxNotes
BY DEF TypeOK, Tasks

LEMMA StageChanges ==
    ASSUME TypeOK, NEW c \in Commands, NEW stage \in Stages,
           command' = [command EXCEPT ![c].stage = stage]
    PROVE  /\ command' \in [Commands -> Tasks]
           /\ command'[c].stage = stage /\ command'[c].uri = command[c].uri
           /\ command'[c].checks = command[c].checks /\ command'[c].serial = command[c].serial
           /\ \A d \in Commands \ {c} : command'[d] = command[d]
<1> DEFINE task == [command[c] EXCEPT !.stage = stage]
<1>1. command[c] \in Tasks
  BY DEF TypeOK
<1>2. /\ task \in Tasks /\ task.stage = stage /\ task.uri = command[c].uri
      /\ task.checks = command[c].checks /\ task.serial = command[c].serial
  BY <1>1 DEF Tasks
<1>3. command' = [command EXCEPT ![c] = task]
  OBVIOUS
<1> HIDE DEF task
<1> QED BY <1>2, <1>3, CommandChanges

LEMMA ChecksChange ==
    ASSUME TypeOK, NEW c \in Commands, NEW checks \in SUBSET Checks,
           command' = [command EXCEPT ![c].checks = checks]
    PROVE  /\ command' \in [Commands -> Tasks]
           /\ command'[c].stage = command[c].stage /\ command'[c].uri = command[c].uri
           /\ command'[c].checks = checks /\ command'[c].serial = command[c].serial
           /\ \A d \in Commands \ {c} : command'[d] = command[d]
<1> DEFINE task == [command[c] EXCEPT !.checks = checks]
<1>1. command[c] \in Tasks
  BY DEF TypeOK
<1>2. /\ task \in Tasks /\ task.stage = command[c].stage /\ task.uri = command[c].uri
      /\ task.checks = checks /\ task.serial = command[c].serial
  BY <1>1 DEF Tasks
<1>3. command' = [command EXCEPT ![c] = task]
  OBVIOUS
<1> HIDE DEF task
<1> QED BY <1>2, <1>3, CommandChanges

LEMMA DoneTyped ==
    /\ Unused \in Tasks /\ Unused.stage = "unused"
    /\ Done \in Tasks /\ Done.stage = "done" /\ Done.checks = {} /\ Done.uri = None
    /\ Done.serial = 0 /\ Unused.checks = {}
BY ServerAssumption DEF Unused, Done, Tasks, Stages

LEMMA CallMade ==
    ASSUME TypeOK, NEW c \in Actors, NEW k \in Call, call' = [call EXCEPT ![c] = k]
    PROVE  /\ call' \in [Actors -> Call \cup {None}]
           /\ call'[c] = k /\ k # None
           /\ \A d \in Actors \ {c} : call'[d] = call[d]
BY NoneAssumption DEF TypeOK

LEMMA PushMade ==
    ASSUME TypeOK, NEW p \in Push, Request(Worker, "push", p.uri, p.id, p.text)
    PROVE  /\ call' \in [Actors -> Call \cup {None}]
           /\ call'[Worker] # None /\ call'[Worker].type = "push"
           /\ call'[Worker].uri = p.uri /\ call'[Worker].id = p.id
           /\ call'[Worker].text = p.text /\ call'[Worker].reached = FALSE
           /\ \A d \in Actors \ {Worker} : call'[d] = call[d]
<1> DEFINE k == [type |-> "push", uri |-> p.uri, id |-> p.id, text |-> p.text,
                 reached |-> FALSE]
<1>1. /\ k \in Call /\ k.type = "push" /\ k.uri = p.uri /\ k.id = p.id /\ k.text = p.text
      /\ k.reached = FALSE
  BY DEF Push, Call
<1>2. Worker \in Actors /\ call' = [call EXCEPT ![Worker] = k]
  BY DEF Actors, Request
<1> HIDE DEF k
<1> QED BY <1>1, <1>2, CallMade

LEMMA EventAppended ==
    ASSUME TypeOK, NEW e \in Events, events' = Append(events, e), NEW n, n = Len(events) + 1
    PROVE  /\ events' \in Seq(Events) /\ DOMAIN events' = DOMAIN events \cup {n}
           /\ DOMAIN events \subseteq Nat /\ n \in Nat
           /\ events'[n] = e /\ \A i \in DOMAIN events : i < n /\ events'[i] = events[i]
           /\ Updates' = Updates \cup ({e.update} \ {None})
<1>1. events \in Seq(Events)
  BY DEF TypeOK
<1>2. /\ events' \in Seq(Events) /\ DOMAIN events' = DOMAIN events \cup {n}
      /\ DOMAIN events \subseteq Nat /\ n \in Nat
      /\ events'[n] = e /\ \A i \in DOMAIN events : i < n /\ events'[i] = events[i]
  BY <1>1
<1>3. Updates' = Updates \cup ({e.update} \ {None})
  BY <1>2 DEF Updates
<1> QED BY <1>2, <1>3

LEMMA EventTaken ==
    ASSUME TypeOK, events # <<>>, events' = Tail(events)
    PROVE  /\ events' \in Seq(Events) /\ Head(events) = events[1] /\ 1 \in DOMAIN events
           /\ Head(events) \in Events /\ DOMAIN events \subseteq Nat /\ DOMAIN events' \subseteq Nat
           /\ \A i \in DOMAIN events' : i + 1 \in DOMAIN events /\ events'[i] = events[i + 1]
           /\ Updates' \subseteq Updates
           /\ Updates = Updates' \cup ({Head(events).update} \ {None})
           /\ \A i \in DOMAIN events : i >= 1
<1>1. events \in Seq(Events)
  BY DEF TypeOK
<1>2. /\ events' \in Seq(Events) /\ Head(events) = events[1] /\ 1 \in DOMAIN events
      /\ Head(events) \in Events /\ DOMAIN events \subseteq Nat /\ DOMAIN events' \subseteq Nat
      /\ \A i \in DOMAIN events' : i + 1 \in DOMAIN events /\ events'[i] = events[i + 1]
      /\ \A i \in DOMAIN events : i >= 1
  BY <1>1
<1>3. \A i \in DOMAIN events : i # 1 => i - 1 \in DOMAIN events' /\ events'[i - 1] = events[i]
  BY <1>1
<1>4. Updates' \subseteq Updates
  BY <1>2 DEF Updates
<1>5. Updates \subseteq Updates' \cup ({Head(events).update} \ {None})
  <2> SUFFICES ASSUME NEW i \in DOMAIN events, events[i].update # None
               PROVE  events[i].update \in Updates' \cup ({Head(events).update} \ {None})
    BY DEF Updates
  <2>1. CASE i = 1
    BY <1>2, <2>1
  <2>2. CASE i # 1
    <3>1. i - 1 \in DOMAIN events' /\ events'[i - 1].update = events[i].update
      BY <1>3, <2>2
    <3> QED BY <3>1 DEF Updates
  <2> QED BY <2>1, <2>2
<1>6. Head(events).update # None => Head(events).update \in Updates
  BY <1>2 DEF Updates
<1> QED BY <1>2, <1>4, <1>5, <1>6

(* The updates that are queued are pushes. *)
LEMMA UpdatesTyped ==
    ASSUME TypeOK
    PROVE  /\ Updates \subseteq Push /\ Owed \subseteq Push /\ None \notin Push
           /\ \A i \in DOMAIN events : events[i] \in Events /\ events[i].update \in Push \cup {None}
                                       /\ events[i].uris \subseteq Uris
                                       /\ events[i].by \in Commands \cup {None}
<1>1. \A i \in DOMAIN events : events[i] \in Events
  BY DEF TypeOK
<1>2. \A i \in DOMAIN events :
        /\ events[i].update \in Push \cup {None} /\ events[i].uris \subseteq Uris
        /\ events[i].by \in Commands \cup {None}
  BY <1>1 DEF Events
<1>3. Updates \subseteq Push
  BY <1>2 DEF Updates
<1> QED BY <1>1, <1>2, <1>3, NoneAssumption DEF Owed, TypeOK

-----------------------------------------------------------------------------
(* Each action keeps the types. *)

(* The push p became the last event, number n. *)
Queued(p, n) ==
    /\ p # None /\ p.id = notes + 1
    /\ DOMAIN events' = DOMAIN events \cup {n} /\ DOMAIN events \subseteq Nat
    /\ events'[n].update = p
    /\ \A i \in DOMAIN events : i < n /\ events'[i] = events[i]
    /\ Updates' = Updates \cup {p}

LEMMA ScheduleTypes ==
    ASSUME TypeOK, notes < MaxNotes, NEW u \in Uris, NEW version \in Nat,
           NEW text \in Nat, Schedule(u, version, text)
    PROVE  /\ TypeOK'
           /\ documents'[u] # None /\ documents'[u].text = text
           /\ \A v \in Uris \ {u} : documents'[v] = documents[v]
           /\ \E p \in Push, n \in Nat : Queued(p, n) /\ p.uri = u /\ p.text = text
<1> DEFINE p == [id |-> notes + 1, uri |-> u, version |-> version, text |-> text]
           e == [update |-> p, uris |-> {}, by |-> None]
           d == [version |-> version, text |-> text]
           n == Len(events) + 1
<1>1. /\ p \in Push /\ p # None
      /\ p.id = notes + 1 /\ p.uri = u /\ p.text = text
  <2>1. p \in Push /\ p.id = notes + 1 /\ p.uri = u /\ p.text = text
    BY DEF TypeOK, Push
  <2> HIDE DEF p
  <2> QED BY <2>1, NoneAssumption
<1> HIDE DEF p
<1>2. e \in Events /\ e.update = p
  BY <1>1 DEF Events
<1>3. d \in Document /\ d # None /\ d.text = text
  <2>1. d \in Document /\ d.text = text
    BY DEF Document
  <2> HIDE DEF d
  <2> QED BY <2>1, NoneAssumption
<1>4. events' = Append(events, e) /\ documents' = [documents EXCEPT ![u] = d]
  BY DEF Schedule, p
<1> HIDE DEF e, d
<1>5. /\ events' \in Seq(Events) /\ DOMAIN events' = DOMAIN events \cup {n}
      /\ DOMAIN events \subseteq Nat /\ n \in Nat
      /\ events'[n] = e /\ \A i \in DOMAIN events : i < n /\ events'[i] = events[i]
      /\ Updates' = Updates \cup {p}
  <2> HIDE DEF n
  <2>1. n = Len(events) + 1
    BY DEF n
  <2>2. /\ events' \in Seq(Events) /\ DOMAIN events' = DOMAIN events \cup {n}
        /\ DOMAIN events \subseteq Nat /\ n \in Nat
        /\ events'[n] = e /\ \A i \in DOMAIN events : i < n /\ events'[i] = events[i]
        /\ Updates' = Updates \cup ({e.update} \ {None})
    BY <1>2, <1>4, <2>1, EventAppended
  <2>3. {e.update} \ {None} = {p}
    BY <1>1, <1>2
  <2> QED BY <2>2, <2>3
<1> HIDE DEF n
<1>6. /\ documents' \in [Uris -> Document \cup {None}] /\ documents'[u] = d
      /\ \A v \in Uris \ {u} : documents'[v] = documents[v]
  BY <1>3, <1>4 DEF TypeOK
<1>7. notes' \in 0..MaxNotes
  BY ServerAssumption DEF Schedule, TypeOK
<1>8. TypeOK'
  BY <1>5, <1>6, <1>7 DEF TypeOK, Schedule, outVars, callVars
<1>9. Queued(p, n)
  BY <1>1, <1>2, <1>5 DEF Queued
<1> QED BY <1>1, <1>3, <1>5, <1>6, <1>8, <1>9

LEMMA NotifySchedules ==
    ASSUME TypeOK, Texts, Notify
    PROVE  /\ notes < MaxNotes
           /\ \E u \in Uris, version \in Nat, text \in Nat :
                /\ Schedule(u, version, text)
                /\ text = notes + 1 \/ (Open(u) /\ text = documents[u].text)
<1>1. notes < MaxNotes /\ notes + 1 \in Nat
  BY DEF Notify, TypeOK
<1>2. \A u \in Uris : Open(u) => documents[u].version \in Nat /\ documents[u].text \in Nat
  BY DEF TypeOK, Open, Document
<1>3. PICK u \in Uris : DidOpen(u) \/ DidChange(u) \/ DidSave(u)
  BY DEF Notify
<1>4. CASE DidOpen(u)
  BY <1>1, <1>4, ServerAssumption DEF DidOpen
<1>5. CASE DidChange(u)
  BY <1>1, <1>2, <1>5 DEF DidChange
<1>6. CASE DidSave(u)
  BY <1>1, <1>2, <1>6 DEF DidSave
<1> QED BY <1>3, <1>4, <1>5, <1>6

LEMMA UpdateTypes ==
    ASSUME TypeOK, WorkerUpdate
    PROVE  TypeOK' /\ Head(events).update \in Push
<1>1. events' \in Seq(Events) /\ Head(events) \in Events
  BY EventTaken DEF WorkerUpdate
<1>2. Head(events).update \in Push
  BY <1>1 DEF Events, WorkerUpdate
<1>3. Head(events).update.uri \in Uris
  BY <1>2 DEF Push
<1>4. pending' \subseteq Push
  BY <1>2 DEF WorkerUpdate, Supersede, TypeOK
<1>5. behind' \subseteq Uris \X {"reopened", "stopped", "failed"}
  BY <1>3 DEF WorkerUpdate, TypeOK
<1> QED BY <1>1, <1>2, <1>4, <1>5 DEF TypeOK, WorkerUpdate, editorVars, outVars

LEMMA FlushTypes ==
    ASSUME TypeOK, WorkerFlush
    PROVE  TypeOK'
<1>1. events' \in Seq(Events) /\ Head(events) \in Events
  BY EventTaken DEF WorkerFlush
<1>2. Head(events).by \in Commands \cup {None}
  BY <1>1 DEF Events
<1> QED BY <1>1, <1>2 DEF TypeOK, WorkerFlush, editorVars, outVars, callVars

LEMMA TickTypes ==
    ASSUME TypeOK, WorkerTick
    PROVE  TypeOK'
BY DEF TypeOK, WorkerTick, editorVars, outVars, callVars

LEMMA SendsTypes ==
    ASSUME TypeOK, WorkerSends
    PROVE  TypeOK'
<1>1. PICK p \in batch :
         /\ batch' = batch \ {p}
         /\ IF running
              THEN Request(Worker, "push", p.uri, p.id, p.text) /\ UNCHANGED behind
              ELSE behind' = behind \cup {<<p.uri, "stopped">>} /\ UNCHANGED call
  BY DEF WorkerSends
<1>2. p \in Push /\ p.uri \in Uris
  BY DEF TypeOK, Push
<1>3. call' \in [Actors -> Call \cup {None}]
  <2>1. CASE running
    BY <1>1, <1>2, <2>1, PushMade
  <2>2. CASE ~running
    BY <1>1, <2>2 DEF TypeOK
  <2> QED BY <2>1, <2>2
<1>4. behind' \subseteq Uris \X {"reopened", "stopped", "failed"}
  BY <1>1, <1>2 DEF TypeOK
<1> QED BY <1>1, <1>3, <1>4 DEF TypeOK, WorkerSends, editorVars, outVars

LEMMA AcksTypes ==
    ASSUME TypeOK, WorkerAcks
    PROVE  TypeOK'
<1>1. ack \in Commands
  BY DEF WorkerAcks, TypeOK
<1>2. command' \in [Commands -> Tasks]
  <2>1. CASE command[ack].stage = "flushing"
    BY <1>1, <2>1, StageChanges DEF WorkerAcks, Stages
  <2>2. CASE command[ack].stage # "flushing"
    BY <2>2 DEF WorkerAcks, TypeOK
  <2> QED BY <2>1, <2>2
<1> QED BY <1>2 DEF TypeOK, WorkerAcks, editorVars, outVars, callVars

LEMMA BeginTyped ==
    ASSUME TypeOK, NEW c \in Commands, NEW kind \in AllKinds, NEW stage \in Stages,
           NEW uri \in Uris \cup {None}, Begin(c, kind, stage, uri)
    PROVE  /\ command' \in [Commands -> Tasks]
           /\ command'[c].stage = stage /\ command'[c].uri = uri
           /\ command'[c].checks = command[c].checks /\ command'[c].serial = command[c].serial
           /\ \A d \in Commands \ {c} : command'[d] = command[d]
<1> DEFINE task == [command[c] EXCEPT !.kind = kind, !.stage = stage, !.uri = uri]
<1>1. task \in Tasks /\ task.stage = stage /\ task.uri = uri
      /\ task.checks = command[c].checks /\ task.serial = command[c].serial
  BY CommandTyped DEF Tasks
<1>2. command' = [command EXCEPT ![c] = task]
  BY DEF Begin
<1> HIDE DEF task
<1>3. command' \in [Commands -> Tasks] /\ command'[c] = task
      /\ \A d \in Commands \ {c} : command'[d] = command[d]
  BY <1>1, <1>2 DEF TypeOK
<1> QED BY <1>1, <1>3

(* What issuing a command does, whatever is asked for. *)
LEMMA IssueTypes ==
    ASSUME TypeOK, NEW c \in Commands, Issue(c)
    PROVE  /\ TypeOK'
           /\ command'[c].stage \in {"beginning", "clearing", "asking"}
           /\ command'[c].stage = "asking" => command'[c].uri \in Uris
           /\ command'[c].checks = command[c].checks /\ command'[c].serial = command[c].serial
           /\ \A d \in Commands \ {c} : command'[d] = command[d]
           /\ \A u \in Uris : documents'[u] = documents[u] \/ documents'[u] = None
           /\ late' = late \/ \A d \in Actors : late'[d] = 0
           /\ ~running' => ((~running /\ late' = late) \/ \A d \in Actors : late'[d] = 0)
<1>1. CASE Begin(c, "start", "beginning", None) /\ running' = TRUE /\ UNCHANGED <<documents, late>>
  <2>1. /\ command' \in [Commands -> Tasks] /\ command'[c].stage = "beginning"
        /\ command'[c].checks = command[c].checks /\ command'[c].serial = command[c].serial
        /\ \A d \in Commands \ {c} : command'[d] = command[d]
    BY <1>1, BeginTyped DEF AllKinds, Stages
  <2> QED BY <1>1, <2>1 DEF TypeOK, Issue, workerVars, outVars
<1>2. CASE /\ Begin(c, "stop", "clearing", None)
           /\ running' = FALSE /\ late' = [d \in Actors |-> 0] /\ UNCHANGED documents
  <2>1. /\ command' \in [Commands -> Tasks] /\ command'[c].stage = "clearing"
        /\ command'[c].checks = command[c].checks /\ command'[c].serial = command[c].serial
        /\ \A d \in Commands \ {c} : command'[d] = command[d]
    BY <1>2, BeginTyped DEF AllKinds, Stages
  <2>2. late' \in [Actors -> Nat] /\ running' \in BOOLEAN /\ \A d \in Actors : late'[d] = 0
    BY <1>2
  <2>3. TypeOK'
    BY <1>2, <2>1, <2>2 DEF TypeOK, Issue, workerVars, outVars
  <2> QED BY <1>2, <2>1, <2>2, <2>3
<1>3. CASE /\ \E u \in Uris \cup {None} : Begin(c, "check", "beginning", u)
           /\ UNCHANGED <<documents, running, late>>
  <2>1. /\ command' \in [Commands -> Tasks] /\ command'[c].stage = "beginning"
        /\ command'[c].checks = command[c].checks /\ command'[c].serial = command[c].serial
        /\ \A d \in Commands \ {c} : command'[d] = command[d]
    BY <1>3, BeginTyped DEF AllKinds, Stages
  <2> QED BY <1>3, <2>1 DEF TypeOK, Issue, workerVars, outVars
<1>4. CASE /\ \E u \in Uris : Begin(c, "hover", "asking", u)
           /\ UNCHANGED <<documents, running, late>>
  <2>1. /\ command' \in [Commands -> Tasks] /\ command'[c].stage = "asking"
        /\ command'[c].uri \in Uris
        /\ command'[c].checks = command[c].checks /\ command'[c].serial = command[c].serial
        /\ \A d \in Commands \ {c} : command'[d] = command[d]
    BY <1>4, BeginTyped DEF AllKinds, Stages
  <2> QED BY <1>4, <2>1 DEF TypeOK, Issue, workerVars, outVars
<1>5. CASE /\ \E u \in {v \in Uris : Open(v)} :
                Begin(c, "close", "clearing", u) /\ documents' = [documents EXCEPT ![u] = None]
           /\ UNCHANGED <<running, late>>
  <2>1. /\ command' \in [Commands -> Tasks] /\ command'[c].stage = "clearing"
        /\ command'[c].checks = command[c].checks /\ command'[c].serial = command[c].serial
        /\ \A d \in Commands \ {c} : command'[d] = command[d]
    BY <1>5, BeginTyped DEF AllKinds, Stages
  <2>2. /\ documents' \in [Uris -> Document \cup {None}]
        /\ \A u \in Uris : documents'[u] = documents[u] \/ documents'[u] = None
    BY <1>5 DEF TypeOK
  <2> QED BY <1>5, <2>1, <2>2 DEF TypeOK, Issue, workerVars, outVars
<1> QED BY <1>1, <1>2, <1>3, <1>4, <1>5 DEF Issue

(* The flush of c became the last event, number n. *)
Asked(c, n) ==
    /\ DOMAIN events' = DOMAIN events \cup {n} /\ DOMAIN events \subseteq Nat
    /\ \A i \in DOMAIN events : i < n /\ events'[i] = events[i]
    /\ events'[n].update = None /\ events'[n].by = c
    /\ \A t \in command'[c].checks : t.uri \in events'[n].uris
    /\ Updates' = Updates

LEMMA BeginCheckRuns ==
    ASSUME TypeOK, NEW c \in Commands, BeginCheck(c), running
    PROVE  /\ TypeOK'
           /\ command'[c].stage = "flushing" /\ command'[c].serial = notes
           /\ \A d \in Commands \ {c} : command'[d] = command[d]
           /\ \E n \in Nat : Asked(c, n)
<1> DEFINE task == [command[c] EXCEPT !.stage = "flushing", !.serial = notes,
                      !.checks = {[uri |-> u, doc |-> Snapshot(u)] : u \in Chosen(c)}]
           us == IF command[c].uri # None THEN {command[c].uri} ELSE Uris
           e == [update |-> None, by |-> c, uris |-> us]
           checks == {[uri |-> u, doc |-> Snapshot(u)] : u \in Chosen(c)}
           n == Len(events) + 1
<1>1. /\ command[c].uri \in Uris \cup {None} /\ notes \in 0..MaxNotes
  BY CommandTyped DEF TypeOK
<1>2. us \subseteq Uris /\ Chosen(c) \subseteq us
  BY <1>1 DEF Chosen
<1>3. \A u \in Uris : Snapshot(u) \in Document
  BY DEF Snapshot, Open, TypeOK, Document
<1>4. checks \subseteq Checks /\ \A t \in checks : t.uri \in us
  BY <1>2, <1>3 DEF Checks
<1>5. command' = [command EXCEPT ![c] = task] /\ events' = Append(events, e)
  BY DEF BeginCheck
<1>6. e \in Events /\ e.update = None /\ e.by = c /\ e.uris = us
  <2> HIDE DEF us
  <2> QED BY <1>2 DEF Events
<1>7. task \in Tasks /\ task.stage = "flushing" /\ task.serial = notes /\ task.checks = checks
  <2>1. task = [command[c] EXCEPT !.stage = "flushing", !.serial = notes, !.checks = checks]
    OBVIOUS
  <2> HIDE DEF task, checks
  <2> QED BY <1>1, <1>4, <2>1, CommandTyped DEF Tasks, Stages
<1> HIDE DEF task, e, us, checks
<1>8. /\ command' \in [Commands -> Tasks] /\ command'[c] = task
      /\ \A d \in Commands \ {c} : command'[d] = command[d]
  BY <1>5, <1>7 DEF TypeOK
<1>9. /\ events' \in Seq(Events) /\ DOMAIN events' = DOMAIN events \cup {n}
      /\ DOMAIN events \subseteq Nat /\ n \in Nat
      /\ events'[n] = e /\ \A i \in DOMAIN events : i < n /\ events'[i] = events[i]
      /\ Updates' = Updates
  <2> HIDE DEF n
  <2>0. n = Len(events) + 1
    BY DEF n
  <2>1. /\ events' \in Seq(Events) /\ DOMAIN events' = DOMAIN events \cup {n}
        /\ DOMAIN events \subseteq Nat /\ n \in Nat
        /\ events'[n] = e /\ \A i \in DOMAIN events : i < n /\ events'[i] = events[i]
        /\ Updates' = Updates \cup ({e.update} \ {None})
    BY <1>5, <1>6, <2>0, EventAppended
  <2>2. Updates' = Updates
    BY <1>6, <2>1
  <2> QED BY <2>1, <2>2
<1>10. TypeOK'
  BY <1>8, <1>9 DEF TypeOK, BeginCheck, editorVars, outVars, callVars
<1> HIDE DEF n
<1>11. Asked(c, n)
  BY <1>4, <1>6, <1>7, <1>8, <1>9 DEF Asked
<1> QED BY <1>7, <1>8, <1>9, <1>10, <1>11

LEMMA BecomesDone ==
    ASSUME TypeOK, NEW c \in Commands, command' = [command EXCEPT ![c] = Done]
    PROVE  /\ command' \in [Commands -> Tasks]
           /\ command'[c].stage = "done" /\ command'[c].checks = {} /\ command'[c].serial = 0
           /\ \A d \in Commands \ {c} : command'[d] = command[d]
BY DoneTyped DEF TypeOK

LEMMA BeginCheckStopped ==
    ASSUME TypeOK, NEW c \in Commands, BeginCheck(c), ~running
    PROVE  /\ TypeOK'
           /\ command'[c].stage = "done" /\ command'[c].checks = {} /\ command'[c].serial = 0
           /\ \A d \in Commands \ {c} : command'[d] = command[d]
           /\ UNCHANGED events
<1>1. command' = [command EXCEPT ![c] = Done] /\ UNCHANGED events
  BY DEF BeginCheck
<1> QED BY <1>1, BecomesDone DEF TypeOK, BeginCheck, editorVars, outVars, callVars

LEMMA CheckNextDoes ==
    ASSUME TypeOK, NEW c \in Commands, CheckNext(c)
    PROVE  /\ TypeOK'
           /\ command'[c].stage = "working" /\ command'[c].serial = command[c].serial
           /\ command'[c].checks \subseteq command[c].checks
           /\ \A d \in Commands \ {c} : command'[d] = command[d]
           /\ UNCHANGED call \/ (running /\ call'[c] # None /\ call'[c].type = "check"
                                 /\ ~call'[c].reached)
           /\ \A d \in Actors \ {c} : call'[d] = call[d]
<1>1. PICK t \in command[c].checks :
        IF running
          THEN /\ Request(c, "check", t.uri, 0, t.doc.text)
               /\ command' = [command EXCEPT ![c].checks = @ \ {t}]
          ELSE command' = [command EXCEPT ![c].checks = {}] /\ UNCHANGED call
  BY DEF CheckNext
<1>2. t.uri \in Uris /\ t.doc.text \in Nat /\ command[c].checks \subseteq Checks
  <2>1. command[c].checks \subseteq Checks
    BY CommandTyped
  <2> QED BY <2>1 DEF Checks, Document
<1>3. PICK checks \in SUBSET command[c].checks :
        command' = [command EXCEPT ![c].checks = checks]
  <2>1. command[c].checks \ {t} \in SUBSET command[c].checks
    OBVIOUS
  <2>2. {} \in SUBSET command[c].checks
    OBVIOUS
  <2> QED BY <1>1, <2>1, <2>2
<1>4. /\ command' \in [Commands -> Tasks]
      /\ command'[c].stage = "working" /\ command'[c].serial = command[c].serial
      /\ command'[c].checks \subseteq command[c].checks
      /\ \A d \in Commands \ {c} : command'[d] = command[d]
  <2>1. checks \in SUBSET Checks
    BY <1>2
  <2>2. /\ command' \in [Commands -> Tasks]
        /\ command'[c].stage = command[c].stage /\ command'[c].checks = checks
        /\ command'[c].serial = command[c].serial
        /\ \A d \in Commands \ {c} : command'[d] = command[d]
    BY ONLY TypeOK, c \in Commands, <1>3, <2>1, ChecksChange
  <2>3. command[c].stage = "working" /\ checks \subseteq command[c].checks
    BY DEF CheckNext
  <2> QED BY <2>2, <2>3
<1>5. /\ call' \in [Actors -> Call \cup {None}]
      /\ UNCHANGED call \/ (running /\ call'[c] # None /\ call'[c].type = "check"
                            /\ ~call'[c].reached)
      /\ \A d \in Actors \ {c} : call'[d] = call[d]
  <2>1. CASE running
    <3> DEFINE k == [type |-> "check", uri |-> t.uri, id |-> 0, text |-> t.doc.text,
                     reached |-> FALSE]
    <3>1. k \in Call /\ k.type = "check" /\ ~k.reached
      BY <1>2 DEF Call
    <3>2. c \in Actors /\ call' = [call EXCEPT ![c] = k]
      BY <1>1, <2>1 DEF Actors, Request
    <3> HIDE DEF k
    <3> QED BY <2>1, <3>1, <3>2, CallMade
  <2>2. CASE ~running
    BY <1>1, <2>2 DEF TypeOK
  <2> QED BY <2>1, <2>2
<1>6. TypeOK'
  BY <1>4, <1>5 DEF TypeOK, CheckNext, editorVars, workerVars, outVars
<1> QED BY <1>4, <1>5, <1>6

LEMMA AskDoes ==
    ASSUME TypeOK, Handlers, NEW c \in Commands, Ask(c)
    PROVE  /\ TypeOK'
           /\ command'[c].stage = "working" /\ command'[c].serial = command[c].serial
           /\ command'[c].checks = command[c].checks
           /\ \A d \in Commands \ {c} : command'[d] = command[d]
           /\ UNCHANGED call \/ (running /\ call'[c] # None /\ call'[c].type = "markup"
                                 /\ ~call'[c].reached)
           /\ \A d \in Actors \ {c} : call'[d] = call[d]
<1>1. command' = [command EXCEPT ![c].stage = "working"] /\ command[c].uri \in Uris
  BY DEF Ask, Handlers, Standing
<1>2. /\ command' \in [Commands -> Tasks]
      /\ command'[c].stage = "working" /\ command'[c].serial = command[c].serial
      /\ command'[c].checks = command[c].checks
      /\ \A d \in Commands \ {c} : command'[d] = command[d]
  BY <1>1, StageChanges DEF Stages
<1>3. /\ call' \in [Actors -> Call \cup {None}]
      /\ UNCHANGED call \/ (running /\ call'[c] # None /\ call'[c].type = "markup"
                            /\ ~call'[c].reached)
      /\ \A d \in Actors \ {c} : call'[d] = call[d]
  <2>1. CASE running
    <3> DEFINE k == [type |-> "markup", uri |-> command[c].uri, id |-> 0, text |-> 0,
                     reached |-> FALSE]
    <3>1. k \in Call /\ k.type = "markup" /\ ~k.reached
      BY <1>1 DEF Call
    <3>2. c \in Actors /\ call' = [call EXCEPT ![c] = k]
      BY <2>1 DEF Ask, Actors, Request
    <3> HIDE DEF k
    <3> QED BY <2>1, <3>1, <3>2, CallMade
  <2>2. CASE ~running
    BY <2>2 DEF TypeOK, Ask
  <2> QED BY <2>1, <2>2
<1>4. TypeOK'
  BY <1>2, <1>3 DEF TypeOK, Ask, editorVars, workerVars, outVars
<1> QED BY <1>2, <1>3, <1>4

(* Publications that clear. *)
LEMMA ClearsTyped ==
    ASSUME NEW us \in SUBSET Uris, NEW about \in Uris \cup {None}
    PROVE  /\ Clears(us, about) \subseteq Publications
           /\ \A p \in Clears(us, about) : p.from = None /\ p.about = about
           /\ \A t \in us : \E p \in Clears(us, about) :
                p.to = t /\ p.from = None /\ p.about = about
<1>1. /\ Clears(us, about) \subseteq Publications
      /\ \A p \in Clears(us, about) : p.from = None /\ p.about = about
  BY DEF Clears, Publications
<1>2. ASSUME NEW t \in us
      PROVE  \E p \in Clears(us, about) : p.to = t /\ p.from = None /\ p.about = about
  <2>1. [to |-> t, from |-> None, about |-> about] \in Clears(us, about)
    BY DEF Clears
  <2> QED BY <2>1
<1> QED BY <1>1, <1>2

LEMMA OutChanges ==
    ASSUME TypeOK, NEW c \in Actors, NEW ps \in SUBSET Publications,
           out' = [out EXCEPT ![c] = ps]
    PROVE  /\ out' \in [Actors -> SUBSET Publications] /\ out'[c] = ps
           /\ \A d \in Actors \ {c} : out'[d] = out[d]
BY DEF TypeOK

LEMMA ClearDoes ==
    ASSUME TypeOK, NEW c \in Commands, Clear(c)
    PROVE  /\ TypeOK'
           /\ command'[c].stage \in {"sweeping", "working"}
           /\ command'[c].checks = command[c].checks /\ command'[c].serial = command[c].serial
           /\ \A d \in Commands \ {c} : command'[d] = command[d]
           /\ \A d \in Actors \ {c} : out'[d] = out[d]
           /\ \A p \in out'[c] : p.from = None
           /\ \E sources \in SUBSET Uris :
                /\ \A s \in Uris : targets'[s] = IF s \in sources THEN {} ELSE targets[s]
                /\ \A s \in sources : \A t \in targets[s] : \E p \in out'[c] :
                     p.to = t /\ p.from = None /\ p.about \in {s, None}
                /\ disturbed' = disturbed \cup Overlap(c, sources)
<1> DEFINE u == command[c].uri
           sources == IF u = None THEN Uris ELSE {u}
           all == UNION {targets[s] : s \in Uris}
           us == IF u = None THEN all ELSE targets[u] \cup {u}
<1>1. /\ u \in Uris \cup {None} /\ sources \subseteq Uris
      /\ \A s \in sources : u \in {s, None}
  BY CommandTyped
<1>2. /\ targets' = [s \in Uris |-> IF s \in sources THEN {} ELSE targets[s]]
      /\ out' = [out EXCEPT ![c] = Clears(us, u)]
      /\ disturbed' = disturbed \cup Overlap(c, sources)
  BY DEF Clear
<1>3. us \subseteq Uris /\ \A s \in sources : targets[s] \subseteq us
  BY <1>1 DEF TypeOK
<1> HIDE DEF us, u, sources
<1>4. /\ Clears(us, u) \subseteq Publications
      /\ \A p \in Clears(us, u) : p.from = None /\ p.about = u
      /\ \A t \in us : \E p \in Clears(us, u) : p.to = t /\ p.from = None /\ p.about = u
  BY <1>1, <1>3, ClearsTyped
<1>5. /\ out' \in [Actors -> SUBSET Publications] /\ out'[c] = Clears(us, u)
      /\ \A d \in Actors \ {c} : out'[d] = out[d]
  BY <1>2, <1>4, OutChanges DEF Actors
<1>6. \A s \in sources : \A t \in targets[s] : \E p \in out'[c] :
        p.to = t /\ p.from = None /\ p.about \in {s, None}
  BY <1>1, <1>3, <1>4, <1>5
<1>7. /\ command' \in [Commands -> Tasks] /\ command'[c].stage \in {"sweeping", "working"}
      /\ command'[c].checks = command[c].checks /\ command'[c].serial = command[c].serial
      /\ \A d \in Commands \ {c} : command'[d] = command[d]
  <2>1. PICK stage \in {"sweeping", "working"} :
          command' = [command EXCEPT ![c].stage = stage]
    BY DEF Clear, u
  <2> QED BY <2>1, StageChanges DEF Stages
<1>8. targets' \in [Uris -> SUBSET Uris] /\ disturbed' \subseteq Uris
  BY <1>1, <1>2 DEF TypeOK, Overlap
<1>9. TypeOK'
  BY <1>5, <1>7, <1>8 DEF TypeOK, Clear, editorVars, workerVars, callVars
<1>10. \A s \in Uris : targets'[s] = IF s \in sources THEN {} ELSE targets[s]
  BY <1>2
<1>11. \A p \in out'[c] : p.from = None
  BY <1>4, <1>5
<1> QED BY <1>1, <1>2, <1>5, <1>6, <1>7, <1>9, <1>10, <1>11

LEMMA SweepDoes ==
    ASSUME TypeOK, NEW c \in Commands, Sweep(c)
    PROVE  /\ TypeOK'
           /\ command'[c].stage = "working"
           /\ command'[c].checks = command[c].checks /\ command'[c].serial = command[c].serial
           /\ \A d \in Commands \ {c} : command'[d] = command[d]
           /\ \A d \in Actors \ {c} : out'[d] = out[d]
           /\ \A p \in out'[c] : p.from = None
<1> DEFINE us == {u \in Uris : Open(u)}
<1>1. /\ Clears(us, None) \subseteq Publications
      /\ \A p \in Clears(us, None) : p.from = None
  BY ClearsTyped
<1>2. /\ out' \in [Actors -> SUBSET Publications] /\ out'[c] = Clears(us, None)
      /\ \A d \in Actors \ {c} : out'[d] = out[d]
  BY <1>1, OutChanges DEF Sweep, Actors
<1>3. /\ command' \in [Commands -> Tasks] /\ command'[c].stage = "working"
      /\ command'[c].checks = command[c].checks /\ command'[c].serial = command[c].serial
      /\ \A d \in Commands \ {c} : command'[d] = command[d]
  BY StageChanges DEF Sweep, Stages
<1>4. TypeOK'
  BY <1>2, <1>3 DEF TypeOK, Sweep, editorVars, workerVars, callVars
<1> QED BY <1>1, <1>2, <1>3, <1>4

LEMMA FinishDoes ==
    ASSUME TypeOK, NEW c \in Commands, Finish(c)
    PROVE  /\ TypeOK'
           /\ command'[c].stage = "done" /\ command'[c].checks = {} /\ command'[c].serial = 0
           /\ \A d \in Commands \ {c} : command'[d] = command[d]
<1>1. command' = [command EXCEPT ![c] = Done]
  BY DEF Finish
<1> QED BY <1>1, BecomesDone DEF TypeOK, Finish, editorVars, workerVars, outVars, callVars

LEMMA CancelDoes ==
    ASSUME TypeOK, NEW c \in Commands, Cancel(c)
    PROVE  /\ TypeOK'
           /\ command'[c].stage = "done" /\ command'[c].checks = {} /\ command'[c].serial = 0
           /\ \A d \in Commands \ {c} : command'[d] = command[d]
           /\ call'[c] = None /\ \A d \in Actors \ {c} : call'[d] = call[d]
           /\ out'[c] = {} /\ \A d \in Actors \ {c} : out'[d] = out[d]
           /\ disturbed \subseteq disturbed'
           /\ \A p \in out[c] : \A s \in Uris : p.about \in {s, None} => s \in disturbed'
<1>1. /\ command' = [command EXCEPT ![c] = Done]
      /\ call' = [call EXCEPT ![c] = None] /\ out' = [out EXCEPT ![c] = {}]
  BY DEF Cancel
<1>2. /\ call' \in [Actors -> Call \cup {None}]
      /\ call'[c] = None /\ \A d \in Actors \ {c} : call'[d] = call[d]
  BY <1>1 DEF TypeOK, Actors
<1>3. /\ out' \in [Actors -> SUBSET Publications]
      /\ out'[c] = {} /\ \A d \in Actors \ {c} : out'[d] = out[d]
  BY <1>1 DEF TypeOK, Actors
<1>4. \A p \in out[c] : p.about \in Uris \cup {None}
  BY DEF TypeOK, Actors, Publications
<1>5. /\ disturbed' \subseteq Uris /\ disturbed \subseteq disturbed'
      /\ \A p \in out[c] : \A s \in Uris : p.about \in {s, None} => s \in disturbed'
  <2>1. CASE \E p \in out[c] : p.about = None
    <3>1. disturbed' = disturbed \cup Uris
      BY <2>1 DEF Cancel
    <3> QED BY <3>1 DEF TypeOK
  <2>2. CASE ~\E p \in out[c] : p.about = None
    <3>1. disturbed' = disturbed \cup {p.about : p \in out[c]}
      BY <2>2 DEF Cancel
    <3> QED BY <1>4, <2>2, <3>1 DEF TypeOK
  <2> QED BY <2>1, <2>2
<1>6. TypeOK'
  BY <1>1, <1>2, <1>3, <1>5, BecomesDone DEF TypeOK, Cancel, editorVars, workerVars
<1> QED BY <1>1, <1>2, <1>3, <1>5, <1>6, BecomesDone

LEMMA PublishDoes ==
    ASSUME TypeOK, NEW c \in Actors, Publish(c)
    PROVE  /\ TypeOK'
           /\ \E p \in out[c] :
                /\ out'[c] = out[c] \ {p} /\ \A d \in Actors \ {c} : out'[d] = out[d]
                /\ p.to \in Uris /\ shown'[p.to] = p.from
                /\ \A t \in Uris \ {p.to} : shown'[t] = shown[t]
<1>1. PICK p \in out[c] :
        shown' = [shown EXCEPT ![p.to] = p.from] /\ out' = [out EXCEPT ![c] = @ \ {p}]
  BY DEF Publish
<1>2. p.to \in Uris /\ p.from \in Uris \cup {None}
  BY DEF TypeOK, Publications
<1>3. /\ out' \in [Actors -> SUBSET Publications]
      /\ out'[c] = out[c] \ {p} /\ \A d \in Actors \ {c} : out'[d] = out[d]
  BY <1>1 DEF TypeOK
<1>4. /\ shown' \in [Uris -> Uris \cup {None}] /\ shown'[p.to] = p.from
      /\ \A t \in Uris \ {p.to} : shown'[t] = shown[t]
  BY <1>1, <1>2 DEF TypeOK
<1>5. TypeOK'
  BY <1>3, <1>4 DEF TypeOK, Publish, editorVars, workerVars, callVars
<1> QED BY <1>2, <1>3, <1>4, <1>5

LEMMA CallTyped ==
    ASSUME TypeOK, NEW c \in Actors, call[c] # None
    PROVE  /\ call[c] \in Call
           /\ call[c].type \in {"push", "check", "markup"} /\ call[c].uri \in Uris
           /\ call[c].id \in Nat /\ call[c].text \in Nat /\ call[c].reached \in BOOLEAN
BY DEF TypeOK, Call

LEMMA ReachDoes ==
    ASSUME TypeOK, Handlers, Texts, NEW c \in Actors, Reach(c)
    PROVE  /\ TypeOK'
           /\ call'[c] # None /\ call'[c].type = call[c].type /\ call'[c].uri = call[c].uri
           /\ call'[c].id = call[c].id /\ call'[c].text = call[c].text /\ call'[c].reached = TRUE
           /\ \A d \in Actors \ {c} : call'[d] = call[d]
           /\ c # Worker => UNCHANGED pushed
           /\ c = Worker => /\ pushed'[call[c].uri] = call[c].text
                            /\ \A u \in Uris \ {call[c].uri} : pushed'[u] = pushed[u]
           /\ IF running THEN UNCHANGED late
              ELSE late'[c] = late[c] + 1 /\ \A d \in Actors \ {c} : late'[d] = late[d]
<1> DEFINE k == [call[c] EXCEPT !.reached = TRUE]
<1>1. call[c] # None /\ call[c].uri \in Uris /\ call[c].text \in Nat /\ call[c] \in Call
  BY CallTyped DEF Reach
<1>2. /\ k \in Call /\ k # None /\ k.type = call[c].type /\ k.uri = call[c].uri
      /\ k.id = call[c].id /\ k.text = call[c].text /\ k.reached = TRUE
  <2>1. /\ k \in Call /\ k.type = call[c].type /\ k.uri = call[c].uri
        /\ k.id = call[c].id /\ k.text = call[c].text /\ k.reached = TRUE
    BY <1>1 DEF Call
  <2> HIDE DEF k
  <2> QED BY <2>1, NoneAssumption
<1>3. call' = [call EXCEPT ![c] = k]
  BY DEF Reach
<1> HIDE DEF k
<1>4. /\ call' \in [Actors -> Call \cup {None}] /\ call'[c] = k
      /\ \A d \in Actors \ {c} : call'[d] = call[d]
  BY <1>2, <1>3 DEF TypeOK
<1>5. /\ pushed' \in [Uris -> 0..MaxNotes]
      /\ c # Worker => UNCHANGED pushed
      /\ c = Worker => /\ pushed'[call[c].uri] = call[c].text
                       /\ \A u \in Uris \ {call[c].uri} : pushed'[u] = pushed[u]
  <2>1. call[c].type = "push" <=> c = Worker
    BY <1>1 DEF Handlers
  <2>2. CASE c = Worker
    <3>1. call[c].text <= notes
      BY <1>1, <2>2 DEF Texts, InWork
    <3>2. call[c].text \in 0..MaxNotes
      BY <1>1, <3>1, ServerAssumption DEF TypeOK
    <3>3. pushed' = [pushed EXCEPT ![call[c].uri] = call[c].text]
      BY <2>1, <2>2 DEF Reach
    <3> QED BY <1>1, <2>2, <3>2, <3>3 DEF TypeOK
  <2>3. CASE c # Worker
    BY <2>1, <2>3 DEF Reach, TypeOK
  <2> QED BY <2>2, <2>3
<1>6. /\ late' \in [Actors -> Nat]
      /\ IF running THEN UNCHANGED late
         ELSE late'[c] = late[c] + 1 /\ \A d \in Actors \ {c} : late'[d] = late[d]
  BY DEF Reach, TypeOK
<1>7. TypeOK'
  BY <1>4, <1>5, <1>6 DEF TypeOK, Reach, editorVars, workerVars, outVars
<1> QED BY <1>2, <1>4, <1>5, <1>6, <1>7

(* An answer's publications: all of it listed, and what is no longer listed *)
(* cleared.                                                                 *)
LEMMA AnsweredCalls ==
    ASSUME TypeOK, NEW c \in Actors, Answered(c)
    PROVE  call'[c] = None /\ \A d \in Actors \ {c} : call'[d] = call[d]
BY DEF Answered, TypeOK

LEMMA AnsweredDoes ==
    ASSUME TypeOK, NEW c \in Actors, Answered(c), NEW u, u = call[c].uri
    PROVE  /\ TypeOK' /\ u \in Uris
           /\ call'[c] = None /\ \A d \in Actors \ {c} : call'[d] = call[d]
           /\ \/ UNCHANGED <<targets, out, disturbed>>
              \/ /\ \A d \in Actors \ {c} : out'[d] = out[d]
                 /\ \A s \in Uris \ {u} : targets'[s] = targets[s]
                 /\ \A p \in out'[c] : p.about = u /\ p.from \in {u, None}
                 /\ \A p \in out'[c] : p.from # None => p.to \in targets'[u]
                 /\ \A t \in targets[u] \ targets'[u] : \E p \in out'[c] :
                      p.to = t /\ p.from = None /\ p.about = u
                 /\ disturbed' = disturbed \cup Overlap(c, {u})
<1>1. call[c] # None /\ u \in Uris
  BY CallTyped DEF Answered
<1>2. /\ call' \in [Actors -> Call \cup {None}]
      /\ call'[c] = None /\ \A d \in Actors \ {c} : call'[d] = call[d]
  BY DEF Answered, TypeOK
<1>3. CASE UNCHANGED <<targets, out, disturbed>>
  <2>1. TypeOK'
    BY <1>2, <1>3 DEF TypeOK, Answered, editorVars, workerVars
  <2> QED BY <1>1, <1>2, <1>3, <2>1
<1>4. ASSUME NEW report \in Reports, SwapTargets(c, u, report)
      PROVE  /\ TypeOK'
             /\ \A d \in Actors \ {c} : out'[d] = out[d]
             /\ \A s \in Uris \ {u} : targets'[s] = targets[s]
             /\ \A p \in out'[c] : p.about = u /\ p.from \in {u, None}
             /\ \A p \in out'[c] : p.from # None => p.to \in targets'[u]
             /\ \A t \in targets[u] \ targets'[u] : \E p \in out'[c] :
                  p.to = t /\ p.from = None /\ p.about = u
             /\ disturbed' = disturbed \cup Overlap(c, {u})
  <2> DEFINE news == [to: report, from: {u}, about: {u}]
             gone == (targets[u] \cup {u}) \ report
             ps == news \cup Clears(gone, u)
  <2>1. report \subseteq Uris /\ targets[u] \subseteq Uris
    BY <1>1, ServerAssumption DEF TypeOK
  <2>2. /\ targets' = [targets EXCEPT ![u] = report \cup {u}]
        /\ out' = [out EXCEPT ![c] = ps] /\ disturbed' = disturbed \cup Overlap(c, {u})
    BY <1>4 DEF SwapTargets
  <2>3. /\ news \subseteq Publications
        /\ \A p \in news : p.about = u /\ p.from = u /\ p.to \in report
    BY <1>1, <2>1 DEF Publications
  <2>4. gone \subseteq Uris /\ targets[u] \ (report \cup {u}) \subseteq gone
    BY <1>1, <2>1
  <2> HIDE DEF news, gone
  <2>5. /\ Clears(gone, u) \subseteq Publications
        /\ \A p \in Clears(gone, u) : p.from = None /\ p.about = u
        /\ \A t \in gone : \E p \in Clears(gone, u) :
             p.to = t /\ p.from = None /\ p.about = u
    BY <1>1, <2>4, ClearsTyped
  <2>6. ps \subseteq Publications
    BY <2>3, <2>5
  <2>7. /\ out' \in [Actors -> SUBSET Publications] /\ out'[c] = ps
        /\ \A d \in Actors \ {c} : out'[d] = out[d]
    BY <2>2, <2>6, OutChanges
  <2>8. /\ targets' \in [Uris -> SUBSET Uris] /\ targets'[u] = report \cup {u}
        /\ \A s \in Uris \ {u} : targets'[s] = targets[s]
    BY <1>1, <2>1, <2>2 DEF TypeOK
  <2>9. disturbed' \subseteq Uris
    BY <1>1, <2>2 DEF TypeOK, Overlap
  <2>10. TypeOK'
    BY <1>2, <2>7, <2>8, <2>9 DEF TypeOK, Answered, editorVars, workerVars
  <2>11. \A p \in out'[c] : /\ p.about = u /\ p.from \in {u, None}
                            /\ p.from # None => p.to \in targets'[u]
    BY <2>3, <2>5, <2>7, <2>8
  <2>12. \A t \in targets[u] \ targets'[u] : \E p \in out'[c] :
           p.to = t /\ p.from = None /\ p.about = u
    BY <2>4, <2>5, <2>7, <2>8
  <2> QED BY <2>2, <2>7, <2>8, <2>10, <2>11, <2>12
<1> QED BY <1>1, <1>2, <1>3, <1>4 DEF Answered

LEMMA FailedDoes ==
    ASSUME TypeOK, NEW c \in Actors, Failed(c)
    PROVE  /\ TypeOK'
           /\ call'[c] = None /\ \A d \in Actors \ {c} : call'[d] = call[d]
           /\ c = Worker => UNCHANGED command /\ <<call[c].uri, "failed">> \in behind'
                            /\ behind \subseteq behind'
           /\ c # Worker => /\ c \in Commands /\ UNCHANGED behind
                            /\ command'[c].stage = command[c].stage
                            /\ command'[c].uri = command[c].uri
                            /\ command'[c].serial = command[c].serial
                            /\ command'[c].checks = {}
                            /\ \A d \in Commands \ {c} : command'[d] = command[d]
<1>1. call[c] # None /\ call[c].uri \in Uris
  BY CallTyped DEF Failed
<1>2. /\ call' \in [Actors -> Call \cup {None}]
      /\ call'[c] = None /\ \A d \in Actors \ {c} : call'[d] = call[d]
  BY DEF Failed, TypeOK
<1>3. CASE c = Worker
  <2>1. UNCHANGED command /\ behind' = behind \cup {<<call[c].uri, "failed">>}
    BY <1>3 DEF Failed
  <2>2. behind' \subseteq Uris \X {"reopened", "stopped", "failed"}
    BY <1>1, <2>1 DEF TypeOK
  <2>3. TypeOK'
    BY <1>2, <2>1, <2>2 DEF TypeOK, Failed, editorVars, workerVars, outVars
  <2> QED BY <1>2, <1>3, <2>1, <2>3
<1>4. CASE c # Worker
  <2>1. c \in Commands /\ command' = [command EXCEPT ![c].checks = {}] /\ UNCHANGED behind
    BY <1>4 DEF Failed, Actors
  <2>2. /\ command' \in [Commands -> Tasks]
        /\ command'[c].stage = command[c].stage /\ command'[c].uri = command[c].uri
        /\ command'[c].checks = {} /\ command'[c].serial = command[c].serial
        /\ \A d \in Commands \ {c} : command'[d] = command[d]
    <3>1. {} \in SUBSET Checks
      OBVIOUS
    <3> QED BY <2>1, <3>1, ChecksChange
  <2>3. TypeOK'
    BY <1>2, <2>1, <2>2 DEF TypeOK, Failed, editorVars, workerVars, outVars
  <2> QED BY <1>2, <1>4, <2>1, <2>2, <2>3
<1> QED BY <1>3, <1>4

(* A step of one handler leaves the others where they stand. *)
LEMMA OneHandlerMoves ==
    ASSUME TypeOK, Handlers, NEW c \in Commands, UNCHANGED notes,
           \A d \in Commands \ {c} : command'[d] = command[d],
           \A d \in Actors \ {c} : call'[d] = call[d] /\ out'[d] = out[d],
           Standing(c)',
           call'[c] # None => out'[c] = {} /\ call'[c].type # "push"
    PROVE  Handlers'
<1>1. ASSUME NEW d \in Commands
      PROVE  Standing(d)'
  <2>1. CASE d = c
    BY <2>1
  <2>2. CASE d # c
    <3>1. d \in Actors
      BY DEF Actors
    <3> QED BY <2>2, <3>1 DEF Handlers, Standing, Free
  <2> QED BY <2>1, <2>2
<1>2. c # Worker
  BY ServerAssumption
<1> QED BY <1>1, <1>2 DEF Handlers

LEMMA HandlersKept ==
    ASSUME TypeOK, Handlers, Texts, [Next]_vars
    PROVE  Handlers'
<1> USE DEF editorVars, workerVars, outVars, callVars
<1>1. CASE UNCHANGED <<command, call, out>> /\ notes' >= notes /\ notes' \in Nat
  <2>1. \A c \in Commands : command[c].serial \in Nat
    <3>1. \A c \in Commands : command[c].serial \in 0..MaxNotes
      BY CommandTyped
    <3> QED BY <3>1
  <2> QED BY <1>1, <2>1 DEF Handlers, Standing, Free, TypeOK
<1>2. CASE Notify
  <2>1. UNCHANGED <<command, call, out>> /\ notes' = notes + 1
    BY <1>2, NotifySchedules DEF Schedule
  <2> QED BY <1>1, <2>1 DEF TypeOK
<1>3. CASE WorkerUpdate \/ WorkerFlush \/ WorkerTick \/ Terminated \/ UNCHANGED vars
  BY <1>1, <1>3 DEF WorkerUpdate, WorkerFlush, WorkerTick, Terminated, vars, TypeOK
<1>4. CASE WorkerSends
  <2>1. PICK p \in batch :
           IF running THEN Request(Worker, "push", p.uri, p.id, p.text)
                      ELSE UNCHANGED call
    BY <1>4 DEF WorkerSends
  <2>2. p \in Push
    BY DEF TypeOK
  <2>3. out[Worker] = {} /\ UNCHANGED <<command, out, notes>>
    BY <1>4 DEF WorkerSends, Free
  <2>4. CASE running
    <3>1. call'[Worker].type = "push" /\ \A d \in Actors \ {Worker} : call'[d] = call[d]
      BY <2>1, <2>2, <2>4, PushMade
    <3>2. \A d \in Commands : d # Worker /\ d \in Actors
      BY ServerAssumption DEF Actors
    <3> QED BY <2>3, <3>1, <3>2 DEF Handlers, Standing, Free
  <2>5. CASE ~running
    BY <1>1, <2>1, <2>3, <2>5 DEF TypeOK
  <2> QED BY <2>4, <2>5
<1>5. CASE WorkerAcks
  <2>1. ack \in Commands
    BY <1>5 DEF WorkerAcks, TypeOK
  <2>2. CASE command[ack].stage = "flushing"
    <3>1. /\ command'[ack].stage = "working" /\ command'[ack].serial = command[ack].serial
          /\ \A d \in Commands \ {ack} : command'[d] = command[d]
      BY <1>5, <2>1, <2>2, StageChanges DEF WorkerAcks, Stages
    <3>2. UNCHANGED <<call, out, notes>>
      BY <1>5 DEF WorkerAcks
    <3>3. \A d \in Commands : Standing(d)'
      BY <2>2, <3>1, <3>2 DEF Handlers, Standing, Free
    <3> QED BY <3>2, <3>3 DEF Handlers
  <2>3. CASE command[ack].stage # "flushing"
    BY <1>1, <1>5, <2>3 DEF WorkerAcks, TypeOK
  <2> QED BY <2>2, <2>3
<1>6. ASSUME NEW c \in Commands, Issue(c)
      PROVE  Handlers'
  <2>1. UNCHANGED <<call, out, notes>> /\ command[c].stage = "unused"
    BY <1>6 DEF Issue
  <2>2. Standing(c)'
    BY <1>6, <2>1, IssueTypes DEF Handlers, Standing, Free
  <2> QED BY <1>6, <2>1, <2>2, IssueTypes, OneHandlerMoves, ServerAssumption DEF Handlers, Actors
<1>7. ASSUME NEW c \in Commands, BeginCheck(c)
      PROVE  Handlers'
  <2>1. UNCHANGED <<call, out, notes>> /\ command[c].stage = "beginning"
    BY <1>7 DEF BeginCheck
  <2>2. /\ \/ command'[c].stage = "flushing" /\ command'[c].serial = notes
           \/ command'[c].stage = "done" /\ command'[c].checks = {} /\ command'[c].serial = 0
        /\ \A d \in Commands \ {c} : command'[d] = command[d]
    <3>1. CASE running
      BY <1>7, <3>1, BeginCheckRuns
    <3>2. CASE ~running
      BY <1>7, <3>2, BeginCheckStopped
    <3> QED BY <3>1, <3>2
  <2>3. Standing(c)'
    BY <2>1, <2>2 DEF Handlers, Standing, Free, TypeOK
  <2> QED BY <2>1, <2>2, <2>3, OneHandlerMoves, ServerAssumption DEF Handlers, Actors
<1>8. ASSUME NEW c \in Commands, CheckNext(c) \/ Ask(c)
      PROVE  Handlers'
  <2>1. /\ UNCHANGED <<out, notes>> /\ call[c] = None /\ out[c] = {}
    BY <1>8 DEF CheckNext, Ask, Free, Handlers, Standing
  <2>2. /\ command'[c].stage = "working" /\ command'[c].serial = command[c].serial
        /\ \A d \in Commands \ {c} : command'[d] = command[d]
        /\ UNCHANGED call \/ call'[c].type # "push"
        /\ \A d \in Actors \ {c} : call'[d] = call[d]
    BY <1>8, CheckNextDoes, AskDoes
  <2>3. Standing(c)'
    BY <2>1, <2>2 DEF Handlers, Standing, Free
  <2> QED BY <2>1, <2>2, <2>3, OneHandlerMoves
<1>9. ASSUME NEW c \in Commands, Clear(c) \/ Sweep(c)
      PROVE  Handlers'
  <2>1. UNCHANGED <<call, notes>> /\ call[c] = None
    BY <1>9 DEF Clear, Sweep, Handlers, Standing, Free
  <2>2. /\ command'[c].stage \in {"sweeping", "working"}
        /\ command'[c].checks = command[c].checks /\ command'[c].serial = command[c].serial
        /\ \A d \in Commands \ {c} : command'[d] = command[d]
        /\ \A d \in Actors \ {c} : out'[d] = out[d]
    <3>1. CASE Clear(c)
      BY <3>1, ClearDoes
    <3>2. CASE Sweep(c)
      BY <3>2, SweepDoes
    <3> QED BY <1>9, <3>1, <3>2
  <2>3. command[c].checks = {}
    BY <1>9 DEF Clear, Sweep, Handlers, Standing
  <2>4. Standing(c)'
    BY <2>1, <2>2, <2>3 DEF Handlers, Standing
  <2> QED BY <2>1, <2>2, <2>4, OneHandlerMoves
<1>10. ASSUME NEW c \in Commands, Finish(c)
       PROVE  Handlers'
  <2>1. UNCHANGED <<call, out, notes>> /\ call[c] = None /\ out[c] = {}
    BY <1>10 DEF Finish, Free
  <2>2. Standing(c)'
    BY <1>10, <2>1, FinishDoes DEF Standing, Free, TypeOK
  <2> QED BY <1>10, <2>1, <2>2, FinishDoes, OneHandlerMoves
<1>11. ASSUME NEW c \in Commands, Cancel(c)
       PROVE  Handlers'
  <2>1. UNCHANGED notes
    BY <1>11 DEF Cancel
  <2>2. Standing(c)'
    BY <1>11, <2>1, CancelDoes DEF Standing, Free, TypeOK
  <2> QED BY <1>11, <2>1, <2>2, CancelDoes, OneHandlerMoves
<1>12. ASSUME NEW c \in Actors, Publish(c)
       PROVE  Handlers'
  <2>1. UNCHANGED <<command, call, notes>>
    BY <1>12 DEF Publish
  <2>2. out[c] # {} /\ \A d \in Actors \ {c} : out'[d] = out[d]
    BY <1>12, PublishDoes
  <2>3. \A d \in Commands : d \in Actors
    BY DEF Actors
  <2>4. call[c] = None
    BY <2>2 DEF Handlers
  <2> QED BY <2>1, <2>2, <2>3, <2>4 DEF Handlers, Standing, Free
<1>13. ASSUME NEW c \in Actors, Reach(c)
       PROVE  Handlers'
  <2>1. UNCHANGED <<command, out, notes>> /\ call[c] # None
    BY <1>13 DEF Reach
  <2>2. \A d \in Commands : d \in Actors
    BY DEF Actors
  <2>3. /\ call'[c] # None /\ call'[c].type = call[c].type
        /\ \A d \in Actors \ {c} : call'[d] = call[d]
    BY <1>13, ReachDoes
  <2> QED BY <2>1, <2>2, <2>3 DEF Handlers, Standing, Free
<1>14. ASSUME NEW c \in Actors, Answered(c)
       PROVE  Handlers'
  <2>1. UNCHANGED <<command, notes>> /\ call[c] # None
    BY <1>14 DEF Answered
  <2>2. \A d \in Commands : d \in Actors
    BY DEF Actors
  <2>3. call'[c] = None /\ \A d \in Actors \ {c} : call'[d] = call[d]
    BY <1>14, AnsweredCalls
  <2>4. \A d \in Actors \ {c} : out'[d] = out[d]
    BY <1>14, AnsweredDoes
  <2> QED BY <2>1, <2>2, <2>3, <2>4 DEF Handlers, Standing, Free
<1>15. ASSUME NEW c \in Actors, Failed(c)
       PROVE  Handlers'
  <2>1. UNCHANGED <<out, notes>> /\ call[c] # None
    BY <1>15 DEF Failed
  <2>2. \A d \in Commands : d \in Actors
    BY DEF Actors
  <2>3. call'[c] = None /\ \A d \in Actors \ {c} : call'[d] = call[d]
    BY <1>15, FailedDoes
  <2>4. CASE c = Worker
    <3>1. UNCHANGED command
      BY <1>15, <2>4, FailedDoes
    <3>2. \A d \in Commands : Standing(d)'
      BY <2>1, <2>2, <2>3, <3>1 DEF Handlers, Standing, Free
    <3> QED BY <2>1, <2>3, <3>2 DEF Handlers
  <2>5. CASE c # Worker
    <3>1. /\ c \in Commands /\ command'[c].stage = command[c].stage
          /\ command'[c].uri = command[c].uri /\ command'[c].serial = command[c].serial
          /\ command'[c].checks = {}
          /\ \A d \in Commands \ {c} : command'[d] = command[d]
      BY <1>15, <2>5, FailedDoes
    <3>2. \A d \in Commands : Standing(d)'
      BY <2>1, <2>2, <2>3, <3>1 DEF Handlers, Standing, Free
    <3> QED BY <2>1, <2>3, <3>2 DEF Handlers
  <2> QED BY <2>4, <2>5
<1> QED BY <1>2, <1>3, <1>4, <1>5, <1>6, <1>7, <1>8, <1>9, <1>10, <1>11, <1>12, <1>13, <1>14,
           <1>15 DEF Next, PushWorker, Handler, Settle

-----------------------------------------------------------------------------
(* The way of a text to the bridge. *)

LEMMA InWorkTyped ==
    ASSUME TypeOK
    PROVE  /\ \A p \in InWork : p.uri \in Uris /\ p.text \in Nat /\ p.id \in Nat
           /\ \A p \in Owed : p \in Push /\ p.uri \in Uris /\ p.text \in Nat /\ p.id \in Nat
           /\ Owed = Updates \cup Scheduled /\ None \notin Owed
           /\ \A u \in Uris : pushed[u] \in Nat /\ (Open(u) => documents[u].text \in Nat)
<1>1. \A p \in Push : p.uri \in Uris /\ p.text \in Nat /\ p.id \in Nat
  BY DEF Push
<1>2. Owed \subseteq Push /\ None \notin Push
  BY UpdatesTyped
<1>3. call[Worker] # None =>
        call[Worker].uri \in Uris /\ call[Worker].text \in Nat /\ call[Worker].id \in Nat
  BY CallTyped DEF Actors
<1>4. \A u \in Uris : pushed[u] \in Nat /\ (Open(u) => documents[u].text \in Nat)
  BY DEF TypeOK, Open, Document
<1> QED BY <1>1, <1>2, <1>3, <1>4 DEF InWork, Owed, Scheduled

LEMMA WayStays ==
    ASSUME TypeOK, Way, UNCHANGED <<events, pending, batch, notes, pushed, behind>>,
           call'[Worker] = call[Worker],
           \A u \in Uris : documents'[u] = documents[u] \/ documents'[u] = None
    PROVE  Way'
<1>1. Owed' = Owed /\ InWork' = InWork /\ Scheduled' = Scheduled /\ Updates' = Updates
  BY DEF Owed, InWork, Scheduled, Updates
<1>2. \A u \in Uris : Open(u)' => Open(u) /\ documents'[u] = documents[u]
  BY DEF Open
<1>3. Texts'
  BY <1>1, <1>2, InWorkTyped DEF Way, Texts
<1>4. OnePush' /\ Pipeline'
  BY <1>1 DEF Way, OnePush, Pipeline, InOrder
<1>5. Arriving'
  BY <1>1, <1>2 DEF Way, Arriving, Losses
<1> QED BY <1>3, <1>4, <1>5 DEF Way

LEMMA ScheduleWay ==
    ASSUME TypeOK, Way, notes < MaxNotes, NEW u \in Uris, NEW version \in Nat,
           NEW text \in Nat, Schedule(u, version, text),
           text = notes + 1 \/ (Open(u) /\ text = documents[u].text)
    PROVE  Way'
<1>1. /\ documents'[u] # None /\ documents'[u].text = text
      /\ \A v \in Uris \ {u} : documents'[v] = documents[v]
  BY ScheduleTypes
<1>2. PICK p \in Push, n \in Nat : Queued(p, n) /\ p.uri = u /\ p.text = text
  BY ScheduleTypes
<1>3. /\ p # None /\ DOMAIN events' = DOMAIN events \cup {n} /\ events'[n].update = p
      /\ DOMAIN events \subseteq Nat /\ n \in Nat
      /\ \A i \in DOMAIN events : i < n /\ events'[i] = events[i]
      /\ Updates' = Updates \cup {p}
  BY <1>2 DEF Queued
<1>4. p.id = notes + 1 /\ p.uri = u /\ p.text = text
  BY <1>2 DEF Queued
<1>5. /\ notes' = notes + 1 /\ notes \in Nat
      /\ UNCHANGED <<pending, batch, call, pushed, behind>>
  BY DEF Schedule, callVars, TypeOK
<1>6. /\ Owed' = Owed \cup {p} /\ InWork' = InWork \cup {p} /\ Scheduled' = Scheduled
      /\ Scheduled \subseteq Owed
  BY <1>3, <1>5 DEF Owed, InWork, Scheduled
<1>7. text <= notes + 1 /\ \A q \in InWork : q.uri = u => q.text <= text
  BY <1>5, InWorkTyped DEF Way, Texts
<1>8. pushed[u] <= text
  BY <1>5, InWorkTyped DEF Way, Texts
<1>9. \A v \in Uris : Open(v)' => IF v = u THEN documents'[v].text = text
                                  ELSE Open(v) /\ documents'[v] = documents[v]
  BY <1>1 DEF Open
<1>10. Texts'
  <2>1. ASSUME NEW v \in Uris
        PROVE  /\ pushed'[v] <= notes'
               /\ Open(v)' => pushed'[v] <= documents'[v].text /\ documents'[v].text <= notes'
    BY <1>5, <1>7, <1>8, <1>9, InWorkTyped DEF Way, Texts
  <2>2. ASSUME NEW q \in InWork'
        PROVE  /\ q.text <= notes' /\ q.id <= notes' /\ pushed'[q.uri] <= q.text
               /\ Open(q.uri)' => q.text <= documents'[q.uri].text
    <3>1. CASE q = p
      BY <1>1, <1>4, <1>5, <1>7, <1>8, <3>1
    <3>2. CASE q \in InWork
      BY <1>5, <1>7, <1>9, <3>2, InWorkTyped DEF Way, Texts
    <3> QED BY <1>6, <3>1, <3>2
  <2> QED BY <2>1, <2>2 DEF Texts
<1>11. OnePush'
  BY <1>6 DEF Way, OnePush
<1>12. Pipeline'
  <2>1. \A q \in Owed : InOrder(q, p)
    BY <1>4, <1>7 DEF InOrder, InWork
  <2>2. \A i \in DOMAIN events : events[i].update # None => events[i].update \in Owed
    BY DEF Owed, Updates
  <2>3. ASSUME NEW i \in DOMAIN events', NEW j \in DOMAIN events', i < j,
               events'[i].update # None, events'[j].update # None
        PROVE  InOrder(events'[i].update, events'[j].update)
    <3>1. i \in DOMAIN events
      BY <1>3, <2>3
    <3>2. CASE j = n
      BY <1>3, <2>1, <2>2, <2>3, <3>1, <3>2
    <3>3. CASE j # n
      BY <1>3, <2>3, <3>1, <3>3 DEF Way, Pipeline
    <3> QED BY <3>2, <3>3
  <2>4. \A q \in Scheduled', r \in Updates' : InOrder(q, r)
    BY <1>3, <1>6, <2>1 DEF Way, Pipeline
  <2>5. call[Worker] # None => InOrder(call[Worker], p)
    BY <1>4, <1>7 DEF InOrder, InWork
  <2>6. call'[Worker] # None => \A q \in Owed' : InOrder(call'[Worker], q)
    BY <1>5, <1>6, <2>5 DEF Way, Pipeline
  <2>7. \A i, j \in DOMAIN events' :
          i < j /\ events'[i].update # None /\ events'[j].update # None
             => InOrder(events'[i].update, events'[j].update)
    BY <2>3
  <2> HIDE DEF InOrder
  <2> QED BY <2>4, <2>6, <2>7 DEF Pipeline, InOrder
<1>13. Arriving'
  <2>1. \A v : Losses(v)' = Losses(v)
    BY <1>5 DEF Losses
  <2>2. p \in InWork' /\ InWork \subseteq InWork'
    BY <1>6
  <2> QED BY <1>4, <1>5, <1>9, <2>1, <2>2 DEF Way, Arriving
<1> QED BY <1>10, <1>11, <1>12, <1>13 DEF Way

(* Taking the first event leaves the others in their order. *)
LEMMA TakeKeepsOrder ==
    ASSUME TypeOK, Pipeline, events # <<>>, events' = Tail(events)
    PROVE  /\ \A i, j \in DOMAIN events' :
                i < j /\ events'[i].update # None /\ events'[j].update # None
                   => InOrder(events'[i].update, events'[j].update)
           /\ Head(events).update # None
                => \A q \in Updates' : InOrder(Head(events).update, q)
<1>1. /\ Head(events) = events[1] /\ 1 \in DOMAIN events
      /\ DOMAIN events \subseteq Nat /\ DOMAIN events' \subseteq Nat
      /\ \A i \in DOMAIN events' : i + 1 \in DOMAIN events /\ events'[i] = events[i + 1]
  BY EventTaken
<1>2. ASSUME NEW i \in DOMAIN events', NEW j \in DOMAIN events', i < j,
             events'[i].update # None, events'[j].update # None
      PROVE  InOrder(events'[i].update, events'[j].update)
  <2>1. /\ i + 1 \in DOMAIN events /\ j + 1 \in DOMAIN events /\ i + 1 < j + 1
        /\ events'[i] = events[i + 1] /\ events'[j] = events[j + 1]
    BY <1>1, <1>2
  <2> QED BY <1>2, <2>1 DEF Pipeline
<1>3. ASSUME Head(events).update # None, NEW q \in Updates'
      PROVE  InOrder(Head(events).update, q)
  <2>1. PICK j \in DOMAIN events' : q = events'[j].update /\ q # None
    BY DEF Updates
  <2>2. j \in Nat /\ j + 1 \in DOMAIN events /\ events[j + 1].update = q
    BY <1>1, <2>1
  <2>3. DOMAIN events' = 1..Len(events')
    BY EventTaken
  <2>4. 1 < j + 1
    BY <2>1, <2>2, <2>3
  <2> QED BY <1>1, <1>3, <2>1, <2>2, <2>4 DEF Pipeline
<1> QED BY <1>2, <1>3

(* While the texts in work only become fewer, and nothing else changes. *)
LEMMA TextsKept ==
    ASSUME TypeOK, Texts, UNCHANGED <<documents, notes, pushed>>,
           \A q \in InWork' : \E p \in InWork : p.uri = q.uri /\ p.text = q.text /\ p.id = q.id
    PROVE  Texts'
<1>1. \A u \in Uris : Open(u)' <=> Open(u)
  BY DEF Open
<1>2. ASSUME NEW q \in InWork'
      PROVE  /\ q.text <= notes /\ q.id <= notes /\ pushed[q.uri] <= q.text
             /\ Open(q.uri) => q.text <= documents[q.uri].text
  <2>1. PICK p \in InWork : p.uri = q.uri /\ p.text = q.text /\ p.id = q.id
    OBVIOUS
  <2> QED BY <2>1 DEF Texts
<1> QED BY <1>1, <1>2, InWorkTyped DEF Texts, Open

LEMMA UpdateWay ==
    ASSUME TypeOK, Way, WorkerUpdate
    PROVE  Way'
<1> DEFINE p == Head(events).update
<1>1. /\ p # None /\ events # <<>> /\ events' = Tail(events) /\ batch = {} /\ batch' = {}
      /\ call[Worker] = None /\ UNCHANGED <<documents, notes, call, pushed>>
  BY DEF WorkerUpdate, WorkerIdle, Free, editorVars
<1>2. Updates = Updates' \cup {p} /\ p \in Updates
  BY <1>1, EventTaken
<1>3. Head(events).update # None => \A q \in Updates' : InOrder(Head(events).update, q)
  BY <1>1, TakeKeepsOrder DEF Way
<1>4. /\ Scheduled = pending /\ Scheduled' = pending'
      /\ InWork = Updates \cup pending /\ InWork' = Updates' \cup pending'
  BY <1>1 DEF Scheduled, InWork, Owed
<1>5. pending' = Supersede(p)
  BY DEF WorkerUpdate
<1>6. \A q \in pending' : q \in pending \/ q = p
  BY <1>5 DEF Supersede
<1>7. \A q \in Updates' : InOrder(p, q)
  BY <1>1, <1>3
<1>8. p \in InWork /\ p.uri \in Uris /\ p.text \in Nat
  BY <1>2, <1>4, InWorkTyped
<1> HIDE DEF p
<1>9. Texts'
  <2>1. InWork' \subseteq InWork
    BY <1>2, <1>4, <1>6
  <2>2. \A q \in InWork' :
          \E r \in InWork : r.uri = q.uri /\ r.text = q.text /\ r.id = q.id
    BY <2>1
  <2> QED BY <1>1, <2>2, TextsKept DEF Way
<1>10. OnePush'
  BY <1>4, <1>5 DEF Way, OnePush, Supersede
<1>11. Pipeline'
  <2>1. \A i, j \in DOMAIN events' :
          i < j /\ events'[i].update # None /\ events'[j].update # None
             => InOrder(events'[i].update, events'[j].update)
    BY <1>1, TakeKeepsOrder DEF Way
  <2>2. \A q \in Scheduled', r \in Updates' : InOrder(q, r)
    BY <1>2, <1>4, <1>6, <1>7 DEF Way, Pipeline
  <2> HIDE DEF InOrder
  <2> QED BY <1>1, <2>1, <2>2 DEF Pipeline
<1>12. Arriving'
  <2>1. ASSUME NEW u \in Uris, Open(u), Losses(u)' = {}, pushed[u] # documents[u].text
        PROVE  \E q \in InWork' : q.uri = u /\ q.text = documents[u].text
    <3>1. behind \subseteq behind' /\ (StaleUpdate(p) => <<p.uri, "reopened">> \in behind')
      BY DEF WorkerUpdate, p
    <3>2. Losses(u) = {}
      BY <2>1, <3>1 DEF Losses
    <3>3. PICK q \in InWork : q.uri = u /\ q.text = documents[u].text
      BY <2>1, <3>2 DEF Way, Arriving
    <3>4. CASE StaleUpdate(p)
      <4>1. <<p.uri, "reopened">>[1] = p.uri
        OBVIOUS
      <4>2. p.uri # u
        BY <2>1, <3>1, <3>4, <4>1 DEF Losses
      <4>3. q \in InWork'
        BY <1>2, <1>4, <1>5, <3>3, <3>4, <4>2 DEF Supersede
      <4> QED BY <3>3, <4>3
    <3>5. CASE ~StaleUpdate(p)
      <4>1. p \in InWork' /\ pending' = {r \in pending : r.uri # p.uri} \cup {p}
        BY <1>4, <1>5, <3>5 DEF Supersede
      <4>2. CASE p.uri = u /\ q \in pending
        <5>1. q.text <= p.text
          BY <1>2, <1>4, <3>3, <4>2 DEF Way, Pipeline, InOrder
        <5>2. p.text <= documents[u].text
          BY <1>8, <2>1, <4>2 DEF Way, Texts
        <5>3. p.text = documents[u].text
          BY <1>8, <2>1, <3>3, <5>1, <5>2, InWorkTyped
        <5> QED BY <4>1, <4>2, <5>3
      <4>3. CASE ~(p.uri = u /\ q \in pending)
        BY <1>2, <1>4, <3>3, <4>1, <4>3
      <4> QED BY <4>2, <4>3
    <3> QED BY <3>4, <3>5
  <2>2. \A u \in Uris : Open(u)' <=> Open(u)
    BY <1>1 DEF Open
  <2> QED BY <1>1, <2>1, <2>2 DEF Arriving
<1> QED BY <1>9, <1>10, <1>11, <1>12 DEF Way

(* A flush and a tick only move pushes. *)
LEMMA MoveWay ==
    ASSUME TypeOK, Way, WorkerFlush \/ WorkerTick
    PROVE  Way'
<1>1. /\ batch = {} /\ call[Worker] = None
      /\ UNCHANGED <<documents, notes, call, pushed, behind>>
  BY DEF WorkerFlush, WorkerTick, WorkerIdle, Free, editorVars, callVars
<1>2. Scheduled' = Scheduled
  BY <1>1 DEF WorkerFlush, WorkerTick, Scheduled
<1>3. /\ Updates' = Updates
      /\ \A i, j \in DOMAIN events' :
           i < j /\ events'[i].update # None /\ events'[j].update # None
              => InOrder(events'[i].update, events'[j].update)
  <2>1. CASE WorkerFlush
    <3>1. Head(events).update = None /\ events # <<>> /\ events' = Tail(events)
      BY <2>1 DEF WorkerFlush
    <3>2. Updates = Updates'
      BY <3>1, EventTaken
    <3> QED BY <3>1, <3>2, TakeKeepsOrder DEF Way
  <2>2. CASE WorkerTick
    BY <2>2 DEF WorkerTick, Updates, Way, Pipeline
  <2> QED BY <2>1, <2>2
<1>4. Owed' = Owed /\ InWork' = InWork
  BY <1>1, <1>2, <1>3 DEF Owed, InWork, Scheduled
<1>5. Texts'
  BY <1>1, <1>4, TextsKept DEF Way
<1>6. OnePush' /\ Pipeline'
  <2>1. OnePush'
    BY <1>2 DEF Way, OnePush
  <2>2. \A q \in Scheduled', r \in Updates' : InOrder(q, r)
    BY <1>2, <1>3 DEF Way, Pipeline
  <2> HIDE DEF InOrder
  <2>3. Pipeline'
    BY <1>1, <1>3, <2>2 DEF Pipeline
  <2> QED BY <2>1, <2>3
<1>7. Arriving'
  BY <1>1, <1>4 DEF Way, Arriving, Losses, Open
<1> QED BY <1>5, <1>6, <1>7 DEF Way

(* A push that is sent becomes the worker's request; one that is dropped is *)
(* a loss.                                                                  *)
LEMMA SendsWay ==
    ASSUME TypeOK, Way, WorkerSends
    PROVE  Way'
<1>1. PICK p \in batch :
         /\ batch' = batch \ {p}
         /\ IF running
              THEN Request(Worker, "push", p.uri, p.id, p.text) /\ UNCHANGED behind
              ELSE behind' = behind \cup {<<p.uri, "stopped">>} /\ UNCHANGED call
  BY DEF WorkerSends
<1>2. /\ p.uri \in Uris /\ p.id \in Nat /\ p.text \in Nat /\ p \in InWork /\ p \in Scheduled
      /\ call[Worker] = None
  BY DEF WorkerSends, Free, TypeOK, Push, InWork, Owed, Scheduled
<1>3. UNCHANGED <<documents, notes, pushed, events, pending>>
  BY DEF WorkerSends, editorVars
<1>4. /\ Updates' = Updates /\ Scheduled' \subseteq Scheduled /\ Owed' \subseteq Owed
      /\ \A q \in Owed : q \in Owed' \/ q = p
      /\ InWork = Owed /\ Owed = Updates \cup Scheduled
      /\ InWork' = Owed' \cup ({call'[Worker]} \ {None})
      /\ Owed' = Updates' \cup Scheduled'
  BY <1>1, <1>2, <1>3 DEF Updates, Scheduled, Owed, InWork
<1>5. OnePush'
  BY <1>4 DEF Way, OnePush
<1>6. /\ \A i, j \in DOMAIN events' :
           i < j /\ events'[i].update # None /\ events'[j].update # None
              => InOrder(events'[i].update, events'[j].update)
      /\ \A q \in Scheduled', r \in Updates' : InOrder(q, r)
  BY <1>3, <1>4 DEF Way, Pipeline
<1>7. CASE running
  <2>1. /\ call'[Worker] # None /\ call'[Worker].uri = p.uri /\ call'[Worker].id = p.id
        /\ call'[Worker].text = p.text /\ call'[Worker].reached = FALSE
    <3>1. Request(Worker, "push", p.uri, p.id, p.text) /\ p \in Push
      BY <1>1, <1>7 DEF TypeOK
    <3> QED BY <3>1, PushMade
  <2>2. InWork' = Owed' \cup {call'[Worker]}
    BY <1>4, <2>1
  <2>3. \A q \in InWork' : \E r \in InWork : r.uri = q.uri /\ r.text = q.text /\ r.id = q.id
    BY <1>2, <1>4, <2>1, <2>2
  <2>4. Texts'
    BY <1>3, <2>3, TextsKept DEF Way
  <2>5. \A q \in Owed' : InOrder(call'[Worker], q)
    <3>1. \A q \in Updates : p.uri = q.uri => p.text <= q.text
      BY <1>2 DEF Way, Pipeline, InOrder
    <3>2. \A q \in Scheduled : p.uri = q.uri => p.text <= q.text
      BY <1>2 DEF Way, OnePush
    <3> QED BY <1>4, <2>1, <3>1, <3>2 DEF InOrder
  <2>6. Pipeline'
    <3> HIDE DEF InOrder
    <3> QED BY <1>6, <2>5 DEF Pipeline
  <2>7. Arriving'
    <3>1. ASSUME NEW u \in Uris, NEW q \in InWork, q.uri = u, q.text = documents[u].text
          PROVE  \E r \in InWork' : r.uri = u /\ r.text = documents[u].text
      BY <1>4, <2>1, <2>2, <3>1
    <3>2. behind' = behind
      BY <1>1, <1>7
    <3>3. \A u \in Uris : Losses(u)' = Losses(u) /\ (Open(u)' <=> Open(u))
      BY <1>3, <3>2 DEF Losses, Open
    <3> QED BY <1>3, <2>1, <3>1, <3>3 DEF Way, Arriving
  <2> QED BY <1>5, <2>4, <2>6, <2>7 DEF Way
<1>8. CASE ~running
  <2>1. UNCHANGED call /\ behind' = behind \cup {<<p.uri, "stopped">>}
    BY <1>1, <1>8
  <2>2. InWork' \subseteq InWork /\ call'[Worker] = None
    BY <1>2, <1>4, <2>1
  <2>3. Texts'
    <3>1. \A q \in InWork' : \E r \in InWork : r.uri = q.uri /\ r.text = q.text /\ r.id = q.id
      BY <2>2
    <3> QED BY <1>3, <3>1, TextsKept DEF Way
  <2>4. Pipeline'
    <3> HIDE DEF InOrder
    <3> QED BY <1>6, <2>2 DEF Pipeline
  <2>5. Arriving'
    <3>1. ASSUME NEW u \in Uris, Open(u), Losses(u)' = {}, pushed[u] # documents[u].text
          PROVE  \E q \in InWork' : q.uri = u /\ q.text = documents[u].text
      <4>1. Losses(u) = {} /\ p.uri # u
        <5>1. <<p.uri, "stopped">>[1] = p.uri
          OBVIOUS
        <5> QED BY <2>1, <3>1, <5>1 DEF Losses
      <4>2. PICK q \in InWork : q.uri = u /\ q.text = documents[u].text
        BY <3>1, <4>1 DEF Way, Arriving
      <4>3. q \in InWork'
        BY <1>4, <4>1, <4>2
      <4> QED BY <4>2, <4>3
    <3>2. \A u \in Uris : Open(u)' <=> Open(u)
      BY <1>3 DEF Open
    <3> QED BY <1>3, <2>2, <3>1, <3>2 DEF Arriving
  <2> QED BY <1>5, <2>3, <2>4, <2>5 DEF Way
<1> QED BY <1>7, <1>8

(* The push reaches the bridge: its text is the last one pushed. *)
LEMMA ReachWay ==
    ASSUME TypeOK, Handlers, Way, Reach(Worker)
    PROVE  Way'
<1> DEFINE u == call[Worker].uri
           k == call[Worker]
<1>1. /\ k # None /\ ~k.reached /\ k \in InWork
      /\ UNCHANGED <<documents, notes, events, pending, batch, behind>>
  BY DEF Reach, InWork, editorVars, workerVars
<1>2. k.uri \in Uris /\ k.text \in Nat /\ k.id \in Nat /\ u = k.uri
  BY <1>1, InWorkTyped
<1>3. /\ call'[Worker] # None /\ call'[Worker].uri = k.uri /\ call'[Worker].text = k.text
      /\ call'[Worker].id = k.id /\ call'[Worker].reached = TRUE
      /\ pushed'[u] = k.text /\ \A v \in Uris \ {u} : pushed'[v] = pushed[v]
  BY ReachDoes DEF Way, Actors
<1> HIDE DEF u, k
<1>4. /\ Owed' = Owed /\ Scheduled' = Scheduled /\ Updates' = Updates
      /\ InWork = Owed \cup {k} /\ InWork' = Owed \cup {call'[Worker]}
  BY <1>1, <1>3 DEF Owed, Scheduled, Updates, InWork, k
<1>5. \A v \in Uris : Open(v)' <=> Open(v)
  BY <1>1 DEF Open
<1>6. \A p \in Owed : k.uri = p.uri => k.text <= p.text
  BY <1>1 DEF Way, Pipeline, InOrder, k
<1>7. /\ k.text <= notes /\ k.id <= notes /\ pushed[u] <= k.text
      /\ Open(u) => k.text <= documents[u].text
  BY <1>1, <1>2 DEF Way, Texts
<1>8. Texts'
  <2>1. ASSUME NEW v \in Uris
        PROVE  /\ pushed'[v] <= notes
               /\ Open(v) => pushed'[v] <= documents[v].text /\ documents[v].text <= notes
    BY <1>3, <1>7 DEF Way, Texts
  <2>2. ASSUME NEW p \in InWork'
        PROVE  /\ p.text <= notes /\ p.id <= notes /\ pushed'[p.uri] <= p.text
               /\ Open(p.uri) => p.text <= documents[p.uri].text
    <3>1. CASE p \in Owed
      <4>1. p.uri \in Uris /\ p \in InWork
        BY <1>4, <3>1, InWorkTyped
      <4>2. pushed'[p.uri] <= p.text
        BY <1>2, <1>3, <1>6, <3>1, <4>1 DEF Way, Texts
      <4> QED BY <4>1, <4>2 DEF Way, Texts
    <3>2. CASE p = call'[Worker]
      BY <1>2, <1>3, <1>7, <3>2
    <3> QED BY <1>4, <3>1, <3>2
  <2> QED BY <1>1, <1>5, <2>1, <2>2 DEF Texts, Open
<1>9. OnePush'
  BY <1>4 DEF Way, OnePush
<1>10. Pipeline'
  <2>1. \A p \in Owed' : InOrder(call'[Worker], p)
    BY <1>3, <1>4, <1>6 DEF InOrder
  <2>2. \A i, j \in DOMAIN events' :
          i < j /\ events'[i].update # None /\ events'[j].update # None
             => InOrder(events'[i].update, events'[j].update)
    BY <1>1 DEF Way, Pipeline
  <2>3. \A q \in Scheduled', r \in Updates' : InOrder(q, r)
    BY <1>4 DEF Way, Pipeline
  <2> HIDE DEF InOrder
  <2> QED BY <2>1, <2>2, <2>3 DEF Pipeline
<1>11. Arriving'
  <2>1. ASSUME NEW v \in Uris, Open(v), Losses(v) = {}
        PROVE  \/ pushed'[v] = documents[v].text
               \/ \E p \in InWork' : p.uri = v /\ p.text = documents[v].text
    <3>1. CASE pushed[v] = documents[v].text
      BY <1>2, <1>3, <1>7, <2>1, <3>1, InWorkTyped
    <3>2. CASE pushed[v] # documents[v].text
      <4>1. PICK p \in InWork : p.uri = v /\ p.text = documents[v].text
        BY <2>1, <3>2 DEF Way, Arriving
      <4> QED BY <1>3, <1>4, <4>1
    <3> QED BY <3>1, <3>2
  <2>2. \A v \in Uris : Losses(v)' = Losses(v)
    BY <1>1 DEF Losses
  <2>3. pushed'[call'[Worker].uri] = call'[Worker].text
    BY <1>2, <1>3
  <2> QED BY <1>1, <1>5, <2>1, <2>2, <2>3 DEF Arriving
<1> QED BY <1>8, <1>9, <1>10, <1>11 DEF Way

(* The push's request ends: it had arrived, or it is a loss. *)
LEMMA SettleWay ==
    ASSUME TypeOK, Way, Settle(Worker)
    PROVE  Way'
<1> DEFINE k == call[Worker]
<1>1. /\ k # None /\ UNCHANGED <<documents, notes, pushed, events, pending, batch>>
  BY DEF Settle, Answered, Failed, editorVars, workerVars
<1>2. call'[Worker] = None
  BY AnsweredCalls, FailedDoes DEF Settle, Actors
<1>3. /\ behind \subseteq behind'
      /\ \/ k.reached
         \/ <<k.uri, "failed">> \in behind'
  BY FailedDoes DEF Settle, Actors, Answered
<1> HIDE DEF k
<1>4. /\ Owed' = Owed /\ Scheduled' = Scheduled /\ Updates' = Updates
      /\ InWork = Owed \cup {k} /\ InWork' = Owed
  BY <1>1, <1>2 DEF Owed, Scheduled, Updates, InWork, k
<1>5. \A v \in Uris : Open(v)' <=> Open(v)
  BY <1>1 DEF Open
<1>6. Texts'
  <2>1. \A q \in InWork' : \E r \in InWork : r.uri = q.uri /\ r.text = q.text /\ r.id = q.id
    BY <1>4
  <2> QED BY <1>1, <2>1, TextsKept DEF Way
<1>7. OnePush'
  BY <1>4 DEF Way, OnePush
<1>8. Pipeline'
  <2>1. \A i, j \in DOMAIN events' :
          i < j /\ events'[i].update # None /\ events'[j].update # None
             => InOrder(events'[i].update, events'[j].update)
    BY <1>1 DEF Way, Pipeline
  <2>2. \A q \in Scheduled', r \in Updates' : InOrder(q, r)
    BY <1>4 DEF Way, Pipeline
  <2> HIDE DEF InOrder
  <2> QED BY <1>2, <2>1, <2>2 DEF Pipeline
<1>9. Arriving'
  <2>1. ASSUME NEW v \in Uris, Open(v), Losses(v)' = {}, pushed[v] # documents[v].text
        PROVE  \E p \in InWork' : p.uri = v /\ p.text = documents[v].text
    <3>1. Losses(v) = {}
      BY <1>3, <2>1 DEF Losses
    <3>2. PICK p \in InWork : p.uri = v /\ p.text = documents[v].text
      BY <2>1, <3>1 DEF Way, Arriving
    <3>3. CASE p = k
      <4>1. <<k.uri, "failed">>[1] = k.uri
        OBVIOUS
      <4>2. k.reached
        BY <1>3, <2>1, <3>2, <3>3, <4>1 DEF Losses
      <4>3. pushed[k.uri] = k.text
        BY <1>1, <4>2 DEF Way, Arriving, k
      <4> QED BY <2>1, <3>2, <3>3, <4>3
    <3> QED BY <1>4, <3>2, <3>3
  <2> QED BY <1>1, <1>2, <1>5, <2>1 DEF Arriving
<1> QED BY <1>6, <1>7, <1>8, <1>9 DEF Way

(* A flush event changes nothing about the pushes. *)
LEMMA BeginCheckWay ==
    ASSUME TypeOK, Way, NEW c \in Commands, BeginCheck(c), running
    PROVE  Way'
<1>1. UNCHANGED <<documents, pending, batch, notes, pushed, behind, call>>
  BY DEF BeginCheck, editorVars, callVars
<1>2. PICK n \in Nat : Asked(c, n)
  BY BeginCheckRuns
<1>3. /\ DOMAIN events' = DOMAIN events \cup {n} /\ DOMAIN events \subseteq Nat
      /\ \A i \in DOMAIN events : i < n /\ events'[i] = events[i]
      /\ events'[n].update = None /\ Updates' = Updates
  BY <1>2 DEF Asked
<1>4. Owed' = Owed /\ InWork' = InWork /\ Scheduled' = Scheduled
  BY <1>1, <1>3 DEF Owed, InWork, Scheduled
<1>5. \A u \in Uris : Open(u)' <=> Open(u)
  BY <1>1 DEF Open
<1>6. Texts'
  BY <1>1, <1>4, TextsKept DEF Way
<1>7. OnePush'
  BY <1>4 DEF Way, OnePush
<1>8. Pipeline'
  <2>1. \A i, j \in DOMAIN events' :
          i < j /\ events'[i].update # None /\ events'[j].update # None
             => InOrder(events'[i].update, events'[j].update)
    BY <1>3 DEF Way, Pipeline
  <2>2. \A q \in Scheduled', r \in Updates' : InOrder(q, r)
    BY <1>3, <1>4 DEF Way, Pipeline
  <2>3. call'[Worker] # None => \A q \in Owed' : InOrder(call'[Worker], q)
    BY <1>1, <1>4 DEF Way, Pipeline
  <2> HIDE DEF InOrder
  <2> QED BY <2>1, <2>2, <2>3 DEF Pipeline
<1>9. Arriving'
  BY <1>1, <1>4 DEF Way, Arriving, Losses, Open
<1> QED BY <1>6, <1>7, <1>8, <1>9 DEF Way

LEMMA WayKept ==
    ASSUME TypeOK, Handlers, Way, [Next]_vars
    PROVE  Way'
<1> USE DEF editorVars, workerVars, outVars, callVars
<1>1. CASE Notify
  <2>1. Texts
    BY DEF Way
  <2> QED BY <1>1, <2>1, NotifySchedules, ScheduleWay
<1>2. CASE WorkerUpdate \/ WorkerFlush \/ WorkerTick \/ WorkerSends
  BY <1>2, UpdateWay, MoveWay, SendsWay
<1>3. CASE WorkerAcks
  BY <1>3, WayStays DEF WorkerAcks
<1>4. CASE Terminated \/ UNCHANGED vars
  BY <1>4, WayStays DEF Terminated, vars
<1>5. ASSUME NEW c \in Commands, Issue(c)
      PROVE  Way'
  BY <1>5, IssueTypes, WayStays DEF Issue
<1>6. ASSUME NEW c \in Commands, Handler(c) \/ Cancel(c)
      PROVE  Way'
  <2>1. c \in Actors /\ c # Worker /\ Worker \in Actors
    BY ServerAssumption DEF Actors
  <2>2. /\ UNCHANGED <<pending, batch, notes, documents, pushed, behind>>
    BY <1>6 DEF Handler, BeginCheck, CheckNext, Ask, Clear, Sweep, Finish, Cancel
  <2>3. call'[Worker] = call[Worker]
    <3>1. CASE BeginCheck(c) \/ Clear(c) \/ Sweep(c) \/ Finish(c)
      BY <3>1 DEF BeginCheck, Clear, Sweep, Finish
    <3>2. CASE CheckNext(c) \/ Ask(c) \/ Cancel(c)
      BY <2>1, <3>2, CheckNextDoes, AskDoes, CancelDoes
    <3> QED BY <1>6, <3>1, <3>2 DEF Handler
  <2>4. CASE BeginCheck(c) /\ running
    BY <2>4, BeginCheckWay
  <2>5. CASE ~(BeginCheck(c) /\ running)
    <3>1. UNCHANGED events
      BY <1>6, <2>5 DEF Handler, BeginCheck, CheckNext, Ask, Clear, Sweep, Finish, Cancel
    <3> QED BY <2>2, <2>3, <3>1, WayStays
  <2> QED BY <2>4, <2>5
<1>7. ASSUME NEW c \in Actors, Publish(c)
      PROVE  Way'
  BY <1>7, WayStays DEF Publish
<1>8. ASSUME NEW c \in Actors, Reach(c) \/ Settle(c)
      PROVE  Way'
  <2>1. CASE c = Worker
    BY <1>8, <2>1, ReachWay, SettleWay
  <2>2. CASE c # Worker
    <3>1. UNCHANGED <<documents, events, pending, batch, notes, pushed, behind>>
      <4>1. CASE Reach(c)
        BY <2>2, <4>1, ReachDoes DEF Reach, Way
      <4>2. CASE Settle(c)
        BY <2>2, <4>2 DEF Settle, Answered, Failed
      <4> QED BY <1>8, <4>1, <4>2
    <3>2. call'[Worker] = call[Worker]
      <4>1. Worker \in Actors \ {c}
        BY <2>2 DEF Actors
      <4>2. CASE Reach(c)
        BY <4>1, <4>2, ReachDoes DEF Way
      <4>3. CASE Answered(c)
        BY <4>1, <4>3, AnsweredCalls
      <4>4. CASE Failed(c)
        BY <4>1, <4>4, FailedDoes
      <4> QED BY <1>8, <4>2, <4>3, <4>4 DEF Settle
    <3> QED BY <3>1, <3>2, WayStays
  <2> QED BY <2>1, <2>2
<1> QED BY <1>1, <1>2, <1>3, <1>4, <1>5, <1>6, <1>7, <1>8 DEF Next, PushWorker

(* Every step keeps the types. *)
LEMMA TypeKept ==
    ASSUME TypeOK, Handlers, Texts, [Next]_vars
    PROVE  TypeOK'
<1>1. CASE Notify
  BY <1>1, NotifySchedules, ScheduleTypes
<1>2. CASE PushWorker
  BY <1>2, UpdateTypes, FlushTypes, TickTypes, SendsTypes, AcksTypes DEF PushWorker
<1>3. CASE Terminated \/ UNCHANGED vars
  BY <1>3 DEF Terminated, vars, editorVars, workerVars, outVars, callVars, TypeOK
<1>4. ASSUME NEW c \in Commands, Issue(c) \/ Cancel(c)
      PROVE  TypeOK'
  BY <1>4, IssueTypes, CancelDoes
<1>5. ASSUME NEW c \in Commands, Handler(c)
      PROVE  TypeOK'
  <2>1. CASE BeginCheck(c)
    BY <2>1, BeginCheckRuns, BeginCheckStopped
  <2>2. CASE CheckNext(c) \/ Ask(c) \/ Clear(c)
    BY <2>2, CheckNextDoes, AskDoes, ClearDoes
  <2>3. CASE Sweep(c) \/ Finish(c)
    BY <2>3, SweepDoes, FinishDoes
  <2> QED BY <1>5, <2>1, <2>2, <2>3 DEF Handler
<1>6. ASSUME NEW c \in Actors, Publish(c) \/ Reach(c) \/ Settle(c)
      PROVE  TypeOK'
  BY <1>6, PublishDoes, ReachDoes, AnsweredDoes, FailedDoes DEF Settle
<1> QED BY <1>1, <1>2, <1>3, <1>4, <1>5, <1>6 DEF Next

-----------------------------------------------------------------------------
(* Flushes. *)

(* What is on its way was on its way before, or is the push just scheduled. *)
LEMMA WorkComes ==
    ASSUME TypeOK, Handlers, Texts, [Next]_vars
    PROVE  \A q \in InWork' : (\E p \in InWork : p.uri = q.uri /\ p.id = q.id) \/ q.id = notes + 1
<1> DEFINE Same(q) == \E p \in InWork : p.uri = q.uri /\ p.id = q.id
<1> USE DEF editorVars, workerVars, outVars, callVars
<1>1. CASE Notify
  <2>1. PICK u \in Uris, version \in Nat, text \in Nat : Schedule(u, version, text)
    BY <1>1, NotifySchedules
  <2>2. PICK p \in Push, n \in Nat : Queued(p, n)
    BY <1>1, <2>1, NotifySchedules, ScheduleTypes
  <2>3. UNCHANGED <<pending, batch, call>> /\ Updates' = Updates \cup {p} /\ p.id = notes + 1
    BY <2>1, <2>2 DEF Schedule, Queued
  <2>4. InWork' = InWork \cup {p} /\ p.id = notes + 1
    BY <2>3 DEF InWork, Owed, TypeOK
  <2> QED BY <2>4
<1>2. ASSUME InWork' \subseteq InWork
      PROVE  \A q \in InWork' : Same(q)
  BY <1>2
<1>3. CASE WorkerUpdate
  <2>1. Updates' \subseteq Updates /\ Updates = Updates' \cup ({Head(events).update} \ {None})
    BY <1>3, EventTaken DEF WorkerUpdate
  <2>2. pending' \subseteq pending \cup Updates /\ UNCHANGED <<batch, call>>
    BY <1>3, <2>1 DEF WorkerUpdate, Supersede
  <2>3. InWork' \subseteq InWork
    BY <2>1, <2>2 DEF InWork, Owed
  <2> QED BY <1>2, <2>3
<1>4. CASE WorkerFlush \/ WorkerTick \/ WorkerAcks \/ Terminated \/ UNCHANGED vars
  <2>1. Updates' \subseteq Updates
    <3>1. CASE WorkerFlush
      BY <3>1, EventTaken DEF WorkerFlush
    <3>2. CASE ~WorkerFlush
      BY <1>4, <3>2 DEF WorkerTick, WorkerAcks, Terminated, vars, Updates
    <3> QED BY <3>1, <3>2
  <2>2. pending' \cup batch' \subseteq pending \cup batch /\ UNCHANGED call
    BY <1>4 DEF WorkerFlush, WorkerTick, WorkerAcks, Terminated, vars, WorkerIdle
  <2>3. InWork' \subseteq InWork
    BY <2>1, <2>2 DEF InWork, Owed
  <2> QED BY <1>2, <2>3
<1>5. CASE WorkerSends
  <2>1. PICK p \in batch :
           /\ batch' = batch \ {p}
           /\ IF running THEN Request(Worker, "push", p.uri, p.id, p.text) ELSE UNCHANGED call
    BY <1>5 DEF WorkerSends
  <2>2. p.uri \in Uris /\ p.id \in Nat /\ p.text \in Nat /\ Worker \in Actors /\ p \in InWork
    BY DEF TypeOK, Push, Actors, InWork, Owed
  <2>3. UNCHANGED <<events, pending>>
    BY <1>5 DEF WorkerSends
  <2>4. Owed' \subseteq Owed
    BY <2>1, <2>3 DEF Owed, Updates
  <2>5. \/ call'[Worker].uri = p.uri /\ call'[Worker].id = p.id
        \/ UNCHANGED call
    <3>1. CASE running
      <4>1. Request(Worker, "push", p.uri, p.id, p.text) /\ p \in Push
        BY <2>1, <3>1 DEF TypeOK
      <4> QED BY <4>1, PushMade
    <3>2. CASE ~running
      BY <2>1, <3>2
    <3> QED BY <3>1, <3>2
  <2> QED BY <2>2, <2>4, <2>5 DEF InWork
<1>6. ASSUME UNCHANGED <<pending, batch>>, Updates' = Updates, call'[Worker] = call[Worker]
      PROVE  \A q \in InWork' : Same(q)
  <2>1. InWork' \subseteq InWork
    BY <1>6 DEF InWork, Owed
  <2> QED BY <1>2, <2>1
<1>7. ASSUME NEW c \in Commands, Issue(c) \/ Handler(c) \/ Cancel(c)
      PROVE  \A q \in InWork' : Same(q)
  <2>1. c \in Actors /\ c # Worker /\ Worker \in Actors \ {c}
    BY ServerAssumption DEF Actors
  <2>2. UNCHANGED <<pending, batch>>
    BY <1>7 DEF Handler, Issue, BeginCheck, CheckNext, Ask, Clear, Sweep, Finish, Cancel
  <2>3. Updates' = Updates
    <3>1. CASE BeginCheck(c) /\ running
      BY <3>1, BeginCheckRuns DEF Asked
    <3>2. CASE ~(BeginCheck(c) /\ running)
      BY <1>7, <3>2 DEF Handler, Issue, BeginCheck, CheckNext, Ask, Clear, Sweep, Finish, Cancel,
                        Updates
    <3> QED BY <3>1, <3>2
  <2>4. call'[Worker] = call[Worker]
    <3>1. CASE Issue(c) \/ BeginCheck(c) \/ Clear(c) \/ Sweep(c) \/ Finish(c)
      BY <3>1 DEF Issue, BeginCheck, Clear, Sweep, Finish
    <3>2. CASE CheckNext(c) \/ Ask(c) \/ Cancel(c)
      BY <2>1, <3>2, CheckNextDoes, AskDoes, CancelDoes
    <3> QED BY <1>7, <3>1, <3>2 DEF Handler
  <2> QED BY <1>6, <2>2, <2>3, <2>4
<1>8. ASSUME NEW c \in Actors, Publish(c)
      PROVE  \A q \in InWork' : Same(q)
  BY <1>6, <1>8 DEF Publish, Updates
<1>9. ASSUME NEW c \in Actors, Reach(c) \/ Settle(c)
      PROVE  \A q \in InWork' : Same(q)
  <2>1. UNCHANGED <<pending, batch>> /\ Updates' = Updates
    BY <1>9 DEF Reach, Settle, Answered, Failed, Updates
  <2>2. CASE c = Worker
    <3>1. \/ call'[Worker] = None
          \/ call[Worker] # None /\ call'[Worker].uri = call[Worker].uri
             /\ call'[Worker].id = call[Worker].id
      BY <1>9, <2>2, ReachDoes, AnsweredCalls, FailedDoes DEF Settle, Reach
    <3> QED BY <2>1, <3>1 DEF InWork, Owed
  <2>3. CASE c # Worker
    <3>1. Worker \in Actors \ {c}
      BY <2>3 DEF Actors
    <3>2. call'[Worker] = call[Worker]
      <4>1. CASE Reach(c)
        BY <3>1, <4>1, ReachDoes
      <4>2. CASE Answered(c)
        BY <3>1, <4>2, AnsweredCalls
      <4>3. CASE Failed(c)
        BY <3>1, <4>3, FailedDoes
      <4> QED BY <1>9, <4>1, <4>2, <4>3 DEF Settle
    <3> QED BY <1>6, <2>1, <3>2
  <2> QED BY <2>2, <2>3
<1> QED BY <1>1, <1>3, <1>4, <1>5, <1>7, <1>8, <1>9 DEF Next, PushWorker

(* What a step does to one handler's task: it keeps its place, if with fewer *)
(* checks; or it has no checks and waits for no flush; or it begins to wait  *)
(* for its flush; or its flush is acknowledged.                              *)
Keeps(c) ==
    /\ command'[c].stage = command[c].stage /\ command'[c].serial = command[c].serial
    /\ command'[c].checks \subseteq command[c].checks

Idles(c) ==
    /\ command'[c].checks = {} /\ command'[c].stage # "flushing"
    /\ command[c].stage \in {"flushing", "done"} => command'[c].stage = "done"

LEMMA TaskMoves ==
    ASSUME TypeOK, Handlers, [Next]_vars, NEW c \in Commands,
           ~WorkerAcks, ~(BeginCheck(c) /\ running)
    PROVE  Keeps(c) \/ Idles(c)
<1> USE DEF editorVars, workerVars, outVars, callVars
<1>1. CASE UNCHANGED command
  BY <1>1 DEF Keeps
<1>2. CASE Notify \/ PushWorker \/ Terminated \/ UNCHANGED vars
  BY <1>1, <1>2 DEF Notify, DidOpen, DidChange, DidSave, Schedule, PushWorker, WorkerUpdate,
                    WorkerFlush, WorkerTick, WorkerSends, Terminated, vars
<1>3. ASSUME NEW d \in Commands, d # c, Issue(d) \/ Handler(d) \/ Cancel(d)
      PROVE  Keeps(c)
  <2>1. command'[c] = command[c]
    <3>1. CASE Issue(d) \/ Cancel(d) \/ Finish(d)
      BY <1>3, <3>1, IssueTypes, CancelDoes, FinishDoes
    <3>2. CASE BeginCheck(d)
      BY <1>3, <3>2, BeginCheckRuns, BeginCheckStopped
    <3>3. CASE CheckNext(d) \/ Ask(d)
      BY <1>3, <3>3, CheckNextDoes, AskDoes
    <3>4. CASE Clear(d) \/ Sweep(d)
      BY <1>3, <3>4, ClearDoes, SweepDoes
    <3> QED BY <1>3, <3>1, <3>2, <3>3, <3>4 DEF Handler
  <2> QED BY <2>1 DEF Keeps
<1>4. CASE Issue(c)
  <2>1. command[c].stage = "unused"
    BY <1>4 DEF Issue
  <2>2. command[c].checks = {}
    BY <2>1 DEF Handlers, Standing
  <2> QED BY <1>4, <2>1, <2>2, IssueTypes DEF Idles
<1>5. CASE BeginCheck(c) /\ ~running
  BY <1>5, BeginCheckStopped DEF Idles
<1>6. CASE Cancel(c) \/ Finish(c)
  BY <1>6, CancelDoes, FinishDoes DEF Idles
<1>7. CASE CheckNext(c)
  BY <1>7, CheckNextDoes DEF Keeps, CheckNext
<1>8. CASE Ask(c)
  <2>1. command[c].stage = "asking"
    BY <1>8 DEF Ask
  <2>2. command[c].checks = {}
    BY <2>1 DEF Handlers, Standing
  <2> QED BY <1>8, <2>1, <2>2, AskDoes DEF Idles
<1>9. CASE Clear(c) \/ Sweep(c)
  <2>1. command[c].stage \in {"clearing", "sweeping"}
    BY <1>9 DEF Clear, Sweep
  <2>2. command[c].checks = {}
    BY <2>1 DEF Handlers, Standing
  <2> QED BY <1>9, <2>1, <2>2, ClearDoes, SweepDoes DEF Idles
<1>10. ASSUME NEW d \in Actors, Publish(d) \/ Reach(d) \/ Settle(d)
       PROVE  Keeps(c)
  <2>1. CASE UNCHANGED command
    BY <2>1 DEF Keeps
  <2>2. CASE Publish(d) \/ Reach(d) \/ Answered(d)
    BY <2>1, <2>2 DEF Publish, Reach, Answered
  <2>3. CASE Failed(d)
    <3>1. CASE d = Worker
      BY <2>1, <2>3, <3>1, FailedDoes
    <3>2. CASE d # Worker
      BY <2>3, <3>2, FailedDoes DEF Keeps
    <3> QED BY <3>1, <3>2
  <2> QED BY <1>10, <2>2, <2>3 DEF Settle
<1> QED BY <1>2, <1>3, <1>4, <1>5, <1>6, <1>7, <1>8, <1>9, <1>10 DEF Next, Handler

(* The check that was made can only have lost its checks since, or come      *)
(* from its flush, which has covered them.                                   *)
LEMMA CoversKept ==
    ASSUME TypeOK, Handlers, Texts, Flushing, FlushCovers, [Next]_vars
    PROVE  FlushCovers'
<1>1. ASSUME NEW c \in Commands, command'[c].stage = "working", NEW t \in command'[c].checks,
             NEW q \in InWork', q.uri = t.uri
      PROVE  q.id > command'[c].serial
  <2>1. command[c].serial \in Nat /\ command[c].serial <= notes /\ notes \in Nat
    <3>1. command[c].serial \in 0..MaxNotes
      BY CommandTyped
    <3> QED BY <3>1 DEF Handlers, Standing, TypeOK
  <2>2. CASE WorkerAcks /\ c = ack /\ command[c].stage = "flushing"
    <3>1. /\ command'[c].checks = command[c].checks /\ command'[c].serial = command[c].serial
          /\ ack # None
      BY <2>2, StageChanges DEF WorkerAcks, Stages
    <3>2. UNCHANGED <<events, pending, call, batch>> /\ batch = {} /\ call[Worker] = None
      BY <2>2 DEF WorkerAcks, Free, callVars
    <3>3. q \in Updates \cup pending
      BY <3>2 DEF InWork, Owed, Updates
    <3> QED BY <1>1, <2>2, <3>1, <3>3 DEF Flushing
  <2>3. CASE Keeps(c)
    <3>1. /\ command[c].stage = "working" /\ t \in command[c].checks
          /\ command'[c].serial = command[c].serial
      BY <1>1, <2>3 DEF Keeps
    <3>2. CASE q.id = notes + 1
      BY <2>1, <3>1, <3>2
    <3>3. CASE q.id # notes + 1
      <4>1. PICK p \in InWork : p.uri = q.uri /\ p.id = q.id
        BY <1>1, <3>3, WorkComes
      <4>2. p \in Owed \/ (call[Worker] # None /\ p = call[Worker])
        BY DEF InWork
      <4> QED BY <1>1, <3>1, <4>1, <4>2 DEF FlushCovers
    <3> QED BY <3>2, <3>3
  <2>4. CASE ~WorkerAcks /\ ~Keeps(c)
    <3>1. ~(BeginCheck(c) /\ running)
      BY <1>1, BeginCheckRuns
    <3>2. Idles(c)
      BY <2>4, <3>1, TaskMoves
    <3> QED BY <1>1, <3>2 DEF Idles
  <2>5. CASE WorkerAcks /\ ~(c = ack /\ command[c].stage = "flushing")
    <3>1. command'[c] = command[c]
      <4>1. CASE command[ack].stage = "flushing"
        <5>1. ack \in Commands
          BY <2>5 DEF WorkerAcks, TypeOK
        <5>2. \A d \in Commands \ {ack} : command'[d] = command[d]
          BY <2>5, <4>1, <5>1, StageChanges DEF WorkerAcks, Stages
        <5> QED BY <2>5, <4>1, <5>2
      <4>2. CASE command[ack].stage # "flushing"
        BY <2>5, <4>2 DEF WorkerAcks
      <4> QED BY <4>1, <4>2
    <3>2. Keeps(c)
      BY <3>1 DEF Keeps
    <3> QED BY <2>3, <3>2
  <2> QED BY <2>2, <2>3, <2>4, <2>5
<1>2. \A q \in Owed' : q \in InWork'
  BY DEF InWork
<1>3. call'[Worker] # None => call'[Worker] \in InWork'
  BY DEF InWork
<1> QED BY <1>1, <1>2, <1>3 DEF FlushCovers

LEMMA FlushingStays ==
    ASSUME TypeOK, Flushing, UNCHANGED <<events, pending, ack>>,
           \A c \in Commands : Keeps(c) \/ Idles(c)
    PROVE  Flushing'
<1>1. ASSUME NEW c \in Commands, command[c].stage \in {"flushing", "done"}
      PROVE  /\ command'[c].stage \in {"flushing", "done"}
             /\ command'[c].stage = "flushing" =>
                  /\ command[c].stage = "flushing" /\ command'[c].checks \subseteq command[c].checks
                  /\ command'[c].serial = command[c].serial
  BY <1>1 DEF Keeps, Idles
<1>2. Updates' = Updates
  BY DEF Updates
<1>3. ASSUME NEW i \in DOMAIN events, events[i].update = None
      PROVE  LET c == events[i].by IN
               /\ c \in Commands /\ c # ack /\ command'[c].stage \in {"flushing", "done"}
               /\ Behind(c, i)'
  <2>1. LET c == events[i].by IN
          /\ c \in Commands /\ c # ack /\ command[c].stage \in {"flushing", "done"}
          /\ Behind(c, i)
    BY <1>3 DEF Flushing
  <2> QED BY <1>1, <2>1 DEF Behind
<1>4. ASSUME ack # None
      PROVE  /\ command'[ack].stage \in {"flushing", "done"}
             /\ command'[ack].stage = "flushing" =>
                  \A t \in command'[ack].checks : \A p \in Updates \cup pending :
                     p.uri = t.uri => p.id > command'[ack].serial
  <2>1. ack \in Commands /\ command[ack].stage \in {"flushing", "done"}
    BY <1>4 DEF Flushing, TypeOK
  <2> QED BY <1>1, <1>4, <2>1 DEF Flushing
<1> QED BY <1>2, <1>3, <1>4 DEF Flushing

(* A push that is scheduled is newer than every snapshot taken. *)
LEMMA ScheduleFlushing ==
    ASSUME TypeOK, Handlers, Texts, Flushing, Notify
    PROVE  Flushing'
<1>1. PICK u \in Uris, version \in Nat, text \in Nat : Schedule(u, version, text)
  BY NotifySchedules
<1>2. PICK p \in Push, n \in Nat : Queued(p, n)
  BY <1>1, NotifySchedules, ScheduleTypes
<1>3. UNCHANGED <<pending, ack, command>>
  BY <1>1 DEF Schedule
<1>4. /\ p # None /\ p.id = notes + 1
      /\ DOMAIN events' = DOMAIN events \cup {n} /\ DOMAIN events \subseteq Nat
      /\ events'[n].update = p /\ \A i \in DOMAIN events : i < n /\ events'[i] = events[i]
      /\ Updates' = Updates \cup {p}
  BY <1>2 DEF Queued
<1>5. \A c \in Commands : p.id > command[c].serial
  <2>1. \A c \in Commands : command[c].serial \in 0..MaxNotes
    BY CommandTyped
  <2> QED BY <1>4, <2>1 DEF Handlers, Standing, TypeOK
<1>6. ASSUME NEW i \in DOMAIN events', events'[i].update = None
      PROVE  i \in DOMAIN events /\ events'[i] = events[i] /\ events[i].update = None
  BY <1>4, <1>6
<1>7. ASSUME NEW i \in DOMAIN events', events'[i].update = None, NEW c, c = events'[i].by
      PROVE  /\ c \in Commands /\ c # ack /\ command[c].stage \in {"flushing", "done"}
             /\ Behind(c, i)'
  <2>1. i \in DOMAIN events /\ events'[i] = events[i] /\ events[i].update = None
    BY <1>6, <1>7
  <2>2. /\ c \in Commands /\ c # ack /\ command[c].stage \in {"flushing", "done"}
        /\ Behind(c, i)
    BY <1>7, <2>1 DEF Flushing
  <2> QED BY <1>3, <1>4, <1>5, <2>1, <2>2 DEF Behind
<1>8. \A i, j \in DOMAIN events' :
        events'[i].update = None /\ events'[j].update = None /\ events'[i].by = events'[j].by
           => i = j
  BY <1>6 DEF Flushing
<1>9. ack # None =>
        /\ command[ack].stage \in {"flushing", "done"}
        /\ command[ack].stage = "flushing" =>
             \A t \in command[ack].checks : \A q \in Updates' \cup pending :
                q.uri = t.uri => q.id > command[ack].serial
  BY <1>4, <1>5 DEF Flushing, TypeOK
<1> QED BY <1>3, <1>7, <1>8, <1>9 DEF Flushing, Behind

LEMMA BeginCheckFlushing ==
    ASSUME TypeOK, Handlers, Flushing, NEW c \in Commands, BeginCheck(c), running
    PROVE  Flushing'
<1>1. /\ command[c].stage = "beginning" /\ UNCHANGED <<pending, ack>>
      /\ command'[c].stage = "flushing"
      /\ \A d \in Commands \ {c} : command'[d] = command[d]
  BY BeginCheckRuns DEF BeginCheck
<1>2. PICK n \in Nat : Asked(c, n)
  BY BeginCheckRuns
<1>3. /\ DOMAIN events' = DOMAIN events \cup {n} /\ DOMAIN events \subseteq Nat
      /\ \A i \in DOMAIN events : i < n /\ events'[i] = events[i]
      /\ events'[n].update = None /\ events'[n].by = c
      /\ \A t \in command'[c].checks : t.uri \in events'[n].uris
      /\ Updates' = Updates
  BY <1>2 DEF Asked
<1>4. ack # c /\ (ack # None => ack \in Commands)
  BY <1>1, ServerAssumption DEF Flushing, TypeOK
<1>5. ASSUME NEW i \in DOMAIN events, events[i].update = None, NEW d, d = events[i].by
      PROVE  /\ d \in Commands \ {c} /\ d # ack
             /\ command'[d].stage \in {"flushing", "done"} /\ Behind(d, i)'
  <2>1. /\ d \in Commands /\ d # ack /\ command[d].stage \in {"flushing", "done"}
        /\ Behind(d, i)
    BY <1>5 DEF Flushing
  <2>2. d # c
    BY <1>1, <2>1
  <2> QED BY <1>1, <1>3, <2>1, <2>2 DEF Behind
<1>6. Behind(c, n)'
  <2>1. \A j \in DOMAIN events' : ~(j > n)
    BY <1>3
  <2> QED BY <1>3, <2>1 DEF Behind
<1>7. ASSUME NEW i \in DOMAIN events', events'[i].update = None, NEW d, d = events'[i].by
      PROVE  /\ d \in Commands /\ d # ack
             /\ command'[d].stage \in {"flushing", "done"} /\ Behind(d, i)'
  <2>1. CASE i = n
    BY <1>1, <1>3, <1>4, <1>6, <1>7, <2>1
  <2>2. CASE i # n
    <3>1. i \in DOMAIN events /\ events'[i] = events[i]
      BY <1>3, <2>2
    <3> QED BY <1>5, <1>7, <3>1
  <2> QED BY <2>1, <2>2
<1>8. \A i, j \in DOMAIN events' :
        events'[i].update = None /\ events'[j].update = None /\ events'[i].by = events'[j].by
           => i = j
  BY <1>3, <1>5 DEF Flushing
<1>9. ack # None =>
        /\ command'[ack].stage \in {"flushing", "done"}
        /\ command'[ack].stage = "flushing" =>
             \A t \in command'[ack].checks : \A p \in Updates' \cup pending :
                p.uri = t.uri => p.id > command'[ack].serial
  BY <1>1, <1>3, <1>4 DEF Flushing
<1> QED BY <1>1, <1>7, <1>8, <1>9 DEF Flushing, Behind

(* The worker takes an event. *)
LEMMA TakeFlushing ==
    ASSUME TypeOK, Flushing, WorkerUpdate \/ WorkerFlush
    PROVE  Flushing'
<1>1. /\ ack = None /\ events # <<>> /\ events' = Tail(events) /\ UNCHANGED command
  BY DEF WorkerUpdate, WorkerFlush, WorkerIdle
<1>2. /\ Head(events) = events[1] /\ 1 \in DOMAIN events
      /\ DOMAIN events \subseteq Nat /\ DOMAIN events' \subseteq Nat
      /\ \A i \in DOMAIN events' : i + 1 \in DOMAIN events /\ events'[i] = events[i + 1]
      /\ \A i \in DOMAIN events' : i + 1 # 1
  <2>1. events' \in Seq(Events)
    BY <1>1, EventTaken
  <2>2. DOMAIN events' = 1..Len(events') /\ Len(events') \in Nat
    BY <2>1
  <2> QED BY <1>1, <2>2, EventTaken
<1>3. ASSUME NEW i \in DOMAIN events', events'[i].update = None, NEW c, c = events'[i].by
      PROVE  /\ c \in Commands /\ command[c].stage \in {"flushing", "done"}
             /\ Behind(c, i)'
             /\ Head(events).update = None => c # Head(events).by
  <2>1. i + 1 \in DOMAIN events /\ events'[i] = events[i + 1] /\ i + 1 # 1
    BY <1>2
  <2>2. /\ c \in Commands /\ c # ack /\ command[c].stage \in {"flushing", "done"}
        /\ Behind(c, i + 1)
    BY <1>3, <2>1 DEF Flushing
  <2>3. Behind(c, i)'
    <3>1. ASSUME command[c].stage = "flushing", NEW j \in DOMAIN events', j > i,
                 events'[j].update # None
          PROVE  events'[j].update.id > command[c].serial
      <4>1. j + 1 \in DOMAIN events /\ events'[j] = events[j + 1] /\ j + 1 > i + 1
        BY <1>2, <3>1
      <4> QED BY <2>1, <2>2, <3>1, <4>1 DEF Behind
    <3>2. command[c].stage = "flushing" => \A t \in command[c].checks : t.uri \in events'[i].uris
      BY <2>1, <2>2 DEF Behind
    <3> QED BY <1>1, <3>1, <3>2 DEF Behind
  <2>4. Head(events).update = None => c # Head(events).by
    BY <1>2, <1>3, <2>1 DEF Flushing
  <2> QED BY <2>1, <2>2, <2>3, <2>4
<1>4. \A i, j \in DOMAIN events' :
        events'[i].update = None /\ events'[j].update = None /\ events'[i].by = events'[j].by
           => i = j
  <2>1. ASSUME NEW i \in DOMAIN events', NEW j \in DOMAIN events', events'[i].update = None,
               events'[j].update = None, events'[i].by = events'[j].by
        PROVE  i = j
    <3>1. i + 1 = j + 1
      BY <1>2, <2>1 DEF Flushing
    <3> QED BY <1>2, <3>1
  <2> QED BY <2>1
<1>5. CASE WorkerUpdate
  <2>1. ack' = None
    BY <1>1, <1>5 DEF WorkerUpdate
  <2>2. \A c \in Commands : c # None
    BY ServerAssumption
  <2> QED BY <1>1, <1>3, <1>4, <2>1, <2>2 DEF Flushing, Behind
<1>6. CASE WorkerFlush
  <2> DEFINE c == Head(events).by
  <2>1. /\ Head(events).update = None /\ ack' = c
        /\ batch' = {p \in pending : p.uri \in Head(events).uris} /\ pending' = pending \ batch'
    BY <1>6 DEF WorkerFlush
  <2>2. c \in Commands /\ command[c].stage \in {"flushing", "done"} /\ Behind(c, 1)
    BY <1>2, <2>1 DEF Flushing
  <2>3. ASSUME command[c].stage = "flushing", NEW t \in command[c].checks,
               NEW p \in Updates' \cup pending', p.uri = t.uri
        PROVE  p.id > command[c].serial
    <3>1. t.uri \in Head(events).uris
      BY <1>2, <2>2, <2>3 DEF Behind
    <3>2. p \in Updates'
      BY <2>1, <2>3, <3>1
    <3>3. PICK j \in DOMAIN events' : p = events'[j].update /\ p # None
      BY <3>2 DEF Updates
    <3>4. j + 1 \in DOMAIN events /\ events[j + 1].update = p /\ j + 1 > 1
      <4>1. j \in Nat /\ j + 1 # 1 /\ j + 1 \in DOMAIN events /\ events[j + 1].update = p
        BY <1>2, <3>3
      <4> QED BY <4>1
    <3> QED BY <2>2, <2>3, <3>3, <3>4 DEF Behind
  <2> QED BY <1>1, <1>3, <1>4, <2>1, <2>2, <2>3 DEF Flushing, Behind
<1> QED BY <1>5, <1>6

LEMMA FlushingKept ==
    ASSUME TypeOK, Handlers, Texts, Flushing, [Next]_vars
    PROVE  Flushing'
<1> USE DEF editorVars, workerVars, outVars, callVars
<1>1. CASE Notify \/ WorkerUpdate \/ WorkerFlush
  BY <1>1, ScheduleFlushing, TakeFlushing
<1>2. CASE WorkerTick
  BY <1>2 DEF WorkerTick, WorkerIdle, Flushing, Behind
<1>3. CASE WorkerSends
  <2>1. \A c \in Commands : Keeps(c)
    BY <1>3 DEF WorkerSends, Keeps
  <2> QED BY <1>3, <2>1, FlushingStays DEF WorkerSends
<1>4. CASE WorkerAcks
  <2>1. /\ ack \in Commands /\ ack' = None /\ UNCHANGED <<events, pending>>
    BY <1>4 DEF WorkerAcks, TypeOK
  <2>2. \A d \in Commands \ {ack} : command'[d] = command[d]
    <3>1. CASE command[ack].stage = "flushing"
      BY <1>4, <2>1, <3>1, StageChanges DEF WorkerAcks, Stages
    <3>2. CASE command[ack].stage # "flushing"
      BY <1>4, <3>2 DEF WorkerAcks
    <3> QED BY <3>1, <3>2
  <2>3. \A i \in DOMAIN events : events[i].update = None => events[i].by \in Commands \ {ack}
    BY DEF Flushing
  <2>4. None \notin Commands
    BY ServerAssumption
  <2> QED BY <2>1, <2>2, <2>3, <2>4 DEF Flushing, Behind
<1>5. CASE \E c \in Commands : BeginCheck(c) /\ running
  BY <1>5, BeginCheckFlushing
<1>6. CASE ~PushWorker /\ ~Notify /\ ~\E c \in Commands : BeginCheck(c) /\ running
  <2>1. \A c \in Commands : Keeps(c) \/ Idles(c)
    BY <1>6, TaskMoves DEF PushWorker
  <2>2. UNCHANGED <<events, pending, ack>>
    BY <1>6 DEF Next, Issue, Handler, BeginCheck, CheckNext, Ask, Clear, Sweep, Finish, Cancel,
                Publish, Reach, Settle, Answered, Failed, Terminated, vars
  <2> QED BY <2>1, <2>2, FlushingStays
<1> QED BY <1>1, <1>2, <1>3, <1>4, <1>5, <1>6 DEF PushWorker

-----------------------------------------------------------------------------
(* A stop: whoever has decided on a request may still make it, nobody        *)
(* decides on one any more.                                                  *)
LEMMA StoppingStays ==
    ASSUME TypeOK, Stopping, UNCHANGED <<running, late>>,
           \A c \in Actors : call'[c] = call[c] \/ call'[c] = None \/ running
    PROVE  Stopping'
<1>1. ASSUME NEW c \in Actors
      PROVE  late[c] <= 1 /\ (~running => late[c] + Decided(c)' <= 1)
  <2>1. late[c] \in Nat /\ late[c] <= 1 /\ (~running => late[c] + Decided(c) <= 1)
    BY DEF TypeOK, Stopping
  <2>2. CASE call'[c] = call[c]
    BY <2>1, <2>2 DEF Decided
  <2>3. CASE call'[c] = None
    BY <2>1, <2>3 DEF Decided
  <2> QED BY <2>1, <2>2, <2>3
<1> QED BY <1>1 DEF Stopping

LEMMA StoppingKept ==
    ASSUME TypeOK, Handlers, Texts, Stopping, [Next]_vars
    PROVE  Stopping'
<1> USE DEF editorVars, workerVars, outVars, callVars
<1>1. CASE UNCHANGED <<running, late, call>>
  BY <1>1, StoppingStays
<1>2. CASE Notify \/ WorkerUpdate \/ WorkerFlush \/ WorkerTick \/ WorkerAcks \/ Terminated
           \/ UNCHANGED vars
  BY <1>1, <1>2 DEF Notify, DidOpen, DidChange, DidSave, Schedule, WorkerUpdate, WorkerFlush,
                    WorkerTick, WorkerAcks, Terminated, vars
<1>3. CASE WorkerSends
  <2>1. running \/ UNCHANGED call
    BY <1>3 DEF WorkerSends
  <2> QED BY <1>3, <2>1, StoppingStays DEF WorkerSends
<1>4. ASSUME NEW c \in Commands, Issue(c)
      PROVE  Stopping'
  <2>1. UNCHANGED call /\ running' \in BOOLEAN
    BY <1>4, IssueTypes DEF Issue, TypeOK
  <2>2. /\ late' = late \/ \A d \in Actors : late'[d] = 0
        /\ ~running' => ((~running /\ late' = late) \/ \A d \in Actors : late'[d] = 0)
    BY <1>4, IssueTypes
  <2>3. \A d \in Actors : Decided(d)' = Decided(d) /\ Decided(d) \in {0, 1} /\ late[d] \in Nat
    BY <2>1 DEF Decided, TypeOK
  <2> QED BY <2>2, <2>3 DEF Stopping
<1>5. ASSUME NEW c \in Commands, Handler(c) \/ Cancel(c)
      PROVE  Stopping'
  <2>1. UNCHANGED <<running, late>>
    BY <1>5 DEF Handler, BeginCheck, CheckNext, Ask, Clear, Sweep, Finish, Cancel
  <2>2. \A d \in Actors : call'[d] = call[d] \/ call'[d] = None \/ running
    <3>1. CASE BeginCheck(c) \/ Clear(c) \/ Sweep(c) \/ Finish(c)
      BY <3>1 DEF BeginCheck, Clear, Sweep, Finish
    <3>2. CASE CheckNext(c) \/ Ask(c)
      BY <3>2 DEF CheckNext, Ask
    <3>3. CASE Cancel(c)
      BY <3>3, CancelDoes
    <3> QED BY <1>5, <3>1, <3>2, <3>3 DEF Handler
  <2> QED BY <2>1, <2>2, StoppingStays
<1>6. ASSUME NEW c \in Actors, Publish(c)
      PROVE  Stopping'
  BY <1>1, <1>6 DEF Publish
<1>7. ASSUME NEW c \in Actors, Settle(c)
      PROVE  Stopping'
  <2>1. UNCHANGED <<running, late>>
    BY <1>7 DEF Settle, Answered, Failed
  <2>2. call'[c] = None /\ \A d \in Actors \ {c} : call'[d] = call[d]
    <3>1. CASE Answered(c)
      BY <3>1, AnsweredCalls
    <3>2. CASE Failed(c)
      BY <3>2, FailedDoes
    <3> QED BY <1>7, <3>1, <3>2 DEF Settle
  <2> QED BY <2>1, <2>2, StoppingStays
<1>8. ASSUME NEW c \in Actors, Reach(c)
      PROVE  Stopping'
  <2>1. /\ call[c] # None /\ ~call[c].reached /\ UNCHANGED running
    BY <1>8 DEF Reach
  <2>2. /\ call'[c] # None /\ call'[c].reached = TRUE
        /\ \A d \in Actors \ {c} : call'[d] = call[d]
        /\ IF running THEN UNCHANGED late
           ELSE late'[c] = late[c] + 1 /\ \A d \in Actors \ {c} : late'[d] = late[d]
    BY <1>8, ReachDoes
  <2>3. \A d \in Actors : late[d] \in Nat /\ late[d] <= 1 /\ (~running => late[d] + Decided(d) <= 1)
    BY DEF Stopping, TypeOK
  <2>4. Decided(c) = 1 /\ Decided(c)' = 0 /\ \A d \in Actors \ {c} : Decided(d)' = Decided(d)
    BY <2>1, <2>2 DEF Decided
  <2>5. CASE running
    BY <2>1, <2>2, <2>3, <2>5 DEF Stopping
  <2>6. CASE ~running
    <3>1. late[c] = 0
      BY <2>3, <2>4, <2>6
    <3>2. ASSUME NEW d \in Actors
          PROVE  late'[d] <= 1 /\ late'[d] + Decided(d)' <= 1
      BY <2>2, <2>3, <2>4, <2>6, <3>1
    <3> QED BY <3>2 DEF Stopping
  <2> QED BY <2>5, <2>6
<1> QED BY <1>2, <1>3, <1>4, <1>5, <1>6, <1>7, <1>8 DEF Next, PushWorker

-----------------------------------------------------------------------------
(* Publications: only a publication that another one overtakes, or one that  *)
(* is cancelled, can leave diagnostics behind.                               *)
Published == Listed /\ Shown

LEMMA PublishedStays ==
    ASSUME Published, UNCHANGED <<out, targets, shown, disturbed>>
    PROVE  Published'
BY DEF Published, Listed, Shown, Covered

LEMMA OverlapDisturbs ==
    ASSUME NEW c \in Actors, NEW sources \in SUBSET Uris, Listed,
           disturbed' = disturbed \cup Overlap(c, sources),
           NEW d \in Actors \ {c}, NEW p \in out[d], p.from # None, p.from \in sources
    PROVE  p.from \in disturbed'
<1>1. p.about = p.from
  BY DEF Listed
<1>2. p.from \in Overlap(c, sources)
  BY <1>1 DEF Overlap
<1> QED BY <1>2

LEMMA ClearPublished ==
    ASSUME TypeOK, Handlers, Published, NEW c \in Commands, Clear(c)
    PROVE  Published'
<1>1. /\ c \in Actors /\ out[c] = {} /\ shown' = shown
      /\ \A d \in Actors \ {c} : out'[d] = out[d]
      /\ \A p \in out'[c] : p.from = None
  <2>1. out[c] = {}
    BY DEF Clear, Handlers, Standing, Free
  <2> QED BY <2>1, ClearDoes DEF Clear, Actors
<1>2. PICK sources \in SUBSET Uris :
        /\ \A s \in Uris : targets'[s] = IF s \in sources THEN {} ELSE targets[s]
        /\ \A s \in sources : \A t \in targets[s] : \E p \in out'[c] :
             p.to = t /\ p.from = None /\ p.about \in {s, None}
        /\ disturbed' = disturbed \cup Overlap(c, sources)
  BY ClearDoes
<1>3. Listed'
  <2>1. ASSUME NEW d \in Actors, NEW p \in out'[d], p.from # None
        PROVE  p.about = p.from /\ (p.from \notin disturbed' => p.to \in targets'[p.from])
    <3>1. d # c /\ p \in out[d]
      BY <1>1, <2>1
    <3>2. p.from \in Uris
      BY <2>1, <3>1 DEF TypeOK, Publications
    <3>3. p.about = p.from /\ (p.from \notin disturbed => p.to \in targets[p.from])
      BY <2>1, <3>1 DEF Published, Listed
    <3>4. p.from \in sources => p.from \in disturbed'
      BY <1>1, <1>2, <2>1, <3>1, OverlapDisturbs DEF Published
    <3> QED BY <1>2, <3>2, <3>3, <3>4
  <2> QED BY <2>1 DEF Listed
<1>4. Shown'
  <2>1. ASSUME NEW t \in Uris, NEW s, s = shown[t], s # None, s \notin disturbed'
        PROVE  \/ t \in targets'[s]
               \/ \E d \in Actors : \E p \in out'[d] :
                    p.to = t /\ p.from = None /\ p.about \in {s, None}
    <3>1. s \in Uris /\ s \notin disturbed
      BY <1>2, <2>1 DEF TypeOK
    <3>2. Covered(t, s)
      BY <2>1, <3>1 DEF Published, Shown
    <3>3. CASE t \in targets[s]
      BY <1>1, <1>2, <3>1, <3>3
    <3>4. CASE t \notin targets[s]
      <4>1. PICK d \in Actors : \E p \in out[d] :
              p.to = t /\ p.from = None /\ p.about \in {s, None}
        BY <3>2, <3>4 DEF Covered
      <4>2. d # c
        BY <1>1, <4>1
      <4> QED BY <1>1, <4>1, <4>2
    <3> QED BY <3>3, <3>4
  <2> QED BY <1>1, <2>1 DEF Shown, Covered
<1> QED BY <1>3, <1>4 DEF Published

LEMMA SweepPublished ==
    ASSUME TypeOK, Published, NEW c \in Commands, Sweep(c)
    PROVE  Published'
<1>1. /\ c \in Actors /\ out[c] = {} /\ UNCHANGED <<shown, targets, disturbed>>
      /\ \A d \in Actors \ {c} : out'[d] = out[d]
      /\ \A p \in out'[c] : p.from = None
  BY SweepDoes DEF Sweep, Free, Actors
<1>2. Listed'
  BY <1>1 DEF Published, Listed
<1>3. ASSUME NEW t, NEW s, Covered(t, s)
      PROVE  Covered(t, s)'
  <2>1. CASE t \in targets[s]
    BY <1>1, <2>1 DEF Covered
  <2>2. CASE t \notin targets[s]
    <3>1. PICK d \in Actors : \E p \in out[d] :
            p.to = t /\ p.from = None /\ p.about \in {s, None}
      BY <1>3, <2>2 DEF Covered
    <3>2. d # c
      BY <1>1, <3>1
    <3> QED BY <1>1, <3>1, <3>2 DEF Covered
  <2> QED BY <2>1, <2>2
<1>4. Shown'
  BY <1>1, <1>3 DEF Published, Shown, Covered
<1> QED BY <1>2, <1>4 DEF Published

LEMMA PublishPublished ==
    ASSUME TypeOK, Published, NEW c \in Actors, Publish(c)
    PROVE  Published'
<1>1. UNCHANGED <<targets, disturbed>>
  BY DEF Publish
<1>2. PICK p \in out[c] :
        /\ out'[c] = out[c] \ {p} /\ \A d \in Actors \ {c} : out'[d] = out[d]
        /\ p.to \in Uris /\ shown'[p.to] = p.from
        /\ \A t \in Uris \ {p.to} : shown'[t] = shown[t]
  BY PublishDoes
<1>3. Listed'
  BY <1>1, <1>2 DEF Published, Listed
<1>4. ASSUME NEW t \in Uris, shown'[t] # None, shown'[t] \notin disturbed
      PROVE  \/ t \in targets[shown'[t]]
             \/ \E d \in Actors : \E q \in out'[d] :
                  q.to = t /\ q.from = None /\ q.about \in {shown'[t], None}
  <2>1. CASE t = p.to
    BY <1>2, <1>4, <2>1 DEF Published, Listed
  <2>2. CASE t # p.to
    <3>1. shown'[t] = shown[t]
      BY <1>2, <2>2
    <3>2. Covered(t, shown[t])
      BY <1>4, <3>1 DEF Published, Shown
    <3>3. CASE t \in targets[shown[t]]
      BY <3>1, <3>3
    <3>4. CASE t \notin targets[shown[t]]
      <4>0. PICK d \in Actors : \E q \in out[d] :
              q.to = t /\ q.from = None /\ q.about \in {shown[t], None}
        BY <3>2, <3>4 DEF Covered
      <4>1. PICK q \in out[d] : q.to = t /\ q.from = None /\ q.about \in {shown[t], None}
        BY <4>0
      <4>2. q \in out'[d]
        BY <1>2, <2>2, <4>1
      <4> QED BY <3>1, <4>1, <4>2
    <3> QED BY <3>3, <3>4
  <2> QED BY <2>1, <2>2
<1>5. Shown'
  BY <1>1, <1>4 DEF Shown, Covered
<1> QED BY <1>3, <1>5 DEF Published

LEMMA CancelPublished ==
    ASSUME TypeOK, Published, NEW c \in Commands, Cancel(c)
    PROVE  Published'
<1>1. /\ c \in Actors /\ UNCHANGED <<targets, shown>> /\ disturbed \subseteq disturbed'
      /\ out'[c] = {} /\ \A d \in Actors \ {c} : out'[d] = out[d]
      /\ \A p \in out[c] : \A s \in Uris : p.about \in {s, None} => s \in disturbed'
  BY CancelDoes DEF Cancel, Actors
<1>2. Listed'
  BY <1>1 DEF Published, Listed
<1>3. ASSUME NEW t \in Uris, NEW s, s = shown[t], s # None, s \notin disturbed'
      PROVE  Covered(t, s)'
  <2>1. s \in Uris /\ s \notin disturbed
    BY <1>1, <1>3 DEF TypeOK
  <2>2. Covered(t, s)
    BY <1>3, <2>1 DEF Published, Shown
  <2>3. CASE t \in targets[s]
    BY <1>1, <2>3 DEF Covered
  <2>4. CASE t \notin targets[s]
    <3>0. PICK d \in Actors : \E p \in out[d] :
            p.to = t /\ p.from = None /\ p.about \in {s, None}
      BY <2>2, <2>4 DEF Covered
    <3>1. PICK p \in out[d] : p.to = t /\ p.from = None /\ p.about \in {s, None}
      BY <3>0
    <3>2. d # c
      BY <1>1, <1>3, <2>1, <3>1
    <3>3. p \in out'[d]
      BY <1>1, <3>2
    <3> QED BY <3>1, <3>3 DEF Covered
  <2> QED BY <2>3, <2>4
<1>4. Shown'
  BY <1>1, <1>3 DEF Shown, Covered
<1> QED BY <1>2, <1>4 DEF Published

LEMMA AnswerPublished ==
    ASSUME TypeOK, Handlers, Published, NEW c \in Actors, Answered(c)
    PROVE  Published'
<1>1. call[c] # None /\ shown' = shown
  BY DEF Answered
<1>2. out[c] = {}
  BY <1>1 DEF Handlers
<1>3. CASE UNCHANGED <<targets, out, disturbed>>
  BY <1>1, <1>3, PublishedStays
<1>4. CASE ~UNCHANGED <<targets, out, disturbed>>
  <2> DEFINE u == call[c].uri
  <2>0. u = call[c].uri
    OBVIOUS
  <2> HIDE DEF u
  <2>1. /\ u \in Uris
        /\ \A d \in Actors \ {c} : out'[d] = out[d]
        /\ \A s \in Uris \ {u} : targets'[s] = targets[s]
        /\ \A p \in out'[c] : p.about = u /\ p.from \in {u, None}
        /\ \A p \in out'[c] : p.from # None => p.to \in targets'[u]
        /\ \A t \in targets[u] \ targets'[u] : \E p \in out'[c] :
             p.to = t /\ p.from = None /\ p.about = u
        /\ disturbed' = disturbed \cup Overlap(c, {u})
    BY ONLY TypeOK, c \in Actors, Answered(c), <1>4, <2>0, AnsweredDoes
  <2>2. Listed'
    <3>1. ASSUME NEW d \in Actors, NEW p \in out'[d], p.from # None
          PROVE  p.about = p.from /\ (p.from \notin disturbed' => p.to \in targets'[p.from])
      <4>1. CASE d = c
        BY <2>1, <3>1, <4>1
      <4>2. CASE d # c
        <5>1. p \in out[d]
          BY <2>1, <4>2
        <5>2. p.from \in Uris
          BY <3>1, <5>1 DEF TypeOK, Publications
        <5>3. p.about = p.from /\ (p.from \notin disturbed => p.to \in targets[p.from])
          BY <3>1, <5>1 DEF Published, Listed
        <5>4. p.from \in {u} => p.from \in disturbed'
          <6>1. {u} \in SUBSET Uris
            BY <2>1
          <6> QED BY <2>1, <3>1, <4>2, <5>1, <6>1, OverlapDisturbs DEF Published
        <5> QED BY <2>1, <5>2, <5>3, <5>4
      <4> QED BY <4>1, <4>2
    <3> QED BY <3>1 DEF Listed
  <2>3. ASSUME NEW t \in Uris, NEW s, s = shown[t], s # None, s \notin disturbed'
        PROVE  Covered(t, s)'
    <3>1. s \in Uris /\ s \notin disturbed
      BY <2>1, <2>3 DEF TypeOK
    <3>2. Covered(t, s)
      BY <2>3, <3>1 DEF Published, Shown
    <3>3. CASE t \in targets[s]
      BY <2>1, <3>1, <3>3 DEF Covered
    <3>4. CASE t \notin targets[s]
      <4>0. PICK d \in Actors : \E p \in out[d] :
              p.to = t /\ p.from = None /\ p.about \in {s, None}
        BY <3>2, <3>4 DEF Covered
      <4>1. PICK p \in out[d] : p.to = t /\ p.from = None /\ p.about \in {s, None}
        BY <4>0
      <4>2. d # c
        BY <1>2, <4>1
      <4>3. p \in out'[d]
        BY <2>1, <4>2
      <4> QED BY <4>1, <4>3 DEF Covered
    <3> QED BY <3>3, <3>4
  <2>4. Shown'
    BY <1>1, <2>3 DEF Shown, Covered
  <2> QED BY <2>2, <2>4 DEF Published
<1> QED BY <1>3, <1>4

LEMMA PublishedKept ==
    ASSUME TypeOK, Handlers, Published, [Next]_vars
    PROVE  Published'
<1> USE DEF editorVars, workerVars, outVars, callVars
<1>1. CASE Notify \/ PushWorker \/ Terminated \/ UNCHANGED vars
  BY <1>1, PublishedStays DEF Notify, DidOpen, DidChange, DidSave, Schedule, PushWorker,
       WorkerUpdate, WorkerFlush, WorkerTick, WorkerSends, WorkerAcks, Terminated, vars
<1>2. ASSUME NEW c \in Commands,
             Issue(c) \/ BeginCheck(c) \/ CheckNext(c) \/ Ask(c) \/ Finish(c)
      PROVE  Published'
  BY <1>2, PublishedStays DEF Issue, BeginCheck, CheckNext, Ask, Finish
<1>3. ASSUME NEW c \in Commands, Clear(c) \/ Sweep(c) \/ Cancel(c)
      PROVE  Published'
  BY <1>3, ClearPublished, SweepPublished, CancelPublished
<1>4. ASSUME NEW c \in Actors, Reach(c) \/ Failed(c)
      PROVE  Published'
  BY <1>4, PublishedStays DEF Reach, Failed
<1>5. ASSUME NEW c \in Actors, Publish(c) \/ Answered(c)
      PROVE  Published'
  BY <1>5, PublishPublished, AnswerPublished
<1> QED BY <1>1, <1>2, <1>3, <1>4, <1>5 DEF Next, Handler, Settle

-----------------------------------------------------------------------------
Inv ==
    /\ TypeOK /\ Handlers /\ Way
    /\ Flushing /\ FlushCovers
    /\ Stopping
    /\ Published

LEMMA InvInit ==
    ASSUME Init
    PROVE  Inv
<1>1. /\ \A c \in Commands : command[c] = Unused
      /\ \A c \in Actors : call[c] = None /\ out[c] = {} /\ late[c] = 0
      /\ \A u \in Uris : documents[u] = None /\ shown[u] = None /\ pushed[u] = 0
      /\ events = <<>> /\ pending = {} /\ batch = {} /\ ack = None /\ notes = 0
      /\ disturbed = {} /\ behind = {}
      /\ Worker \in Actors /\ \A c \in Commands : c \in Actors
  BY DEF Init, Actors
<1>2. DOMAIN events = {} /\ Updates = {} /\ Owed = {} /\ InWork = {} /\ Scheduled = {}
  <2>1. DOMAIN events = {}
    BY <1>1, EmptySeq
  <2>2. Updates = {}
    BY <2>1 DEF Updates
  <2> QED BY <1>1, <2>1, <2>2 DEF Owed, InWork, Scheduled
<1>3. TypeOK
  <2>1. events \in Seq(Events)
    BY <1>1, EmptySeq
  <2>2. command \in [Commands -> Tasks] /\ 0 \in 0..MaxNotes
    BY DoneTyped, ServerAssumption DEF Init
  <2> QED BY <1>1, <2>1, <2>2 DEF Init, TypeOK
<1>4. Handlers
  <2>1. Unused.stage = "unused" /\ Unused.checks = {} /\ Unused.serial = 0
    BY DEF Unused
  <2> QED BY <1>1, <2>1 DEF Handlers, Standing, Free
<1>5. Way
  BY <1>1, <1>2 DEF Way, Texts, OnePush, Pipeline, Arriving, Open
<1>6. Flushing /\ FlushCovers
  <2>1. \A c \in Commands : command[c].stage = "unused"
    BY <1>1 DEF Unused
  <2> QED BY <1>1, <1>2, <2>1 DEF Flushing, FlushCovers
<1>7. Stopping /\ Published
  BY <1>1 DEF Stopping, Decided, Published, Listed, Shown
<1> QED BY <1>3, <1>4, <1>5, <1>6, <1>7 DEF Inv

LEMMA InvStep ==
    ASSUME Inv, [Next]_vars
    PROVE  Inv'
<1>1. TypeOK' /\ Handlers' /\ Way'
  BY TypeKept, HandlersKept, WayKept DEF Inv, Way
<1>2. Flushing' /\ FlushCovers'
  BY FlushingKept, CoversKept DEF Inv, Way
<1>3. Stopping' /\ Published'
  BY StoppingKept, PublishedKept DEF Inv, Way
<1> QED BY <1>1, <1>2, <1>3 DEF Inv

LEMMA Invariant == Spec => []Inv
BY InvInit, InvStep, PTL DEF Spec

-----------------------------------------------------------------------------
(* Every variable keeps its type: a handler's fields, a request's and a      *)
(* publication's (main.rs 210-243).                                          *)
THEOREM TypeCorrect == Spec => []TypeOK
BY Invariant, PTL DEF Inv

(* flush_pushes waits for what it has to (main.rs 330-341, 421-449,          *)
(* 533-555): whatever ticks, flushes of other handlers and notifications     *)
(* come between, no push of a document that was scheduled before a check's   *)
(* snapshot is still to come when the check is made.                         *)
THEOREM FlushCoversCorrect == Spec => []FlushCovers
BY Invariant, PTL DEF Inv

(* After a stop every task lets at most one request through                  *)
(* (main.rs 285-287, 343-357, 421-449, 598-600).                             *)
THEOREM StopIsPromptCorrect == Spec => []StopIsPrompt
<1>1. Inv => StopIsPrompt
  BY DEF Inv, Stopping, StopIsPrompt
<1> QED BY <1>1, Invariant, PTL

(* The table of published targets finds all there is to clean up, unless     *)
(* publications for one document overlap or are cancelled (main.rs 662-703). *)
THEOREM NoOrphansCorrect == Spec => []NoOrphans
<1>1. Inv => NoOrphans
  BY DEF Inv, Published, Shown, Covered, NoOrphans
<1> QED BY <1>1, Invariant, PTL

(* The bridge has the editor's text of an open document once the worker owes *)
(* it no push, and none was lost (main.rs 289-324, 515-611).                 *)
THEOREM TextArrivesCorrect == Spec => []TextArrives
<1>1. Inv => TextArrives
  <2> SUFFICES ASSUME Inv, NEW u \in Uris, Open(u), Losses(u) = {},
                      ~\E p \in Owed : p.uri = u, call[Worker] = None \/ call[Worker].uri # u
               PROVE  pushed[u] = documents[u].text
    BY DEF TextArrives
  <2>1. ~\E p \in InWork : p.uri = u
    BY DEF InWork
  <2> QED BY <2>1 DEF Inv, Way, Arriving
<1> QED BY <1>1, Invariant, PTL

(* The bridge sees a document's texts in the order the editor wrote them     *)
(* (main.rs 515-611): a push that reaches it is no older than the last.      *)
THEOREM PushOrderCorrect == Spec => PushOrder
<1>1. ASSUME Inv, [Next]_vars
      PROVE  [\A u \in Uris : pushed'[u] >= pushed[u]]_vars
  <2>1. TypeOK /\ Handlers /\ Texts
    BY <1>1 DEF Inv, Way
  <2>2. \A u \in Uris : pushed[u] \in Nat
    BY <2>1, InWorkTyped
  <2>3. CASE Reach(Worker)
    <3>1. /\ call[Worker] # None /\ call[Worker].uri \in Uris /\ call[Worker].text \in Nat
          /\ pushed'[call[Worker].uri] = call[Worker].text
          /\ \A u \in Uris \ {call[Worker].uri} : pushed'[u] = pushed[u]
      BY <2>1, <2>3, ReachDoes, CallTyped DEF Reach, Actors
    <3>2. pushed[call[Worker].uri] <= call[Worker].text
      BY <2>1, <3>1 DEF Texts, InWork
    <3>3. ASSUME NEW u \in Uris
          PROVE  pushed'[u] >= pushed[u]
      BY <2>2, <3>1, <3>2
    <3> QED BY <3>3
  <2>4. ASSUME NEW c \in Actors, c # Worker, Reach(c)
        PROVE  UNCHANGED pushed
    BY <2>1, <2>4, ReachDoes
  <2>5. CASE ~\E c \in Actors : Reach(c)
    <3>1. UNCHANGED pushed
      BY <1>1, <2>5 DEF Next, Notify, DidOpen, DidChange, DidSave, Schedule, PushWorker,
         WorkerUpdate, WorkerFlush, WorkerTick, WorkerSends, WorkerAcks, Terminated, vars, Issue,
         Handler, BeginCheck, CheckNext, Ask, Clear, Sweep, Finish, Cancel, Publish, Settle,
         Answered, Failed, callVars
    <3> QED BY <2>2, <3>1
  <2> QED BY <2>2, <2>3, <2>4, <2>5
<1> QED BY <1>1, Invariant, PTL DEF Spec, PushOrder
==============================================================================
