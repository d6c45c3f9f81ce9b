--------------------------- MODULE BridgeTransport ---------------------------
(***************************************************************************)
(* The language server's end of the bridge socket: BridgeTransport and its *)
(* request (isabelle-lsp/src/main.rs 63-207), called by several tasks at   *)
(* once: the push worker, and the hover and command handlers.  One         *)
(* connection, shared under a FIFO mutex that is held for one attempt;     *)
(* two attempts; the retry reconnects.                                     *)
(*                                                                         *)
(* The futures of hover and command handlers are dropped when the editor   *)
(* sends $/cancelRequest, at whatever await they stand: in the middle of   *)
(* write_all, leaving half a line on the connection, or in the middle of   *)
(* read_line, taking half a line with them.  The connection is kept.       *)
(*                                                                         *)
(* A line is the id of the message it carries, or Garbage if it does not   *)
(* parse.  The bridge answers a request at most once on the connection it  *)
(* got it on, in any order, or never; lines that do not parse are dropped  *)
(* (bridge/src/main.rs 229-231).                                           *)
(***************************************************************************)
EXTENDS Naturals, SequencesExt

CONSTANTS
    Callers,        \* tasks that send requests, each one at a time
    Cancellable,    \* those whose future may be dropped
    Garbage,        \* a line that does not parse
    NoLink,         \* no connection
    MaxRequests,    \* bound: requests issued
    MaxGarbage      \* bound: lines of the bridge that do not parse

ASSUME TransportAssumption ==
    /\ Cancellable \subseteq Callers
    /\ MaxRequests \in Nat /\ MaxGarbage \in Nat
    /\ Garbage \notin Nat

Ids == 1..MaxRequests
WireLine == Ids \cup {Garbage}

VARIABLES
    nextId,     \* next_id
    queue,      \* the mutex: its holder, then its waiters
    stage,      \* where each caller stands in request()
    reqId,      \* the id of its request, 0 when it has none
    attempt,    \* 0, or 1 for the retry
    link,       \* the connection, or NoLink
    epoch,      \* connections made so far
    outcome,    \* history: what became of each request
    written,    \* history: lines that reached the socket in one piece
    garbage     \* counts against MaxGarbage

callVars == <<nextId, stage, reqId, attempt, outcome>>
vars == <<callVars, queue, link, epoch, written, garbage>>

Links ==
    [up: Seq(WireLine),     \* written by the server, not read by the bridge
     partial: BOOLEAN,      \* the last line written has no end yet
     spoiled: BOOLEAN,      \* the line being written follows such a line
     seen: SUBSET Ids,      \* read by the bridge, not answered
     down: Seq(WireLine),   \* written by the bridge, not read
     open: BOOLEAN]         \* the bridge has not closed its end

ASSUME NoLinkAssumption == NoLink \notin Links

NewLink == [up |-> <<>>, partial |-> FALSE, spoiled |-> FALSE, seen |-> {},
            down |-> <<>>, open |-> TRUE]

Stages == {"idle", "waiting", "connected", "writing", "reading", "midline"}

(* Under the lock, inside the timeout. *)
Exchanging == {"connected", "writing", "reading", "midline"}

Outcomes == {"unused", "open", "answered", "refused", "eof", "timeout", "invalid", "cancelled"}

Init ==
    /\ nextId = 1 /\ queue = <<>>
    /\ stage = [c \in Callers |-> "idle"]
    /\ reqId = [c \in Callers |-> 0]
    /\ attempt = [c \in Callers |-> 0]
    /\ link = NoLink /\ epoch = 0
    /\ outcome = [r \in Ids |-> "unused"]
    /\ written = <<>> /\ garbage = 0

Holds(c) == queue # <<>> /\ Head(queue) = c

(* Whoever gives the lock up, or is dropped while waiting for it, leaves    *)
(* the queue.                                                               *)
Leave(c) == RemoveAt(queue, CHOOSE i \in DOMAIN queue : queue[i] = c)

Finish(c, result) ==
    /\ outcome' = [outcome EXCEPT ![reqId[c]] = result]
    /\ stage' = [stage EXCEPT ![c] = "idle"]
    /\ reqId' = [reqId EXCEPT ![c] = 0]
    /\ attempt' = [attempt EXCEPT ![c] = 0]
    /\ queue' = Leave(c)
    /\ UNCHANGED nextId

(* request() takes an id and queues for the lock. *)
Call(c) ==
    /\ stage[c] = "idle" /\ nextId \in Ids
    /\ nextId' = nextId + 1
    /\ reqId' = [reqId EXCEPT ![c] = nextId]
    /\ outcome' = [outcome EXCEPT ![nextId] = "open"]
    /\ stage' = [stage EXCEPT ![c] = "waiting"]
    /\ queue' = Append(queue, c)
    /\ UNCHANGED <<attempt, link, epoch, written, garbage>>

(* Variant: connects and writes without waiting for its turn. *)
AcquireUnlocked(c) ==
    /\ stage[c] = "waiting"
    /\ IF link = NoLink THEN link' = NewLink /\ epoch' = epoch + 1
                        ELSE UNCHANGED <<link, epoch>>
    /\ stage' = [stage EXCEPT ![c] = "connected"]
    /\ UNCHANGED <<nextId, reqId, attempt, outcome, queue, written, garbage>>

(* The lock is free: connect if there is no connection.  A refusal is not  *)
(* retried.                                                                *)
Acquire(c) ==
    /\ stage[c] = "waiting" /\ Holds(c)
    /\ \/ /\ link # NoLink
          /\ stage' = [stage EXCEPT ![c] = "connected"]
          /\ UNCHANGED <<nextId, reqId, attempt, outcome, queue, link, epoch>>
       \/ /\ link = NoLink
          /\ link' = NewLink /\ epoch' = epoch + 1
          /\ stage' = [stage EXCEPT ![c] = "connected"]
          /\ UNCHANGED <<nextId, reqId, attempt, outcome, queue>>
       \/ /\ link = NoLink
          /\ Finish(c, "refused")
          /\ UNCHANGED <<link, epoch>>
    /\ UNCHANGED <<written, garbage>>

(* write_all, which may stand in the middle of the line. *)
WriteBegins(c) ==
    /\ stage[c] = "connected" /\ link.open
    /\ link' = [link EXCEPT !.partial = TRUE, !.spoiled = link.partial]
    /\ stage' = [stage EXCEPT ![c] = "writing"]
    /\ UNCHANGED <<nextId, reqId, attempt, outcome, queue, epoch, written, garbage>>

WriteEnds(c) ==
    /\ stage[c] = "writing" /\ link.open
    /\ link' = [link EXCEPT !.partial = FALSE, !.spoiled = FALSE,
                   !.up = Append(@, IF link.spoiled THEN Garbage ELSE reqId[c])]
    /\ written' = IF link.spoiled THEN written
                  ELSE Append(written, [id |-> reqId[c], epoch |-> epoch])
    /\ stage' = [stage EXCEPT ![c] = "reading"]
    /\ UNCHANGED <<nextId, reqId, attempt, outcome, queue, epoch, garbage>>

(* read_line, which may stand in the middle of the line. *)
ReadBegins(c) ==
    /\ stage[c] = "reading" /\ link.down # <<>>
    /\ stage' = [stage EXCEPT ![c] = "midline"]
    /\ UNCHANGED <<nextId, reqId, attempt, outcome, queue, link, epoch, written, garbage>>

(* Variants: the first line is taken for the answer, whatever its id; a     *)
(* line that does not parse is left for the next reader.                    *)
ReadEndsAnyId(c) ==
    /\ stage[c] = "midline"
    /\ link' = [link EXCEPT !.down = Tail(@)]
    /\ Finish(c, IF Head(link.down) = Garbage THEN "invalid" ELSE "answered")
    /\ UNCHANGED <<epoch, written, garbage>>

ReadEndsKeepsGarbage(c) ==
    /\ stage[c] = "midline"
    /\ LET line == Head(link.down) IN
         /\ link' = IF line = Garbage THEN link ELSE [link EXCEPT !.down = Tail(@)]
         /\ \/ line = reqId[c] /\ Finish(c, "answered")
            \/ line = Garbage /\ Finish(c, "invalid")
            \/ /\ line \notin {reqId[c], Garbage}
               /\ stage' = [stage EXCEPT ![c] = "reading"]
               /\ UNCHANGED <<nextId, reqId, attempt, outcome, queue>>
    /\ UNCHANGED <<epoch, written, garbage>>

(* The answer; a line with another id is skipped; one that does not parse  *)
(* fails the request, without a retry and without dropping the connection. *)
ReadEnds(c) ==
    /\ stage[c] = "midline"
    /\ link' = [link EXCEPT !.down = Tail(@)]
    /\ LET line == Head(link.down) IN
         \/ line = reqId[c] /\ Finish(c, "answered")
         \/ line = Garbage /\ Finish(c, "invalid")
         \/ /\ line \notin {reqId[c], Garbage}
            /\ stage' = [stage EXCEPT ![c] = "reading"]
            /\ UNCHANGED <<nextId, reqId, attempt, outcome, queue>>
    /\ UNCHANGED <<epoch, written, garbage>>

(* Variant: one attempt too many. *)
DropAndRetryTwice(c, result) ==
    /\ link' = NoLink
    /\ \/ /\ attempt[c] < 2
          /\ attempt' = [attempt EXCEPT ![c] = @ + 1]
          /\ stage' = [stage EXCEPT ![c] = "waiting"]
          /\ queue' = Append(Leave(c), c)
          /\ UNCHANGED <<nextId, reqId, outcome>>
       \/ attempt[c] = 2 /\ Finish(c, result)
    /\ UNCHANGED <<epoch, written, garbage>>

(* The connection is given up; the first attempt is followed by another,   *)
(* at the end of the mutex's queue.                                        *)
DropAndRetry(c, result) ==
    /\ link' = NoLink
    /\ \/ /\ attempt[c] = 0
          /\ attempt' = [attempt EXCEPT ![c] = 1]
          /\ stage' = [stage EXCEPT ![c] = "waiting"]
          /\ queue' = Append(Leave(c), c)
          /\ UNCHANGED <<nextId, reqId, outcome>>
       \/ attempt[c] = 1 /\ Finish(c, result)
    /\ UNCHANGED <<epoch, written, garbage>>

(* EOF, or a write or read that fails: the bridge closed its end. *)
ConnectionLost(c) ==
    /\ stage[c] \in Exchanging /\ ~link.open
    /\ stage[c] = "reading" => link.down = <<>>
    /\ stage[c] # "midline"
    /\ DropAndRetry(c, "eof")

(* Variants: the timed-out connection is kept; there is no timeout. *)
TimeoutKeepsLink(c) ==
    /\ stage[c] \in Exchanging
    /\ UNCHANGED <<link, epoch, written, garbage>>
    /\ \/ /\ attempt[c] = 0
          /\ attempt' = [attempt EXCEPT ![c] = 1]
          /\ stage' = [stage EXCEPT ![c] = "waiting"]
          /\ queue' = Append(Leave(c), c)
          /\ UNCHANGED <<nextId, reqId, outcome>>
       \/ attempt[c] = 1 /\ Finish(c, "timeout")

TimeoutNever(c) == FALSE /\ DropAndRetry(c, "timeout")

Timeout(c) ==
    /\ stage[c] \in Exchanging
    /\ DropAndRetry(c, "timeout")

(* $/cancelRequest drops the future.  What it had read of a line is lost,  *)
(* what it had written of one stays.                                       *)
Cancel(c) ==
    /\ c \in Cancellable /\ stage[c] # "idle"
    /\ Finish(c, "cancelled")
    /\ link' = IF stage[c] = "midline"
                 THEN [link EXCEPT !.down = <<Garbage>> \o Tail(@)]
                 ELSE link
    /\ UNCHANGED <<epoch, written, garbage>>

-----------------------------------------------------------------------------
(* The bridge's end of the connection.  Nothing it does on a connection    *)
(* the server has dropped can be seen here.                                *)
BridgeStep == UNCHANGED <<callVars, queue, epoch, written>>

BridgeReads ==
    /\ link # NoLink /\ link.open /\ link.up # <<>>
    /\ link' = [link EXCEPT !.up = Tail(@),
                            !.seen = @ \cup ({Head(link.up)} \ {Garbage})]
    /\ UNCHANGED garbage /\ BridgeStep

BridgeAnswers ==
    /\ link # NoLink /\ link.open
    /\ \E r \in link.seen :
         link' = [link EXCEPT !.seen = @ \ {r}, !.down = Append(@, r)]
    /\ UNCHANGED garbage /\ BridgeStep

BridgeBabbles ==
    /\ link # NoLink /\ link.open /\ garbage < MaxGarbage
    /\ link' = [link EXCEPT !.down = Append(@, Garbage)]
    /\ garbage' = garbage + 1 /\ BridgeStep

BridgeCloses ==
    /\ link # NoLink /\ link.open
    /\ link' = [link EXCEPT !.open = FALSE, !.up = <<>>, !.seen = {}]
    /\ UNCHANGED garbage /\ BridgeStep

-----------------------------------------------------------------------------
Progress(c) ==
    Acquire(c) \/ WriteBegins(c) \/ WriteEnds(c) \/ ReadBegins(c) \/ ReadEnds(c)
    \/ ConnectionLost(c) \/ Timeout(c)

Bridge == BridgeReads \/ BridgeAnswers \/ BridgeBabbles \/ BridgeCloses

(* All requests issued and finished. *)
Terminated ==
    /\ nextId \notin Ids /\ \A c \in Callers : stage[c] = "idle"
    /\ UNCHANGED vars

Next ==
    \/ \E c \in Callers : Call(c) \/ Progress(c) \/ Cancel(c)
    \/ Bridge \/ Terminated

Spec == Init /\ [][Next]_vars

(* Fairness.  A task whose turn it is takes its step, and the timer of an    *)
(* exchange fires (tokio); the bridge and the editor owe nothing.            *)
FairSpec == Spec /\ \A c \in Callers : WF_vars(Progress(c))

-----------------------------------------------------------------------------
(* Properties.                                                               *)

TypeOK ==
    /\ nextId \in 1..(MaxRequests + 1)
    /\ queue \in Seq(Callers)
    /\ stage \in [Callers -> Stages]
    /\ reqId \in [Callers -> Nat]
    /\ attempt \in [Callers -> {0, 1}]
    /\ link \in Links \cup {NoLink}
    /\ epoch \in Nat
    /\ outcome \in [Ids -> Outcomes]
    /\ written \in Seq([id: Ids, epoch: Nat])
    /\ garbage \in 0..MaxGarbage

(* The lines of two tasks are never mixed on the connection: whoever is      *)
(* between its first byte written and its last byte read holds the mutex,    *)
(* through retries that queue again and futures dropped anywhere             *)
(* (main.rs 124, 201; 82 the connection under one mutex).                    *)
OneExchange ==
    \A c, d \in Callers :
        stage[c] \in Exchanging /\ stage[d] \in Exchanging => c = d /\ Holds(c)

(* A request reaches the bridge at most twice, and the second time on a      *)
(* newer connection: no connection, and so no adapter session behind one,    *)
(* sees an id twice, and what the first connection still answers is never    *)
(* taken for the answer to the second try (main.rs 122-207).                 *)
RetryReconnects ==
    /\ \A i, j \in DOMAIN written :
         i < j /\ written[i].id = written[j].id => written[i].epoch < written[j].epoch
    /\ \A i, j, k \in DOMAIN written :
         Cardinality({i, j, k}) = 3 => Cardinality({written[n].id : n \in {i, j, k}}) > 1

(* A line that does not parse costs one request, not the ones behind it: as  *)
(* the connection is kept (main.rs 169-172), there are no more requests that *)
(* failed with InvalidResponse than there were lines the bridge garbled or   *)
(* a dropped future tore.                                                    *)
Count(result) == Cardinality({r \in Ids : outcome[r] = result})

InvalidIsBlamed == Count("invalid") <= garbage + Count("cancelled")

(* request() is an at-most-twice remote call. *)
Reached(r) == Cardinality({i \in DOMAIN written : written[i].id = r})

Settled == [r \in Ids |->
    IF outcome[r] \in {"unused", "open", "answered"} THEN outcome[r] ELSE "failed"]

Rpc == INSTANCE BridgeRpc WITH
    Requests <- Ids, outcome <- Settled, reached <- [r \in Ids |-> Reached(r)]

ImplementsRpc == Rpc!Spec

(* CHANGELOG 0.2.1, "timeout + reconnect retry to prevent indefinite hangs": *)
(* every request comes to an end, whatever the bridge does or leaves undone, *)
(* the waiters behind it included.                                           *)
RequestsFinish == \A c \in Callers : stage[c] # "idle" ~> stage[c] = "idle"
=============================================================================
