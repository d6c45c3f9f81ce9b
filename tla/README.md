# A TLA+ model of isabelle-zed

isabelle-zed connects the Zed editor to Isabelle. An edit travels

    Zed ── zed-extension ── isabelle-lsp ──unix socket── bridge ──pipe or TCP── adapter ── Isabelle

and diagnostics travel back. The interesting part of the program is what happens
on the way: texts are debounced twice, requests are retried over connections that
time out, processes are restarted under a session, and a check must still see the
text the editor had sent before it. This directory models that path in TLA+,
checks it with TLC on small instances and proves its safety properties with TLAPS for all
instances. Source paths below are relative to the repository; `lsp` abbreviates
`isabelle-lsp/src/main.rs`, `main` and `process` are those of `bridge/src/`.

## 1. Inventory

### The bridge session (`bridge/src/main.rs`, `queue.rs`, `process.rs`)

*State.* The debounce queue (at most one pending `document.push` per URI), the
`ProcessManager` (child, writer, retry count), the output channel of 256 lines,
one reader task per adapter ever started.
*Operations.* `run_session` is one select loop with three arms: a line from the
editor, a line from the adapter, a 25 ms tick. A push is queued; a check takes its
document's pending push along in front of it; other messages are forwarded at
once; end of input flushes the queue and ends the loop. Forwarding is
`ProcessManager::send`: write the line, and on failure stop the adapter, back
off, start another and write the line again, up to three times.
*Hard parts.* The queue's timers against checks and end of input; a crash in
the middle of a drained batch; reader tasks that outlive their adapter and share
one channel with its successor; writes, to the adapter or to the editor, that block inside
a select arm; writes to a TCP peer that is gone, which succeed; in the default real mode, a child
(sbt) that is not the adapter but only stands in front of it.
*Correct when.* Nothing read is lost before it is written, the adapter sees each
document's pushes and checks in order, a check follows the newest text, answers
belong to requests, are not repeated and keep the adapter's order, and no child process is left behind.

### The bridge's socket server (`main` 130-176)

Gives every client a task with a session of its own: own queue, own
`ProcessManager`, own adapter. Sessions share no state, so one session is
modelled. (With `--adapter-socket` the sessions' adapters are one external
process; see *Not modelled*.) Before that it takes over its path: a socket that is
there is removed, anything else is an error.

### BridgeTransport (`lsp` 63-207)

*State.* One optional connection under a tokio mutex, the id counter.
*Operations.* `request`: take an id; up to two attempts, each under the lock and
a timeout: connect if need be, write a line, read lines until one has the id.
End of file, I/O errors and timeouts give the connection up and retry;
a refused connect and a line that does not parse end the request at once, the
latter keeping the connection.
*Hard parts.* A timeout racing the late answer; the same message on the wire
twice; futures that tower-lsp drops on `$/cancelRequest` with half a line
written or read; waiters in the lock's queue behind a bridge that does not answer.
*Correct when.* Exchanges do not overlap, an id is not on one connection twice, an
answer is only taken for the request it answers, every request ends.

### The language server (`lsp` 210-855)

*State.* Open documents with version and text, the session flag, the push
worker's queue and pending table, the table of published diagnostic targets.
*Operations.* didOpen, didChange and didSave store the document and schedule a
push; the worker debounces (200 ms) and sends; `run_check` takes a snapshot,
asks the worker to flush and waits, then checks one document after the other;
`start_session`, `stop_session`, hover, didClose; every answer's diagnostics are
published per URI and the ones it no longer mentions are cleared.
*Hard parts.* Up to four handlers run concurrently and interleave with the
worker at every await; the session flag is read before a request and not after; table
and publications are updated in separate steps.
*Correct when.* A check's flush covers every push scheduled before it, texts are
pushed in the order written and do arrive, a stop is prompt, diagnostics are
cleaned up, commands end.

### Autostart and the socket's life cycle (`lsp` 917-1067, `main` 131-154)

*State.* The paths of the file system and, per process, the last thing it has seen of one.
*Operations.* A server that starts looks for its socket, connects to find out whether it is
alive, removes it if not, runs the autostart command and waits for the path to appear. It kills
the bridge it has started when it ends. A bridge looks, removes, binds and listens.
*Hard parts.* Every one of those is a call of its own: two servers, or two bridges, act on one path
between each other's looks; processes are killed at any point and leave sockets behind.
*Correct when.* Files that are no sockets survive, a living bridge keeps its socket, an owned
bridge dies with its owner, a spawned bridge is found by the server that spawned it.

### The Zed extension (`zed-extension/src/lib.rs`)

*State.* None; it computes the server's command, arguments and environment from the settings, the
shell's environment and the worktree's `ROOT` and `ROOTS`.
*Hard parts.* Three sources of one environment, of which the workspace's must not run commands;
session files that are read line by line and split at whitespace, although their syntax is neither.
*Correct when.* The logic is the one the README's rules select, and only the shell names an
autostart command.

### The Scala adapter (`scala-adapter/.../AdapterMain.scala`)

*State.* Per connection a read loop and its requests in flight; one table of latest documents; one pool
of four threads with a FIFO queue.
*Operations.* A loop reads a line, waits until fewer than 64 requests are in flight and starts the request; a push
puts its text into the table and runs Isabelle, a check runs Isabelle on the text in the table; completions write
the answer and wake the loop; at end of input the loop waits up to 30 s for what is in flight.
*Hard parts.* In socket mode the loops occupy threads of the same pool that runs the requests and the wake-ups they
wait for; requests of one document, or of two connections, run in any order; all connections' answers are written
under one lock, by a write that blocks on a client that does not read; an Isabelle run has no time limit.
*Correct when.* The bound holds, a loop's thread is released when its client leaves, a client that is there loses answers
only where the shutdown was cut short, and a check does not read a text its sender knows to be replaced.

### Protocol codecs, scripts

`protocol.rs`/`ProtocolModel.scala` are JSON codecs. `scripts/`, the Makefile and CI package and
smoke-test.

## 2. Modules

| module | models |
| --- | --- |
| `DebounceQueue` | `queue.rs`: enqueue and the three drains, as operators on a set of entries |
| `BridgeSession` | `run_session`, `ProcessManager`, the reader tasks, and the adapter at the other end: `run_mock_adapter`, or what a session sees of the Scala adapter |
| `BridgeSessionProofs` | what a session holds: types, `NothingLost`, `EofFlushes`, `AtMostOneChild`, proved with TLAPS |
| `BridgeOrderProofs` | the order of what it writes and delivers; EXTENDS `BridgeSessionProofs` |
| `BridgeRpc` | what a caller may assume of a request to the bridge |
| `BridgeTransport` | `BridgeTransport::request`; implements `BridgeRpc` |
| `BridgeTransportProofs` | its safety properties and the refinement of `BridgeRpc`, proved |
| `LanguageServer` | handlers, push worker and diagnostics, over the call of `BridgeRpc` |
| `LanguageServerProofs` | its safety properties, proved |
| `ExtensionSettings` | the command the Zed extension computes, as operators on a record of settings and files |
| `Launch` | servers and bridges starting on socket paths; EXTENDS `ExtensionSettings`, whose command it starts |
| `ExtensionSettingsProofs` | where its two readings of `ROOT` files agree, and what its arguments contain, proved |
| `LaunchProofs` | the safety properties of `Launch`, proved; EXTENDS `ExtensionSettingsProofs` |
| `AdapterService` | the Scala adapter's loops, pool, write lock, document table and shutdown |
| `AdapterServiceProofs` | its safety properties, proved |
| `MC...` | constants for TLC |

`PROJECT.json` maps each definition to its lines.

### BridgeSession

`phase` is where the loop stands: `select` is the await of `tokio::select!`,
`sending` a `write_line` that has not looked at the child yet, `writing` one that has and writes,
`delivering` the write of an answer to the editor, `backoff` the sleep between `stop()` and
`start()`, `stopping` the code behind the loop; `ended` is an exit without and `failed` one with an
error. `Proceed` goes from one message of a drain to the next and then to
the request behind it. It resets `attempts`, because each message has its own
retry loop. What the two queues hold and the order within a drained set follow
the code: a drained `HashMap` has no order, so the model picks any.

Each adapter ever started has a record: unread stdin, the requests it handles, the answers it has given (`told`, history),
unread stdout, the line its reader task holds, and whether the sbt in front of it runs. `Stopped` is
`ProcessManager::stop`. `input`, `sent` and `delivered` are history.
An entry of `sent` records the adapter it went to (`gen`) and how much had been
read (`at`), so that a property can say whether a write was made
after a push had been read. `Killed` is the SIGKILL the language server sends its bridge:
the session is over and `stop()` has not run.

`Mode` is how the adapter is reached, and three things depend on it.

- *What the child is.* On pipes (`child`) it is the adapter, which `stop()` kills and reaps. In `sbt` mode the child is
  sbt; the adapter runs in the JVM sbt forks (`scala-adapter/build.sbt:15`) and only
  sees its connection close, so `Stopped` takes sbt away and leaves the adapter. In `socket` mode the
  adapter is nobody's child.
- *When a write fails.* When `write_line` finds the child exited (`TryWait`, `CannotWrite`), and when the far end of the
  connection is gone. On a pipe the second is the adapter's death; a TCP peer that has just gone still takes a line, which is lost
  (`WriteLost`). In `sbt` mode the two come apart: sbt may exit while its adapter runs (`SbtExits`), and the restart
  that follows sets a second adapter beside it, on a port of its own (`process` 218); the old one's answers
  still arrive through its reader task.
- *How the adapter answers.* `run_mock_adapter` handles one line at a time. The Scala adapter works on up to `MaxInFlight` (64)
  requests on four threads and answers in any order, or not at all when a request fails (`RequestFails`). What goes on
  inside it is `AdapterService`.

The adapter of `Mode = "child"` exits at the end of its input, as `run_mock_adapter` does. The Scala adapter in stdio mode ends its loop
there, but its pool's threads are not daemons and are never shut down (`AdapterMain.scala` 298), so it is the kill in `stop()` that ends
it, and a killed bridge leaves it behind. `AdapterEnds` is a statement about adapters that exit at end of input.

Abstractions: time is an age per queue entry up to `Debounce`; start-up
of an adapter is one step that succeeds or fails; lines that are blank or are no
message change nothing and are left out, while payloads that do not
decode are modelled because the code treats them differently per type
(a push ends the session, a check is forwarded, the mock adapter exits on a
markup request).

### BridgeTransport

`stage` is where a caller stands in `request`; `queue` is tokio's FIFO mutex, its
holder at the head. A link records what is in flight both ways, and whether a
dropped future left half a line on it (`partial`, `spoiled`). A line is an id or
`Garbage`. The bridge answers a request at most once on the connection it came on,
in any order, or never; what it does on a connection the server has given up cannot
be seen and is left out. The refinement to `BridgeRpc` maps `outcome` to
unused/open/answered/failed and `reached` to the number of times the id went out whole.

### LanguageServer

A notification handler is one step: the document table is only locked by
handlers, one task polls all of them, and no handler holds it across an await.
Commands, hover and didClose are split at the awaits at which they can be interrupted.
The worker takes one event or one tick at a time and finishes it. Its tick may find
any pending pushes due, which includes every schedule of the 200 ms window.
A text is the number of the notification that brought it.
`Reach` is the moment a request gets to the bridge, `Answered` and `Failed` its
outcome; a second arrival after a retry carries the same text and
changes nothing at this level.

`out` holds the publications an actor still has to make: the target table is
swapped first, and then each publication is a step. History: `pushed` (text last
pushed), `late` (requests that reached the bridge after a stop), `behind`
(documents that lost a push, with the reason), `disturbed` (documents
for which two publications overlapped or one was cancelled).

### ExtensionSettings and Launch

A *project* is the record of what the extension reads: settings, the configured binary, the
shell's environment, `ROOT`, `ROOTS` and the `ROOT`s they name. A `ROOT` file is a sequence of lines,
a line one of words, and a word one of Isabelle's tokens: `session X=HOL +` has three words, the second with three tokens.
`LanguageServerCommand` composes what the source composes; it reads a file as `parse_session_from_line` does, line by line in words. `Declared`
reads the same file as Isabelle does, as one stream of tokens with comments, and `ReadmeLogic` applies the README's
three rules to that. The two differ, and `Plain` says where they have to agree: every heading begins a line, is complete in it with its
words up to the parent's name apart (spaces around the `=`) and is not inside a comment, and no line inside a comment looks like a heading. A file that is not plain may be
misread: of `session X=HOL +` the extension makes a session `X=HOL` without a parent, a heading split over lines has no parent, one inside
a comment of several lines counts. `NoOtherLogic` and `ListedOnce` say that the settings do not pass
a second `-l` or the worktree's path themselves, which the extension hands on as they are.

`Launch` starts a server with that command for each open worktree (`scene`). `server[w].at` and `bridges[b].at` name
the next call on the file system: `exists`, `probe`, `inspect`, `unlink`, `spawn`, `wait` of a server, `exists`,
`inspect`, `unlink`, `bind`, `listen` of a bridge. Each is one step, because anything may happen to
the path between two of them. `node` is what is at a path: nothing, an ordinary file, a dead
socket, or the number of the bridge that bound it, which stays there when the bridge dies.
`found` is what the health check saw.

Abstractions: an autostart command is the path of its `--socket` argument; a blank one, and one that
does not split into words, are values of their own. Connecting to a Unix socket
succeeds or fails at once, so the 200 ms limit of the probe is left out. The wait for the socket ends when the path exists or
at its time limit, which is any time. `StartByHand` is a bridge run in a terminal; servers and bridges
may be killed at any point (`MaxKills`). That the child is waited for after the kill is not seen.

### AdapterService

`transport` is `stdio` (one loop on the main thread) or `socket` (a loop per connection, on the
pool). `queue` and `running` are the pool; a task is a loop, the body of a request, the continuation that
writes its answer, or a wake-up. `loop` is where `streamLoop` stands: `reading`, `full` (`waitForCapacity`),
`draining` (the final `Await`), `closed`, or `cut` when that wait was ended by a failure or the time limit, or when a read
threw (`ReadFails`) and there was no wait at all. `lock` is `writeLock`: an answer takes it, writes and gives it back. `client` is the other end:
one that `stalls` reads no answers and its buffers are full, so that the write to it, and everybody's after it, waits (`Locked`)
until its socket is closed; one that is `gone` has no use for them. `MaxFaults` bounds the clients that do either.
A request goes through `wire`, `body`, `checking`, `answering` to `answered`, `lost` or `failed`.
`read` and `after` are history: the push whose text a check has read, and the pushes answered
when a request was sent.

Abstractions: the two continuations of a body, which build and write the answer, are one task;
there is one document; lines that do not decode change nothing and are left out; a
loop that waits for capacity is woken by the completion of any of its requests, as with
`firstCompletedOf`; when Isabelle ends, and with what, is open.

## 3. Runs

All run with deadlock checking. A system that stops does so in an explicit
`Terminated` step whose guard says what has to be finished.

| run | checks | bounds |
| --- | --- | --- |
| `session` | `TypeOK`, `NothingLost`, `EofFlushes`, `DocumentOrder`, `CheckSeesLatestPush`, `AnswersFollowRequests`, `AtMostOneChild` | mode sbt, the adapter working on 2 requests; 3 lines (pushes of 2 documents, one in versions 1 and 2, and checks), 1 crash of an adapter or of sbt alone, 1 restart per message, pipes and channel of 1 |
| `session_live` | `AtMostOneChild`, `PushReachesAdapter`, `AdapterEnds` | mode child; 6 pushes of one document, 1 crash, 1 restart per message, pipes and channel of 1, fair |
| `transport` | `TypeOK`, `OneExchange`, `RetryReconnects`, `InvalidIsBlamed`, `ImplementsRpc`, `RequestsFinish` | worker and a cancellable hover, 3 requests, 1 garbled line, fair |
| `lsp` | `TypeOK`, `FlushCovers`, `StopIsPrompt`, `NoOrphans`, `PushOrder` | 2 documents, 2 notifications, 2 handlers (stop, check; a check may be cancelled), cross-file reports |
| `lsp_live` | `TextArrives`, `CommandsFinish` | 1 document opened with version 1 or 2, 2 notifications, 2 handlers of any kind (start, stop, check, hover, close), fair |
| `launch` | `TypeOK`, `OwnedBridgeDies`, `AutostartFromShell`, `NativeArgsFollowReadme`, `OrdinaryFileKept`, `LiveSocketKept`, `RemovalNeedsRace`, `SpawnServes` | 1 or 2 worktrees, 3 paths, 2 launches, 1 server and 1 bridge killed, 1 bridge by hand; native scenes with every `ROOT` file of two of ten lines or three of five; fair |
| `adapter` | `TypeOK`, `InFlightBound`, `ReadsFresh`, `LostOnlyIfCut`, `Served`, `Releases` | both transports, 2 connections, pool of 2, 2 in flight, 3 requests, 1 client that stops reading or leaves, fair |
| `pipe`, `backpressure`, `lsp_stop`, `lsp_resume`, `lsp_crossfile` | one claim each that fails | see *Findings* |

*Why the bounds are enough.* What goes wrong in a debounce queue needs a push, a
second one that replaces it or is stale, and the event that drains it: three
lines, two versions, and a second document for batches of two. A restart needs one
crash; giving up after the last retry needs a second one during the same message, which makes the instances too large,
so that the limit rests on the proof of `TypeOK` for every number of crashes and retries. Two requests in an adapter are what it takes
to answer out of order. A capacity of one makes every pipe and the channel full as soon as anything is in them,
so each blocking write blocks; six pushes then close the circle of finding 2 (one each being written, on stdin, handled, on stdout, at the reader
task and in the channel), so `session_live` has it. Two callers are enough for one to find the
connection as the other left it, and a third request finds what a timed-out one left
behind. In the language server an interleaving of interest involves the worker and one
or two handlers; two notifications are enough for a push in flight and one
behind it. The two handlers of `lsp` are interchangeable, so that run,
which checks no liveness, uses symmetry over them. In `launch` two processes on one path are what it takes
for one to act between two calls of the other, and a second launch what it takes to meet what the first left
behind; the ten lines are headings (inheriting `HOL`, another session, nothing), a repeated name, a heading without spaces around
its `=`, one split over two lines, a line without one, and comments that open, close, or hold a heading.
In `adapter` two connections are as many as threads, so loops can hold the whole pool; three requests reach the
limit of two and leave one waiting, or are two pushes and a check; one client at fault is enough to hold the lock against the other. The constants are bounded only in the `.cfg` files and in the guards
named `MaxLines`, `MaxCrashes`, `MaxRequests`, `MaxGarbage`, `MaxNotes`, `MaxLaunches`,
`MaxKills`, `MaxConns` and `MaxFaults`.

*What they show.*

- `NothingLost`: as long as no error has ended the session, every message read is
  written or held, and every push is written, held, or gave way to one
  of its document that is not older and was in the queue with it.
- `EofFlushes`: a session that ended without an error owes the adapter nothing.
- `DocumentOrder`, `CheckSeesLatestPush`: the adapter receives each document's
  pushes and checks in the editor's order, each once; a check comes after the newest text.
- `AnswersFollowRequests`: answers from one adapter are for what was written to
  it, once each and in the order in which it gave them, even beside another's. That is not the order of the requests: the
  Scala adapter answers in any.
- `AtMostOneChild`, `AdapterEnds`: no second child process lives through a restart or after an orderly end, and
  no adapter on pipes outlives its session, even one that is killed. In sbt mode the first is said of sbt only: its adapter may live on
  beside the next one and after the session, and the run has both.
- `PushReachesAdapter`: a push is written unless the session fails, the editor stops reading what the bridge writes to
  it, or the bridge, the adapter and the reader task wait on each other in the circle of finding 2. The run reaches all three.
- `OneExchange`, `RetryReconnects`, `InvalidIsBlamed`: exchanges exclude each other
  through retries and cancellations; an id never goes out twice on one connection;
  each request that fails on an unreadable line is paid for by one garbled or torn line.
- `ImplementsRpc`: `request` is an at-most-twice remote call; the language server
  is modelled over exactly that.
- `RequestsFinish`, `CommandsFinish`: callers and commands always come to an end.
- `FlushCovers`: when a command checks a document, no push scheduled before its
  snapshot is still queued or open. `PushOrder`: no text is overtaken by an older one.
- `TextArrives`: the bridge has the editor's text unless a push failed, came up while
  stopped, or lost to a pending push of the document's former self. The three exceptions are
  the complete list of ways the code loses a text.
- `StopIsPrompt`: after a stop, each task lets at most one more request through.
- `NoOrphans`: overlapping publications are the only way diagnostics are left
  that no table entry accounts for.

- `OrdinaryFileKept`: however start-ups interleave, a file that is not a socket is not
  removed. This holds by a second line of defence: where the check and the
  removal are separate calls, only sockets can have come in between.
- `LiveSocketKept`, `SpawnServes`: a worktree that has a path to itself, by far the usual case as the default
  is per worktree, never loses a living bridge's socket, and the bridge its server spawns
  ends up listening where the server looks for it.
- `RemovalNeedsRace`: where a path is shared, the health check leaves one window, a socket that
  came up after the look.
- `OwnedBridgeDies`: as long as no server is killed, an autostarted bridge lives only while the server that
  spawned it does, also when other servers have come to use it.
- `AutostartFromShell`, `NativeArgsFollowReadme`: only the shell's environment names a command
  that is run; Isabelle's own server is started with the logic the README's rules select, wherever the `ROOT`
  files are plain, and is told of the worktree exactly once.
- `InFlightBound`, `ReadsFresh`, `LostOnlyIfCut`: the bound of each connection holds through failures and
  wake-ups; a text is not read once its successor, pushed after it was answered, has been answered itself; a client that has not gone
  loses an answer only if the shutdown was cut short, and never on stdio.
- `Served`, `Releases`: a request is answered or fails, and a client that leaves gets its loop ended, with three exceptions,
  each of which the run reaches: the request's own Isabelle run does not end; loops and such runs hold every thread of the pool (four open
  connections, or four loops waiting for capacity, leave none to answer with); an answer to a client that does not read
  holds the lock of all. For a loop that waits for capacity there is no time limit. What the two add is that there is nothing
  else: no thread waits for one that waits for it, and no completion goes unnoticed.

Every property of a passing run has a mutant in `PROJECT.json`: a plausible
bug in one definition, written next to it as a "Variant", under which TLC finds the
property violated. No action uses the variants.

## 4. Fairness

- *Bridge* (`session_live`): weak fairness of the loop's write, restart and stop steps, of the
  tick, of taking an answer from the channel, of the clock, of the reader tasks and of the adapter. tokio polls
  every ready task; `select!` picks its branch at random among the ready ones, and as the
  editor's input is finite no branch is passed over for ever.
  Nothing is assumed of the editor, not that it reads what is written to it (`DeliverAnswer` has no fairness), of errors or of crashes. The adapter answers
  what it has read: this is the one assumption about code outside the bridge, and
  `run_mock_adapter`, the adapter of mode child, keeps it. The Scala adapter need not (see *Adapter*), and no liveness is claimed of the other modes.
- *Transport*: weak fairness of each caller's own steps. The timer of an attempt is
  among them, so the bridge need not do anything.
- *Language server* (`lsp_live`): one weak fairness condition on all steps of the
  worker and the handlers and on requests being settled. Every such step uses up something the finitely many
  notifications and commands caused, so no step can be put off for ever by the
  others. That requests are settled is `RequestsFinish` of the transport.

- *Launch*: weak fairness of each server's start-up and of the bridges'. A process
  that is starting runs on; nobody has to launch, close or kill anything.
- *Adapter*: weak fairness of each loop, of the pool taking a task, and of the running tasks but for the end of an
  Isabelle run (`BodyEnds`), which `runIsabelleCheck` awaits without limit. Clients owe nothing, not even to read.

## 5. Findings

Five claims of the repository's own texts that the code does not keep; each is a
run that ends in a counterexample.

1. `pipe`/`CleanEndAnswersAll`: `bridge/README.md:124` runs the bridge on
   `cat request.ndjson |`. At end of input the session writes what is pending and
   kills the adapter; answers to the last messages are never printed.
2. `backpressure`/`NoBackpressureDeadlock`: `CHANGELOG.md:47` drains stderr against
   pipe deadlocks. The circle of full stdin, full stdout and full channel
   remains, because a blocked write stops the loop that drains the channel. With
   the real capacities it takes a long input that is read faster than it is answered.
3. `lsp_stop`/`StopClears`: `isabelle-lsp/README.md:59` says a stop clears diagnostics.
   A request in flight publishes its answer after the clearing.
4. `lsp_resume`/`ResumedCheckIsCurrent`: `CHANGELOG.md:23` says a stop *pauses* pushes. A
   push that comes up while stopped is dropped, and the check that a
   start triggers names a version whose text the bridge never got.
5. `lsp_crossfile`/`CrossFilePreserved`: `CHANGELOG.md:49` says cross-file diagnostics
   are preserved. Two documents that report on a third overwrite and clear each
   other's diagnostics: in the run both report on `c`, which never has an answer of its own; the next answer for one no longer does, and `c` is
   cleared although the last answer for the other still reports on it. The adapter gives such answers: the URI of a diagnostic is the path
   in Isabelle's message (`AdapterMain.scala` 48-54), which names another file
   when the error is in an imported theory.

`README.md:336` is kept for plain files only (*ExtensionSettings*): a file with the one heading `session X=HOL +` has one session, X, and the
extension passes `-l X=HOL`. That is the reading of a format by whitespace, which the launch run contains and `Plain` excludes by name, and no
run is spent on it.

## 6. Proofs

TLAPS checks every theorem for every value of the constants: any sets of documents, handlers, callers,
worktrees or scenes, any capacities, limits and modes. The bounds of section 3 that a guard names
(`MaxLines`, `MaxCrashes`, ...) are constants too, so a theorem holds for runs of any length.
Each proof follows the code's steps: a predicate is strengthened until every action preserves it, with a lemma per action.
The strengthened invariants were checked with TLC on the instances of section 3 first.

| module | theorem | states |
| --- | --- | --- |
| `BridgeSessionProofs` | `TypeCorrect`, `BasicsCorrect` | `TypeOK`, and what the loop holds in each phase |
| | `NothingLostCorrect`, `EofFlushesCorrect`, `AtMostOneChildCorrect` | the run's properties of these names |
| `BridgeOrderProofs` | `DocumentOrderCorrect`, `CheckSeesLatestPushCorrect`, `AnswersFollowRequestsCorrect` | the same |
| `BridgeTransportProofs` | `TypeCorrect`, `OneExchangeCorrect`, `RetryReconnectsCorrect`, `InvalidIsBlamedCorrect` | the same |
| | `ImplementsRpcCorrect` | `Spec => Rpc!Spec` under the refinement mapping |
| `LanguageServerProofs` | `TypeCorrect`, `FlushCoversCorrect`, `StopIsPromptCorrect`, `NoOrphansCorrect`, `TextArrivesCorrect` | the same |
| | `PushOrderCorrect` | the action property `PushOrder` |
| `ExtensionSettingsProofs` | `LogicFollowsReadme`, `WorktreeIsNamedOnce` | what the arguments are, for files and settings of any length |
| `LaunchProofs` | `TypeCorrect`, `OwnedBridgeDiesCorrect`, `AutostartFromShellCorrect`, `NativeArgsFollowReadmeCorrect` | the same |
| | `OrdinaryFileKeptCorrect`, `RemovalNeedsRaceCorrect`, `LiveSocketKeptCorrect` | action properties |
| `AdapterServiceProofs` | `TypeCorrect`, `InFlightBoundCorrect`, `ReadsFreshCorrect`, `LostOnlyIfCutCorrect` | the same |

*Assumptions* on constants, all evaluated by TLC in the runs of their module: bounds and limits are
naturals, capacities, the limit in flight and the pool's size are positive (`DebounceAssumption`,
`SessionAssumption`, `TransportAssumption`, `ServerAssumption`, `AdapterAssumption`, `LaunchAssumption`); the values that stand
for "no message", "no connection", "none" are not members of the sets they stand beside
(`NoMessageAssumption`, `NoLinkAssumption`, `NoneAssumption`); a scene has every path its servers and commands
use and nothing but ordinary files and dead sockets on them to begin with (`ScenesAssumption`, `LaunchAssumption`); files and
settings are made of strings, none of which stands for "not there" (`WordsAssumption`).

### The session

`TypeOK` alone is not inductive: a write appends
`sending`, and that it is a message follows from where the loop stands;
`attempts` stays within its bound only if `backoff` is entered below it; and what the reader task puts into the
channel is a delivery because the task holds a message then. `Phases`
says what the loop holds in each phase, and the two together are `Basics`.
`NothingLost` needs three more facts, `LossInv`: messages carry the number of their line
(`Numbered`), so a later push really is later than everything in the queue;
everything held has been read (`HeldWasRead`), so a replacement
was not there first and a write counts for every push it covers; the queue
contains pushes only (`QueuedPushes`). The core is two lemmas. `EnqueueCovers`:
whatever a queue covered before an enqueue, it covers after it, in both branches
(replaced or stale). `ProceedKeeps`: a step through a drained batch moves
messages from held to written and drops none. `EofFlushes` follows: at `ended`,
`Phases` says nothing is held.
`AtMostOneChild` is inductive relative to `Basics`: `StoppedReaps` says that
`stop()`, which only kills the newest child, leaves none alive because the older
ones were dead already (`ReapedDead`: dead in the sense of the mode, the adapter on pipes or sbt), and `StartAddsOne` that `start()` goes through it. A killed bridge
(`Killed`) starts nothing any more, so it only has to keep what was there.

`DocumentOrder` speaks of `sent`, but what is written next comes from three places. `Apart` says how
they relate: what one turn of the loop carries (`Loaded`) is pushes of different documents and
at most one message of another kind, younger than they are; and the queue has no document in common
with it. `Behind` says that nothing held is older than what has been written of its document. The
second needs the first: the message written next would otherwise overtake
another of its document. `CheckSeesLatestPush` needs `Prepared`: while a check is on its way, the
newest push of its document has been written or is drained in front of it. That is true when the check is
read because nothing was lost until then (`NothingLost`), and stays true because nothing but
`ProceedKeeps` happens to the drained.

`AnswersFollowRequests` has two halves, on either side of the adapter's choice of what to answer next. `AskedInv` is about its input: what is on
an adapter's stdin, being handled, or told are different messages, each written to that adapter. It says nothing of their
order, because there is none to keep. `GivenInv` is about its output: what has been delivered, is being written to the
editor, waits in the shared channel, is held by the reader task, and is on stdout are the adapter's answers in the order of
`told`, the places following each other. Each step takes one message from one place to the next, or adds one at
the end of `told`; other adapters' places are not touched, which is why a reader task that outlives its adapter, and an adapter
that outlives its sbt, do no harm.

### The transport

`Lock` says that the mutex's queue holds exactly the callers under way, each once, and that only its head
is past `waiting`: that is `OneExchange`, and what every other part rests on. `Numbered` ties a
caller to an id nobody else has and that is open; `Heard` says that whatever is on the connection
has been written, so that an answer is to something sent. `Tried` counts: before a first attempt's write an
id was never written, before a second's not on this connection. `InvalidIsBlamed` is
one inequality between counts (`Blamed`): failures on unreadable lines, plus those still waiting on the
connection, are at most the garbled plus the cancelled requests. Each unreadable line is consumed once, so reading it moves
one from the second count to the first.

`ImplementsRpcCorrect` is the refinement step by step: every action is mapped to `Issue`, `Reach`, `Answer`,
`Fail` or a stutter of `BridgeRpc`. `WriteEnds` is `Reach`, `ReadEnds` is `Answer` when the id is the caller's own (which
`Heard` shows to have reached the bridge) and `Fail` when the line is unreadable. It counts on `AtMostTwice` for the bound of
`Reach`. The language server is modelled over `BridgeRpc`, so this is what joins the two models.

### The language server

Four parts beside the types and what each handler may have open (`Handlers`).
`Way` follows a text: events, then pending or batch, then the worker's request. There is at most one push per document in pending and
batch together (`OnePush`), all of it is in the order written (`Pipeline`), no text is older than the
one last pushed or newer than the editor's (`Texts`), and the editor's text has been pushed or
is on its way (`Arriving`). `PushOrder` and `TextArrives` follow. The worker drops a text whose version is lower than
the pending one's; after a close and a reopen that may be the newer text, which is one of the `Losses` that `Arriving` excepts.
`Flushing` is what makes a flush cover: an event of a flush stands behind every push its check must wait for
(`Behind`), and once the worker has taken it, those pushes are not in the table any more.
`Stopping` counts what a task may still let through: a request it has already decided to
send and no second one, as each looks at the flag before the next.
`Published` says that every publication still to make is one that the table lists, or that clears; hence everything the editor
shows is listed or about to be cleared (`Shown`), except for `disturbed` documents.

### Autostart

`Inv` gives the records their fields and adds `Harmless`: whoever
stands before a removal looks at a path without an ordinary file. That is inductive because between the look
and the removal only sockets can come and nothing turns a socket into a file
(`KeepsFiles`, which every action is shown to satisfy together with `Inv'` in `NextKeeps`, and which is the
property `OrdinaryFileKept`). `Owned` strengthens `OwnedBridgeDies` by what a server that has not spawned yet has: no
child, so that the one it gets is its only one, and closing it leaves no other behind. `Typed` is
`TypeOK` with the paths a server may look at, and the fact behind `RemovalNeedsRace`: once a server has
decided against what it found, that bridge is dead, and the dead stay dead (`BridgesGrow`).
`ShellCommands` carries the command from `LanguageServerCommand` to the
spawn; `CommandIsShells` says that neither the merge nor what bridge mode adds can name the variable.

`LiveSocketKept` combines them. `Sharing` adds to which worktree a running server and an autostarted bridge
belong, and that a bridge whose socket is there is past its bind. On a path with a single user
every living bridge is the one child of the one server (`AloneOwns`, from `Owned` and `ShellCommands`). So a bridge about to
remove the file would be the bridge that bound it, which is past that point, and the server about to
remove it would already have a child, which a server before its spawn does not.

### The command

`NativeArgsFollowReadmeCorrect` rests on no state but on data of any size: the scene never changes, and the rest is a fact about
`NativeArgs`. The theorems of the library that carry out an induction take the induction hypothesis as an operator, which the
provers cannot instantiate; `Induction` states it for a *set* of naturals instead (from `NatLessThanWellFounded` and `WFMin`), and
an induction is then a set of the numbers at which something holds. It is used twice, on `FlattenSeq`: `FlattensExists` says that its
recursive function exists, and `AllJoined` that each of the sequences it joins stands at a place of its own, in order,
and that nothing else does (`Placed`).

The two readings are of different data: one of words, by line, the other of the positions of all tokens, in their order
(`PositionIs`, `Ordered`). In a plain file the extension's words and Isabelle's tokens meet at the headings: those of a heading's words up to the parent's name
are one token each (`HeadingIs`) and visible, because the first of them is and no bracket of a comment comes between (`HeadingVisible`); nothing lies
between one and the next (`HeadingBetween`), so the token after `session` is the second word (`HeadingAfter`), and the first `=` behind
it is the one of its line (`HeadingEquals`). Elsewhere neither reading finds a session: a visible `session` begins a line by `Plain`, and a
line that begins with one is a heading. `SessionsAreDeclared` puts this together: both readings find the same sessions with the same parents; and the rules
of the README and `PickAutoLogic` are the same case distinction on them (`AutoLogicIsReadmes`; sessions are finite in number,
`SessionsFinite`, which the comparison of "exactly one" with `Cardinality` needs). For the arguments it is enough to say where
a word occurs in a joined sequence (`OccursJoined`, `OccursInDirs`).

Each conjunct of `Plain` is needed for one of these steps; `NoOtherLogic` and `ListedOnce` are there because settings may
pass a `-l` or the path themselves, which is theirs to decide.

### The adapter

`InFlightBound`, `ReadsFresh` and `LostOnlyIfCut` are proved together. `Wires` and `Jobs` say that a request is in one place: on
the wire, or the pool has exactly one task for it, at the stage the task is for (`Placed`); without that, one body could run
twice and a request count for two. `Ending` says what a loop at its end waits for: everything in flight
(`draining`), and nothing is in flight once it is `closed`, which leaves `cut` as the only way for a client that is there to lose an
answer; and that a client that is gone, or whose loop is at its end, sends no more. `Knowing` is
behind `ReadsFresh`: a text stays in the table only while no push that was sent after its answer has
been put into it, and the pushes a request knows of as answered stay so.

### What stays with TLC

- Liveness and `ENABLED`: `PushReachesAdapter`, `AdapterEnds`, `RequestsFinish`, `CommandsFinish`, `SpawnServes`,
  `Served`, `Releases`. The prover has no rules for fairness here. Every invariant and every action property is proved.

The five runs of section 5 are counterexamples; there is nothing to prove.

## 7. Not modelled, and why

- JSON codecs, the regular expressions over Isabelle's output, logging, wording: text
  processing without state. Positions (0-based in the editor, 1-based in the bridge) are converted one at a
  time, with no step in between.
- The 45 s connect loop of the sbt mode is one step that succeeds or fails. Each start takes a fresh port (`process` 218), so a predecessor's
  JVM is not in its way. What such a JVM does after its session, and whether it ever ends, is not modelled: nobody is connected to it.
- One external adapter shared by several sessions (`--adapter-socket`): there a
  session the language server has abandoned may still deliver a push after a
  newer one from its successor. In the other modes each session has its own adapter.
  `AdapterService` shows what the shared table still promises (`ReadsFresh`).
- The document table an adapter loses when it is restarted: it takes the session and the adapter in one
  model (*Plan*). Nothing in the code or its texts promises that a check after a restart has a text.
- Of the extension, the workspace configuration it passes on (the settings without its own keys).
- Of ROOT files, quoting inside a word and what follows an unquoted `#`, which is no Isabelle syntax; what the extension makes of a file that is not
  plain is in the model, but nothing is claimed of it.
- The mock backend of the Scala adapter is `AdapterService` without bodies that run.
- `initialize`, `shutdown` and the server's capabilities: no state.
- Scripts, packaging, CI and the prebuilt grammar: build tooling.

## 8. Plan

Done: `DebounceQueue`, `BridgeSession`, `BridgeRpc` and `BridgeTransport`
with the refinement, `LanguageServer` over `BridgeRpc`, `ExtensionSettings`, `Launch`,
`AdapterService`; proofs of every invariant and action property, and of the refinement.

Next: `Stack`: a session, its restarts and the adapter's document table composed, for
the text a check is run on after a restart, and two sessions on one adapter.
