---------------------------- MODULE DebounceQueue ----------------------------
(***************************************************************************)
(* The debounce queue of the bridge (bridge/src/queue.rs): at most one     *)
(* pending document.push per URI.  A queue is a set of entries, each the   *)
(* latest message of its URI and the time since it was (re)queued, counted *)
(* in clock steps up to Debounce.  The HashMap's iteration order is        *)
(* arbitrary, so what drains is a set: the caller picks the order.         *)
(*                                                                         *)
(* Messages are records with at least the fields id (the number of the     *)
(* line it was read from), uri and version.                                *)
(***************************************************************************)
EXTENDS Naturals

CONSTANT Debounce           \* the debounce window, in clock steps

ASSUME DebounceAssumption == Debounce \in Nat

EmptyQueue == {}

Entry(m, age) == [message |-> m, age |-> age]

MessagesOf(entries) == {e.message : e \in entries}

EntriesFor(q, uri) == {e \in q : e.message.uri = uri}

(* A pending push with a strictly greater version wins, and its timer is   *)
(* left alone; any other push replaces what its URI had pending and starts *)
(* a new window.                                                           *)
Stale(q, m) == \E e \in EntriesFor(q, m.uri) : e.message.version > m.version

(* Variant: replaces whatever the version. *)
EnqueueAnyVersion(q, m) == (q \ EntriesFor(q, m.uri)) \cup {Entry(m, 0)}

Enqueue(q, m) ==
    IF Stale(q, m)
      THEN q
      ELSE (q \ EntriesFor(q, m.uri)) \cup {Entry(m, 0)}

Ready(q) == {e \in q : e.age >= Debounce}

(* Variant: the window never quite elapses. *)
ElapseShort(q) ==
    {[e EXCEPT !.age = IF e.age + 1 < Debounce THEN e.age + 1 ELSE e.age] : e \in q}

(* One clock step; ages above the window are not told apart. *)
Elapse(q) ==
    {[e EXCEPT !.age = IF e.age < Debounce THEN e.age + 1 ELSE e.age] : e \in q}

-----------------------------------------------------------------------------
(* What "not lost" means for a debounced push p: q itself, or a push of    *)
(* the same URI that was read later and is not older, or one that was      *)
(* pending before it and is newer.                                         *)
Covers(q, p) ==
    /\ q.uri = p.uri
    /\ \/ q = p
       \/ q.id > p.id /\ q.version >= p.version
       \/ q.id < p.id /\ q.version > p.version

OnePerUri(q) ==
    \A e, f \in q : e.message.uri = f.message.uri => e = f
=============================================================================
