---------------------------- MODULE SnapshotSync ----------------------------
(***************************************************************************)
(* How a browser learns what the manager knows.  A change of a slot sends  *)
(* a runtime event (process/manager.rs); for each event the forwarder      *)
(* (setup.rs) builds a snapshot of the state as it is by then and emits it *)
(* on the event bus (runtime.rs), from which the SSE stream (lib.rs)       *)
(* serves it.  The page also asks for snapshots on its own, and the store  *)
(* (useAppStore.ts) decides which of those that arrive it shows.           *)
(*                                                                         *)
(* Changes of the manifest send no event.  A snapshot is identified with   *)
(* the number of changes it has seen.                                      *)
(***************************************************************************)
EXTENDS Integers, Sequences

CONSTANTS
  Loads,            \* snapshot requests of the page that can be in flight
  LogEntry,         \* any event on the bus that is not a snapshot
  EventCap, BusCap, \* capacities of the two channels (128 and 256 in the code)
  MaxMan, MaxRun, MaxSeq   \* bounds: changes of manifest and slots, requests

Snapshots == [man: Int, run: Int]
Blank     == [man |-> -1, run |-> -1]   \* a page that shows nothing yet

ASSUME CapAssumption ==
  /\ EventCap \in Nat \ {0} /\ BusCap \in Nat \ {0}
  /\ MaxMan \in Nat /\ MaxRun \in Nat /\ MaxSeq \in Nat
ASSUME LogAssumption == LogEntry \notin Snapshots

VARIABLES
  man, run,      \* changes of the manifest and of the slots so far
  unsent,        \* changes of slots whose event is still to be sent
  events,        \* events the forwarder has not received
  fw,            \* the forwarder: [step, man], the manifest it has read
  bus,           \* what the stream of this page has not delivered
  connected,     \* the page's EventSource is connected
  seq, minValid, latest,   \* snapshotRequestSeq, minValidSnapshotSeq,
                           \* latestAppliedSnapshotSeq of the store
  req,           \* req[q]: [step, seq, man, run]
  view,          \* the snapshot the page shows
  drained,       \* the slots were emptied at exit, which sends no event
  pushed,        \* history: the last snapshot that came as an event
  missed         \* history: the last snapshot emitted did not reach the page

server   == <<man, run, unsent, drained>>
pipe     == <<events, fw>>
stream   == <<bus, connected, missed>>
store    == <<seq, minValid, latest, view, pushed>>
syncVars == <<server, pipe, stream, store, req>>

Steps == {"idle", "sent", "read", "answered"}

SyncTypeOK ==
  /\ man \in 0..MaxMan /\ unsent \in 0..run
  /\ run \in 0..MaxRun + 1 /\ (run > MaxRun => drained)
  /\ events \in 0..EventCap
  /\ fw \in [step: {"idle", "woken", "read"}, man: 0..MaxMan]
  /\ bus \in Seq(Snapshots \cup {LogEntry}) /\ Len(bus) <= BusCap
  /\ connected \in BOOLEAN /\ drained \in BOOLEAN /\ missed \in BOOLEAN
  /\ seq \in 0..MaxSeq /\ minValid \in 0..seq + 1 /\ latest \in 0..seq + 1
  /\ req \in [Loads -> [step: Steps, seq: 0..seq, man: Int, run: Int]]
  /\ view \in Snapshots /\ pushed \in Snapshots

Idle == [step |-> "idle", seq |-> 0, man |-> 0, run |-> 0]

\* The page is opened: it connects and asks (App.tsx).
SyncInit ==
  /\ man = 0 /\ run = 0 /\ unsent = 0 /\ drained = FALSE
  /\ events = 0 /\ fw = [step |-> "idle", man |-> 0]
  /\ bus = <<>> /\ connected = FALSE /\ missed = FALSE
  /\ seq = 0 /\ minValid = 0 /\ latest = 0 /\ view = Blank /\ pushed = Blank
  /\ req = [q \in Loads |-> Idle]

----------------------------------------------------------------------------
(***************************************************************************)
(* The manager.                                                            *)
(***************************************************************************)
\* A slot changes under the mutex; the event is sent after it is released.
RunChanges ==
  /\ run < MaxRun /\ run' = run + 1 /\ unsent' = unsent + 1
  /\ UNCHANGED <<man, drained, pipe, stream, store, req>>

\* drain_for_shutdown empties the slots and emits nothing.
DrainSilently ==
  /\ ~drained /\ drained' = TRUE /\ run' = run + 1
  /\ UNCHANGED <<man, unsent, pipe, stream, store, req>>

ManifestChanges ==
  /\ man < MaxMan /\ man' = man + 1
  /\ UNCHANGED <<run, unsent, drained, pipe, stream, store, req>>

Emit_Unbounded ==
  /\ unsent > 0 /\ unsent' = unsent - 1
  /\ events' = events + 1
  /\ UNCHANGED <<man, run, drained, fw, stream, store, req>>

\* A full channel forgets its oldest event; a receiver that lags is told how many
\* it lost and goes on with the next.
Emit ==
  /\ unsent > 0 /\ unsent' = unsent - 1
  /\ events' = IF events < EventCap THEN events + 1 ELSE events
  /\ UNCHANGED <<man, run, drained, fw, stream, store, req>>

----------------------------------------------------------------------------
(***************************************************************************)
(* The forwarder.  It does not look at the event but builds a new snapshot *)
(* (build_app_snapshot_with: first the manifest, then the slots).          *)
(***************************************************************************)
Receive ==
  /\ fw.step = "idle" /\ events > 0
  /\ events' = events - 1
  /\ fw' = [step |-> "woken", man |-> fw.man]
  /\ UNCHANGED <<server, stream, store, req>>

ForwardReads ==
  /\ fw.step = "woken"
  /\ fw' = [step |-> "read", man |-> man]
  /\ UNCHANGED <<server, events, stream, store, req>>

Push_DropsNewest(x) ==
  bus' = IF ~connected \/ Len(bus) = BusCap THEN bus ELSE Append(bus, x)

\* The stream of a slow client loses the oldest entries without a word; nobody
\* keeps anything for a client that is not connected.
Push(x) ==
  bus' = IF ~connected THEN bus
         ELSE IF Len(bus) < BusCap THEN Append(bus, x) ELSE Append(Tail(bus), x)

ForwardEmits ==
  /\ fw.step = "read"
  /\ Push([man |-> fw.man, run |-> run])
  /\ missed' = ~connected
  /\ fw' = [step |-> "idle", man |-> 0]
  /\ UNCHANGED <<server, events, connected, store, req>>

\* The settings or the manifest cannot be read: a warning in the log.
ForwardFails ==
  /\ fw.step \in {"woken", "read"}
  /\ fw' = [step |-> "idle", man |-> 0]
  /\ missed' = TRUE
  /\ UNCHANGED <<server, events, bus, connected, store, req>>

OnBus == \E k \in 1..Len(bus) : bus[k] \in Snapshots

\* Log entries and progress reports share the bus.
Log ==
  /\ connected /\ Push(LogEntry)
  /\ missed' = (missed \/ (OnBus /\ ~OnBus'))
  /\ UNCHANGED <<server, pipe, connected, store, req>>

----------------------------------------------------------------------------
(***************************************************************************)
(* The stream and the store.                                               *)
(***************************************************************************)
\* The browser connects by itself, again and again, and gets what comes then.
Connect ==
  /\ ~connected /\ connected' = TRUE
  /\ UNCHANGED <<server, pipe, bus, missed, store, req>>

Disconnect ==
  /\ connected /\ connected' = FALSE
  /\ bus' = <<>>
  /\ missed' = (missed \/ OnBus)
  /\ UNCHANGED <<server, pipe, store, req>>

Hydrate_KeepsRequests(s) == view' = s /\ pushed' = s /\ UNCHANGED <<seq, minValid, latest>>

\* hydrateSnapshot: answers to requests that are in flight become invalid.
Hydrate(s) ==
  /\ view' = s /\ pushed' = s
  /\ minValid' = seq + 1 /\ latest' = seq + 1
  /\ UNCHANGED seq

Deliver ==
  /\ bus # <<>> /\ bus' = Tail(bus)
  /\ IF Head(bus) = LogEntry THEN UNCHANGED store ELSE Hydrate(Head(bus))
  /\ UNCHANGED <<server, pipe, connected, missed, req>>

\* loadSnapshot, on opening or changing a page, around operations, on refresh.
Send(q) ==
  /\ req[q].step = "idle" /\ seq < MaxSeq
  /\ seq' = seq + 1
  /\ req' = [req EXCEPT ![q] = [step |-> "sent", seq |-> seq + 1, man |-> 0, run |-> 0]]
  /\ UNCHANGED <<server, pipe, stream, minValid, latest, view, pushed>>

\* The server builds the answer like the forwarder does.
RequestReads(q) ==
  /\ req[q].step = "sent"
  /\ req' = [req EXCEPT ![q] = [step |-> "read", seq |-> @.seq, man |-> man, run |-> 0]]
  /\ UNCHANGED <<server, pipe, stream, store>>

RequestAnswers(q) ==
  /\ req[q].step = "read"
  /\ req' = [req EXCEPT ![q] =
               [step |-> "answered", seq |-> @.seq, man |-> @.man, run |-> run]]
  /\ UNCHANGED <<server, pipe, stream, store>>

Outdated(q) == req[q].seq < minValid \/ req[q].seq < latest

Arrive(q) ==
  /\ req[q].step = "answered"
  /\ req' = [req EXCEPT ![q] = Idle]
  /\ IF Outdated(q) THEN UNCHANGED <<latest, view>>
     ELSE latest' = req[q].seq /\ view' = [man |-> req[q].man, run |-> req[q].run]
  /\ UNCHANGED <<server, pipe, stream, seq, minValid, pushed>>

\* The network or the server fails: the page reports an error.
RequestFails(q) ==
  /\ req[q].step # "idle"
  /\ req' = [req EXCEPT ![q] = Idle]
  /\ UNCHANGED <<server, pipe, stream, store>>

----------------------------------------------------------------------------
Manager   == RunChanges \/ DrainSilently \/ ManifestChanges \/ Emit
Forwarder == Receive \/ ForwardReads \/ ForwardEmits \/ ForwardFails
Stream    == Log \/ Connect \/ Disconnect \/ Deliver
Request(q) == Send(q) \/ RequestReads(q) \/ RequestAnswers(q) \/ Arrive(q) \/ RequestFails(q)

SyncNext == Manager \/ Forwarder \/ Stream \/ \E q \in Loads : Request(q)

\* Whoever has changed a slot sends the event, the forwarder takes what it is sent
\* and ends what it builds, and the stream delivers while it is connected.
SyncFairness == WF_syncVars(Emit) /\ WF_syncVars(Forwarder) /\ WF_syncVars(Deliver)

SyncSpec == SyncInit /\ [][SyncNext]_syncVars /\ SyncFairness
-----------------------------------------------------------------------------
(***************************************************************************)
(* Properties.                                                             *)
(***************************************************************************)
NotOlder(s, t) == s.man >= t.man /\ s.run >= t.run

\* hydrateSnapshot and loadSnapshot together: no answer, however late, takes the
\* page back behind the last snapshot that came as an event.
AnswersFollowPushes ==
  [][view' # view /\ pushed' = pushed => NotOlder(view', pushed)]_syncVars

\* Nothing is on its way to the page but answers to its own requests.
Quiet == unsent = 0 /\ events = 0 /\ fw.step = "idle" /\ ~OnBus

\* The events of slow and fast changes are merged, overtaken and forgotten on their
\* way, yet when none is left the page shows the slots as they are, whatever answers
\* come late: unless it has nothing to go by (no change yet, the last snapshot lost,
\* or the drain at exit).
CurrentWhenQuiet == Quiet => run = 0 \/ drained \/ missed \/ view.run = run

\* When the slots have come to rest, the page shows them as they are and goes on
\* doing so, whatever answers are still on their way: unless the last snapshot was
\* lost (a stream that broke or lagged, a build that failed), or the change sent
\* no event (the drain at exit).
RuntimeConverges == <>[](run = 0 \/ drained \/ missed \/ view.run = run)
=============================================================================
