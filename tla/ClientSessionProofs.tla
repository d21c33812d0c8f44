------------------------ MODULE ClientSessionProofs ------------------------
(***************************************************************************)
(* Proofs about what a user of the page sees: the snapshots it shows, and  *)
(* the instances that come back when the manager does.                     *)
(*                                                                         *)
(* SnapshotSync, for any requests, capacities and bounds:                  *)
(*   SyncTypeCorrect     the types,                                        *)
(*   AnswersNeverGoBack  AnswersFollowPushes,                              *)
(*   QuietIsCurrent      CurrentWhenQuiet, by ViewInv and LastInv.         *)
(*                                                                         *)
(* Session, for any instances:                                             *)
(*   SessionTypeCorrect  the types,                                        *)
(*   StoppedStays        StoppedStaysOff, by OffInv.                       *)
(***************************************************************************)
EXTENDS SnapshotSync, Session, TLAPS

USE CapAssumption, LogAssumption

----------------------------------------------------------------------------
(***************************************************************************)
(* Types.                                                                  *)
(***************************************************************************)
\* A bus of at most BusCap entries stays one, and its entries are old ones or x.
LEMMA PushKeeps ==
  ASSUME NEW x \in Snapshots \cup {LogEntry}, Push(x),
         bus \in Seq(Snapshots \cup {LogEntry}), Len(bus) <= BusCap
  PROVE  /\ bus' \in Seq(Snapshots \cup {LogEntry}) /\ Len(bus') <= BusCap
         /\ \A k \in 1..Len(bus') : bus'[k] = x \/ \E j \in 1..Len(bus) : bus'[k] = bus[j]
<1> DEFINE Entries == Snapshots \cup {LogEntry}
<1> HIDE DEF Entries
<1>1. CASE ~connected
  BY <1>1 DEF Push
<1>2. CASE connected /\ Len(bus) < BusCap
  <2>1. bus' = Append(bus, x)
    BY <1>2 DEF Push
  <2> QED
    BY <1>2, <2>1 DEF Entries
<1>3. CASE connected /\ ~(Len(bus) < BusCap)
  <2>1. bus' = Append(Tail(bus), x) /\ bus # <<>>
    BY <1>3 DEF Push
  <2>2. x \in Entries /\ bus \in Seq(Entries)
    BY DEF Entries
  <2>3. /\ Tail(bus) \in Seq(Entries) /\ Len(Tail(bus)) = Len(bus) - 1
        /\ \A k \in 1..Len(bus) - 1 : Tail(bus)[k] = bus[k + 1]
    BY <2>1, <2>2
  <2>4. /\ bus' \in Seq(Entries) /\ Len(bus') = Len(bus)
        /\ \A k \in 1..Len(bus) : bus'[k] = IF k = Len(bus) THEN x ELSE Tail(bus)[k]
    BY <2>1, <2>2, <2>3
  <2>5. \A k \in 1..Len(bus') : bus'[k] = x \/ \E j \in 1..Len(bus) : bus'[k] = bus[j]
    <3>1. Len(bus) \in Nat
      BY <2>2
    <3>2. ASSUME NEW k \in 1..Len(bus), k # Len(bus)
          PROVE  bus'[k] = bus[k + 1] /\ k + 1 \in 1..Len(bus)
      <4>1. k \in 1..Len(bus) - 1 /\ k + 1 \in 1..Len(bus)
        BY <3>1, <3>2
      <4> QED
        BY <2>3, <2>4, <4>1, <3>2
    <3> QED
      BY <2>4, <3>2
  <2> QED
    BY <2>4, <2>5 DEF Entries
<1> QED
  BY <1>1, <1>2, <1>3

LEMMA EmptyBus == ASSUME NEW S PROVE <<>> \in Seq(S) /\ Len(<<>>) = 0
OBVIOUS

LEMMA TypeStep == SyncTypeOK /\ [SyncNext]_syncVars => SyncTypeOK'
<1> SUFFICES ASSUME SyncTypeOK, [SyncNext]_syncVars PROVE SyncTypeOK'
  OBVIOUS
<1> USE DEF SyncTypeOK, Steps, server, pipe, stream, store
<1>1. CASE RunChanges      BY <1>1 DEF RunChanges
<1>2. CASE DrainSilently           BY <1>2 DEF DrainSilently
<1>3. CASE ManifestChanges BY <1>3 DEF ManifestChanges
<1>4. CASE Emit            BY <1>4 DEF Emit
<1>5. CASE Receive         BY <1>5 DEF Receive
<1>6. CASE ForwardReads    BY <1>6 DEF ForwardReads
<1>7. CASE ForwardEmits
  <2> DEFINE x == [man |-> fw.man, run |-> run]
  <2>1. x \in Snapshots /\ Push(x)
    BY <1>7 DEF ForwardEmits, Snapshots
  <2>2. bus' \in Seq(Snapshots \cup {LogEntry}) /\ Len(bus') <= BusCap
    BY <2>1, PushKeeps
  <2> QED
    BY <1>7, <2>2 DEF ForwardEmits
<1>8. CASE ForwardFails    BY <1>8 DEF ForwardFails
<1>9. CASE Log
  <2>1. bus' \in Seq(Snapshots \cup {LogEntry}) /\ Len(bus') <= BusCap
    BY <1>9, PushKeeps DEF Log
  <2> QED
    BY <1>9, <2>1 DEF Log
<1>10. CASE Connect        BY <1>10 DEF Connect
<1>11. CASE Disconnect
  <2>1. <<>> \in Seq(Snapshots \cup {LogEntry}) /\ Len(<<>>) = 0
    BY EmptyBus
  <2> QED
    <3>1. bus' \in Seq(Snapshots \cup {LogEntry}) /\ Len(bus') = 0
      BY <1>11, <2>1 DEF Disconnect
    <3>2. Len(bus') <= BusCap
      BY <3>1
    <3> QED
      BY <1>11, <3>1, <3>2 DEF Disconnect
<1>12. CASE Deliver
  <2>1. Head(bus) \in Snapshots \cup {LogEntry}
        /\ bus' \in Seq(Snapshots \cup {LogEntry}) /\ Len(bus') <= BusCap
    BY <1>12 DEF Deliver
  <2>2. CASE Head(bus) = LogEntry
    BY <1>12, <2>1, <2>2 DEF Deliver
  <2>3. CASE Head(bus) # LogEntry
    BY <1>12, <2>1, <2>3 DEF Deliver, Hydrate
  <2> QED
    BY <2>2, <2>3
<1>13. ASSUME NEW q \in Loads, Request(q) PROVE SyncTypeOK'
  <2> DEFINE Slot(n) == [step: Steps, seq: 0..n, man: Int, run: Int]
  <2>1. req[q] \in Slot(seq)
    OBVIOUS
  <2>2. CASE Send(q)
    <3>1. req' = [req EXCEPT ![q] = [step |-> "sent", seq |-> seq', man |-> 0, run |-> 0]]
          /\ seq' = seq + 1 /\ seq' \in 0..MaxSeq
      BY <2>2 DEF Send
    <3>2. req' \in [Loads -> Slot(seq')]
      BY <3>1
    <3> QED
      BY <2>2, <3>1, <3>2 DEF Send
  <2>3. CASE RequestReads(q)
    <3>1. req' \in [Loads -> Slot(seq)]
      BY <2>1, <2>3 DEF RequestReads
    <3> QED
      BY <2>3, <3>1 DEF RequestReads
  <2>4. CASE RequestAnswers(q)
    <3>1. req' \in [Loads -> Slot(seq)]
      BY <2>1, <2>4 DEF RequestAnswers
    <3> QED
      BY <2>4, <3>1 DEF RequestAnswers
  <2>5. CASE Arrive(q)         BY <2>5 DEF Arrive, Idle, Snapshots
  <2>6. CASE RequestFails(q)   BY <2>6 DEF RequestFails, Idle
  <2> QED
    BY <1>13, <2>2, <2>3, <2>4, <2>5, <2>6 DEF Request
<1>14. CASE UNCHANGED syncVars     BY <1>14 DEF syncVars
<1> QED
  BY <1>1, <1>2, <1>3, <1>4, <1>5, <1>6, <1>7, <1>8, <1>9, <1>10, <1>11, <1>12, <1>13,
     <1>14 DEF SyncNext, Manager, Forwarder, Stream

\* The channels keep within their capacities, and the store's numbers never get
\* ahead of the number of the next request.
THEOREM SyncTypeCorrect == SyncSpec => []SyncTypeOK
<1>1. SyncInit => SyncTypeOK
  <2>1. <<>> \in Seq(Snapshots \cup {LogEntry}) /\ Len(<<>>) = 0
    BY EmptyBus
  <2>2. Blank \in Snapshots
    BY DEF Blank, Snapshots
  <2> QED
    <3>1. ASSUME SyncInit PROVE bus \in Seq(Snapshots \cup {LogEntry}) /\ Len(bus) = 0
      BY <2>1, <3>1 DEF SyncInit
    <3>2. ASSUME SyncInit PROVE Len(bus) <= BusCap
      BY <3>1, <3>2
    <3>3. ASSUME SyncInit
          PROVE  req \in [Loads -> [step: Steps, seq: 0..seq, man: Int, run: Int]]
      BY <3>3 DEF SyncInit, Idle, Steps
    <3>4. ASSUME SyncInit
          PROVE  /\ man \in 0..MaxMan /\ run \in 0..MaxRun + 1 /\ unsent \in 0..run
                 /\ (run > MaxRun => drained) /\ events \in 0..EventCap
      BY <3>4 DEF SyncInit
    <3>5. ASSUME SyncInit
          PROVE  /\ fw \in [step: {"idle", "woken", "read"}, man: 0..MaxMan]
                 /\ seq \in 0..MaxSeq /\ minValid \in 0..seq + 1 /\ latest \in 0..seq + 1
      BY <3>5 DEF SyncInit
    <3>6. ASSUME SyncInit
          PROVE  /\ connected \in BOOLEAN /\ drained \in BOOLEAN /\ missed \in BOOLEAN
                 /\ view \in Snapshots /\ pushed \in Snapshots
      BY <2>2, <3>6 DEF SyncInit
    <3> QED
      BY <3>1, <3>2, <3>3, <3>4, <3>5, <3>6 DEF SyncTypeOK
<1> QED
  BY <1>1, TypeStep, PTL DEF SyncSpec

----------------------------------------------------------------------------
(***************************************************************************)
(* Answers follow pushes.                                                  *)
(***************************************************************************)
\* What is on its way was true once: it is not ahead of the manager.
PastInv ==
  /\ pushed.man <= man /\ pushed.run <= run /\ fw.man <= man
  /\ \A k \in 1..Len(bus) : bus[k] # LogEntry => bus[k].man <= man /\ bus[k].run <= run

\* A request that the store still accepts was sent after the last event arrived, so
\* what the server has read for it so far is not older than that event.
AnswerInv ==
  \A q \in Loads : req[q].seq >= minValid =>
    /\ req[q].step \in {"read", "answered"} => req[q].man >= pushed.man
    /\ req[q].step = "answered" => req[q].run >= pushed.run

LEMMA PastStep == SyncTypeOK /\ PastInv /\ [SyncNext]_syncVars => PastInv'
<1> SUFFICES ASSUME SyncTypeOK, PastInv, [SyncNext]_syncVars PROVE PastInv'
  OBVIOUS
<1> USE DEF PastInv, SyncTypeOK, Snapshots, server, pipe, stream, store
<1>1. ASSUME UNCHANGED <<bus, pushed>>, man' >= man, run' >= run, fw'.man <= man',
             man' \in Nat, run' \in Nat
      PROVE  PastInv'
  <2>1. ASSUME NEW k \in 1..Len(bus), bus[k] # LogEntry
        PROVE  bus[k].man \in Int /\ bus[k].run \in Int
               /\ bus[k].man <= man /\ bus[k].run <= run
    BY <2>1
  <2>2. \A k \in 1..Len(bus) : bus[k] # LogEntry => bus[k].man <= man' /\ bus[k].run <= run'
    BY <1>1, <2>1
  <2>3. pushed.man <= man' /\ pushed.run <= run'
    BY <1>1
  <2> QED
    BY <1>1, <2>2, <2>3
<1>2. CASE RunChanges \/ DrainSilently
  BY <1>1, <1>2 DEF RunChanges, DrainSilently
<1>3. CASE ManifestChanges BY <1>1, <1>3 DEF ManifestChanges
<1>4. CASE Emit            BY <1>4 DEF Emit
<1>5. CASE Receive         BY <1>5 DEF Receive
<1>6. CASE ForwardReads    BY <1>6 DEF ForwardReads
<1>7. CASE ForwardEmits
  <2> DEFINE x == [man |-> fw.man, run |-> run]
  <2>1. x \in Snapshots /\ Push(x)
    BY <1>7 DEF ForwardEmits
  <2>2. \A k \in 1..Len(bus') : bus'[k] = x \/ \E j \in 1..Len(bus) : bus'[k] = bus[j]
    BY <2>1, PushKeeps
  <2>3. ASSUME NEW k \in 1..Len(bus'), bus'[k] # LogEntry
        PROVE  bus'[k].man <= man /\ bus'[k].run <= run
    BY <2>2, <2>3
  <2> QED
    BY <1>7, <2>3 DEF ForwardEmits
<1>8. CASE ForwardFails    BY <1>8 DEF ForwardFails
<1>9. CASE Log
  <2>1. \A k \in 1..Len(bus') : bus'[k] = LogEntry \/ \E j \in 1..Len(bus) : bus'[k] = bus[j]
    BY <1>9, PushKeeps DEF Log
  <2> QED
    BY <1>9, <2>1 DEF Log
<1>10. CASE Connect        BY <1>10 DEF Connect
<1>11. CASE Disconnect     BY <1>11 DEF Disconnect
<1>12. CASE Deliver
  <2>1. /\ Len(bus') = Len(bus) - 1 /\ Len(bus) > 0
        /\ \A k \in 1..Len(bus') : bus'[k] = bus[k + 1]
        /\ Head(bus) = bus[1]
    BY <1>12 DEF Deliver
  <2>2. pushed' = pushed \/ (pushed' = bus[1] /\ bus[1] # LogEntry)
    BY <1>12, <2>1 DEF Deliver, Hydrate
  <2>3. \A k \in 1..Len(bus') : k + 1 \in 1..Len(bus)
    BY <2>1
  <2> QED
    BY <1>12, <2>1, <2>2, <2>3 DEF Deliver
<1>13. ASSUME NEW q \in Loads, Request(q) PROVE PastInv'
  <2>1. UNCHANGED <<server, pipe, stream, pushed>>
    BY <1>13 DEF Request, Send, RequestReads, RequestAnswers, Arrive, RequestFails
  <2> QED
    BY <2>1
<1>14. CASE UNCHANGED syncVars     BY <1>14 DEF syncVars
<1> QED
  BY <1>2, <1>3, <1>4, <1>5, <1>6, <1>7, <1>8, <1>9, <1>10, <1>11, <1>12, <1>13,
     <1>14 DEF SyncNext, Manager, Forwarder, Stream

LEMMA AnswerStep == SyncTypeOK /\ PastInv /\ AnswerInv /\ [SyncNext]_syncVars => AnswerInv'
<1> SUFFICES ASSUME SyncTypeOK, PastInv, AnswerInv, [SyncNext]_syncVars PROVE AnswerInv'
  OBVIOUS
<1> USE DEF AnswerInv, SyncTypeOK, Snapshots
<1>1. CASE UNCHANGED <<req, store>>
  BY <1>1 DEF store
<1>2. CASE Deliver
  <2>1. CASE Head(bus) = LogEntry
    BY <1>2, <2>1 DEF Deliver, store
  <2>2. CASE Head(bus) # LogEntry
    BY <1>2, <2>2 DEF Deliver, Hydrate
  <2> QED
    BY <2>1, <2>2
<1>3. ASSUME NEW q \in Loads, Request(q) PROVE AnswerInv'
  <2> USE DEF Idle, Steps, PastInv, server, store
  <2>1. CASE Send(q)           BY <2>1 DEF Send
  <2>2. CASE RequestReads(q)   BY <2>2 DEF RequestReads
  <2>3. CASE RequestAnswers(q) BY <2>3 DEF RequestAnswers
  <2>4. CASE Arrive(q)         BY <2>4 DEF Arrive
  <2>5. CASE RequestFails(q)   BY <2>5 DEF RequestFails
  <2> QED
    BY <1>3, <2>1, <2>2, <2>3, <2>4, <2>5 DEF Request
<1> QED
  BY <1>1, <1>2, <1>3
  DEF SyncNext, Manager, Forwarder, Stream, RunChanges, DrainSilently, ManifestChanges, Emit, Receive,
      ForwardReads, ForwardEmits, ForwardFails, Log, Connect, Disconnect, syncVars

LEMMA FollowStep ==
  SyncTypeOK /\ AnswerInv /\ [SyncNext]_syncVars =>
    [view' # view /\ pushed' = pushed => NotOlder(view', pushed)]_syncVars
<1> SUFFICES ASSUME SyncTypeOK, AnswerInv, SyncNext, view' # view, pushed' = pushed
             PROVE  NotOlder(view', pushed)
  BY DEF syncVars
<1>1. CASE Deliver
  BY <1>1 DEF Deliver, Hydrate, store, NotOlder, SyncTypeOK, Snapshots
<1>2. ASSUME NEW q \in Loads, Arrive(q) PROVE NotOlder(view', pushed)
  BY <1>2 DEF Arrive, Outdated, AnswerInv, NotOlder, SyncTypeOK, Snapshots
<1> QED
  BY <1>1, <1>2
  DEF SyncNext, Manager, Forwarder, Stream, Request, RunChanges, DrainSilently, ManifestChanges, Emit,
      Receive, ForwardReads, ForwardEmits, ForwardFails, Log, Connect, Disconnect, Send,
      RequestReads, RequestAnswers, RequestFails, store

\* With any number of requests in flight and answers in any order, none of them
\* takes the page back behind the last snapshot that came as an event.
THEOREM AnswersNeverGoBack == SyncSpec => AnswersFollowPushes
<1>1. SyncInit => PastInv /\ AnswerInv
  BY DEF SyncInit, PastInv, AnswerInv, Blank, Idle
<1> QED
  BY <1>1, SyncTypeCorrect, PastStep, AnswerStep, FollowStep, PTL
  DEF SyncSpec, AnswersFollowPushes
----------------------------------------------------------------------------
(***************************************************************************)
(* When nothing is on its way, the page is current.                        *)
(***************************************************************************)
\* The page is never behind the last event it was sent, nor ahead of the slots.
ViewInv ==
  /\ pushed.run <= view.run /\ view.run <= run
  /\ \A q \in Loads : req[q].step = "answered" => req[q].run <= run

\* Every change has been turned into a snapshot, and the last of them was not lost.
Settled == unsent = 0 /\ events = 0 /\ fw.step = "idle" /\ run > 0 /\ ~drained /\ ~missed

Newest(k) == bus[k] # LogEntry /\ \A j \in k + 1..Len(bus) : bus[j] = LogEntry

\* The last snapshot, on the bus or delivered, then shows the last change.
LastInv ==
  Settled => /\ \A k \in 1..Len(bus) : Newest(k) => bus[k].run = run
             /\ ~OnBus => pushed.run = run

\* What a connected stream gets is appended; at its capacity the others move up.
LEMMA PushShifts ==
  ASSUME NEW x \in Snapshots \cup {LogEntry}, Push(x), connected,
         bus \in Seq(Snapshots \cup {LogEntry})
  PROVE  \E d \in {0, 1} :
           /\ Len(bus') = Len(bus) + 1 - d /\ bus'[Len(bus')] = x
           /\ \A k \in 1..Len(bus') - 1 : k + d \in 1..Len(bus) /\ bus'[k] = bus[k + d]
<1> DEFINE Entries == Snapshots \cup {LogEntry}
<1>0. x \in Entries /\ bus \in Seq(Entries) /\ Len(bus) \in Nat
  OBVIOUS
<1> HIDE DEF Entries
<1>1. CASE Len(bus) < BusCap
  <2>1. bus' = Append(bus, x)
    BY <1>1 DEF Push
  <2>2. /\ Len(bus') = Len(bus) + 1 /\ bus'[Len(bus) + 1] = x
        /\ \A k \in 1..Len(bus) : bus'[k] = bus[k]
    BY <1>0, <2>1
  <2>3. /\ Len(bus') = Len(bus) + 1 - 0 /\ bus'[Len(bus')] = x
        /\ \A k \in 1..Len(bus') - 1 : k + 0 \in 1..Len(bus) /\ bus'[k] = bus[k + 0]
    BY <1>0, <2>2
  <2> QED
    BY <2>3
<1>2. CASE ~(Len(bus) < BusCap)
  <2>1. bus' = Append(Tail(bus), x) /\ bus # <<>>
    BY <1>2 DEF Push
  <2>2. /\ Tail(bus) \in Seq(Entries) /\ Len(Tail(bus)) = Len(bus) - 1
        /\ \A k \in 1..Len(bus) - 1 : Tail(bus)[k] = bus[k + 1]
    BY <1>0, <2>1
  <2>3. /\ Len(bus') = Len(bus) /\ bus'[Len(bus)] = x
        /\ \A k \in 1..Len(bus) - 1 : bus'[k] = Tail(bus)[k]
    BY <1>0, <2>1, <2>2
  <2>4. /\ Len(bus') = Len(bus) + 1 - 1 /\ bus'[Len(bus')] = x
        /\ \A k \in 1..Len(bus') - 1 : k + 1 \in 1..Len(bus) /\ bus'[k] = bus[k + 1]
    BY <1>0, <2>2, <2>3
  <2> QED
    BY <2>4
<1> QED
  BY <1>1, <1>2

LEMMA ViewStep == SyncTypeOK /\ PastInv /\ AnswerInv /\ ViewInv /\ [SyncNext]_syncVars => ViewInv'
<1> SUFFICES ASSUME SyncTypeOK, PastInv, AnswerInv, ViewInv, [SyncNext]_syncVars PROVE ViewInv'
  OBVIOUS
<1> USE DEF ViewInv, SyncTypeOK, Snapshots
<1>1. CASE UNCHANGED <<req, view, pushed>> /\ run' \in Nat /\ run' >= run
  BY <1>1
<1>2. CASE Deliver
  <2>1. CASE Head(bus) = LogEntry
    BY <1>2, <2>1, <1>1 DEF Deliver, store, server
  <2>2. CASE Head(bus) # LogEntry
    <3>1. /\ view' = bus[1] /\ pushed' = bus[1] /\ UNCHANGED <<req, run>>
          /\ Len(bus) > 0 /\ bus[1] \in Snapshots
      BY <1>2, <2>2 DEF Deliver, Hydrate, server
    <3>2. bus[1].run <= run
      BY <2>2, <3>1 DEF PastInv
    <3> QED
      BY <3>1, <3>2
  <2> QED
    BY <2>1, <2>2
<1>3. ASSUME NEW q \in Loads, Request(q) PROVE ViewInv'
  <2> USE DEF Idle, Steps, server, store
  <2>1. CASE Send(q)           BY <2>1 DEF Send
  <2>2. CASE RequestReads(q)   BY <2>2 DEF RequestReads
  <2>3. CASE RequestAnswers(q) BY <2>3 DEF RequestAnswers
  <2>4. CASE Arrive(q)         BY <2>4 DEF Arrive, Outdated, AnswerInv
  <2>5. CASE RequestFails(q)   BY <2>5 DEF RequestFails
  <2> QED
    BY <1>3, <2>1, <2>2, <2>3, <2>4, <2>5 DEF Request
<1>4. CASE Manager \/ UNCHANGED syncVars
  BY <1>1, <1>4 DEF Manager, RunChanges, DrainSilently, ManifestChanges, Emit, syncVars, server, store
<1>5. CASE Forwarder
  BY <1>1, <1>5 DEF Forwarder, Receive, ForwardReads, ForwardEmits, ForwardFails, server, store
<1>6. CASE Log \/ Connect \/ Disconnect
  BY <1>1, <1>6 DEF Log, Connect, Disconnect, server, store
<1> QED
  BY <1>2, <1>3, <1>4, <1>5, <1>6 DEF SyncNext, Stream

LEMMA LastStep == SyncTypeOK /\ PastInv /\ LastInv /\ [SyncNext]_syncVars => LastInv'
<1> SUFFICES ASSUME SyncTypeOK, PastInv, LastInv, [SyncNext]_syncVars, Settled' PROVE LastInv'
  BY DEF LastInv
<1> DEFINE Entries == Snapshots \cup {LogEntry}
<1>0. /\ bus \in Seq(Entries) /\ Len(bus) \in Nat /\ EventCap \in Nat \ {0}
      /\ run \in Nat /\ unsent \in Nat /\ events \in Nat
  BY DEF SyncTypeOK
<1>1. CASE UNCHANGED <<run, unsent, events, fw, drained, missed, bus, pushed>>
  BY <1>1 DEF LastInv, Settled, Newest, OnBus
<1>2. CASE RunChanges \/ DrainSilently \/ Emit \/ Receive \/ ForwardReads \/ ForwardFails
  BY <1>0, <1>2
  DEF Settled, RunChanges, DrainSilently, Emit, Receive, ForwardReads, ForwardFails, pipe
<1>3. CASE ForwardEmits
  <2> DEFINE x == [man |-> fw.man, run |-> run]
  <2>1. x \in Snapshots /\ x # LogEntry /\ Push(x) /\ connected /\ run' = run /\ x.run = run
    <3>1. Push(x) /\ run' = run /\ missed' = ~connected /\ ~missed'
      BY <1>3 DEF ForwardEmits, Settled, server
    <3>2. x \in Snapshots /\ x.run = run
      BY DEF SyncTypeOK, Snapshots
    <3>3. connected
      BY <3>1
    <3> QED
      BY <3>1, <3>2, <3>3
  <2>2. PICK d \in {0, 1} :
          /\ Len(bus') = Len(bus) + 1 - d /\ bus'[Len(bus')] = x
          /\ \A k \in 1..Len(bus') - 1 : k + d \in 1..Len(bus) /\ bus'[k] = bus[k + d]
    BY <1>0, <2>1, PushShifts
  <2>3. Len(bus') \in 1..Len(bus) + 1
    <3>1. Push(x) /\ Len(bus) = 0 => Len(bus') = 1
      <4> SUFFICES ASSUME Len(bus) = 0 PROVE bus' = Append(bus, x)
        BY <1>0, <2>1
      <4> QED
        BY <2>1, CapAssumption DEF Push
    <3> QED
      BY <1>0, <2>1, <2>2, <3>1
  <2>4. (OnBus)'
    BY <2>1, <2>2, <2>3 DEF OnBus
  <2>5. ASSUME NEW k \in 1..Len(bus'), Newest(k)' PROVE bus'[k].run = run'
    <3>1. k = Len(bus')
      BY <2>1, <2>2, <2>3, <2>5 DEF Newest
    <3> QED
      BY <2>1, <2>2, <3>1
  <2> QED
    BY <2>4, <2>5 DEF LastInv
<1>4. CASE Log
  <2>1. /\ Push(LogEntry) /\ connected /\ UNCHANGED <<run, unsent, events, fw, drained, pushed>>
        /\ ~missed /\ ~(OnBus /\ ~OnBus')
    BY <1>4 DEF Log, Settled, server, pipe, store
  <2>2. Settled
    BY <2>1 DEF Settled
  <2>3. PICK d \in {0, 1} :
          /\ Len(bus') = Len(bus) + 1 - d /\ bus'[Len(bus')] = LogEntry
          /\ \A k \in 1..Len(bus') - 1 : k + d \in 1..Len(bus) /\ bus'[k] = bus[k + d]
    BY <1>0, <2>1, PushShifts
  <2>4. ASSUME NEW k \in 1..Len(bus'), Newest(k)' PROVE bus'[k].run = run'
    <3>1. k # Len(bus') /\ k \in 1..Len(bus') - 1
      BY <1>0, <2>3, <2>4 DEF Newest
    <3>2. k + d \in 1..Len(bus) /\ bus'[k] = bus[k + d]
      BY <2>3, <3>1
    <3>3. ASSUME NEW j \in (k + d) + 1..Len(bus) PROVE bus[j] = LogEntry
      <4>1. j - d \in k + 1..Len(bus') - 1
        BY <1>0, <2>3, <3>1
      <4>2. bus'[j - d] = LogEntry
        BY <1>0, <2>3, <2>4, <4>1 DEF Newest
      <4>3. j - d \in 1..Len(bus') - 1 /\ (j - d) + d = j
        BY <3>1, <4>1, <2>3
      <4> QED
        BY <2>3, <4>2, <4>3
    <3>4. Newest(k + d)
      BY <2>4, <3>2, <3>3 DEF Newest
    <3> QED
      BY <2>1, <2>2, <3>2, <3>4 DEF LastInv
  <2>5. ~OnBus' => pushed'.run = run'
    BY <2>1, <2>2 DEF LastInv
  <2> QED
    BY <2>4, <2>5 DEF LastInv
<1>5. CASE Disconnect
  <2>1. /\ UNCHANGED <<run, unsent, events, fw, drained, pushed>>
        /\ ~missed /\ ~OnBus /\ bus' = <<>>
    BY <1>5 DEF Disconnect, Settled, server, pipe, store
  <2>2. Len(bus') = 0
    BY <2>1, EmptyBus
  <2>3. pushed'.run = run'
    BY <2>1 DEF LastInv, Settled
  <2> QED
    BY <2>2, <2>3 DEF LastInv
<1>6. CASE Deliver
  <2>1. /\ UNCHANGED <<run, unsent, events, fw, drained, missed>> /\ bus # <<>>
        /\ bus' = Tail(bus)
        /\ IF Head(bus) = LogEntry THEN pushed' = pushed ELSE pushed' = Head(bus)
    BY <1>6 DEF Deliver, Hydrate, server, pipe, store
  <2>2. Settled
    BY <2>1 DEF Settled
  <2>3. /\ Len(bus') = Len(bus) - 1 /\ Len(bus) > 0 /\ Head(bus) = bus[1]
        /\ \A k \in 1..Len(bus') : bus'[k] = bus[k + 1]
    BY <1>0, <2>1
  <2>4. ASSUME NEW k \in 1..Len(bus'), Newest(k)' PROVE bus'[k].run = run'
    <3>1. k + 1 \in 1..Len(bus) /\ bus'[k] = bus[k + 1]
      BY <1>0, <2>3
    <3>2. ASSUME NEW j \in (k + 1) + 1..Len(bus) PROVE bus[j] = LogEntry
      <4>1. j - 1 \in k + 1..Len(bus') /\ j - 1 \in 1..Len(bus') /\ (j - 1) + 1 = j
        BY <1>0, <2>3
      <4> QED
        BY <2>3, <2>4, <4>1 DEF Newest
    <3>3. Newest(k + 1)
      BY <2>4, <3>1, <3>2 DEF Newest
    <3> QED
      BY <2>1, <2>2, <3>1, <3>3 DEF LastInv
  <2>5. ASSUME ~OnBus' PROVE pushed'.run = run'
    <3>1. \A k \in 2..Len(bus) : bus[k] = LogEntry
      <4> SUFFICES ASSUME NEW k \in 2..Len(bus) PROVE bus[k] = LogEntry
        OBVIOUS
      <4>1. k - 1 \in 1..Len(bus') /\ k \in 1..Len(bus) /\ (k - 1) + 1 = k
        BY <1>0, <2>3
      <4>2. bus'[k - 1] = bus[k] /\ bus'[k - 1] \notin Snapshots /\ bus[k] \in Entries
        BY <1>0, <2>3, <2>5, <4>1 DEF OnBus
      <4> QED
        BY <4>2
    <3>2. CASE bus[1] = LogEntry
      <4>1. ~OnBus
        <5> SUFFICES ASSUME NEW k \in 1..Len(bus), bus[k] \in Snapshots PROVE FALSE
          BY DEF OnBus
        <5> QED
          BY <1>0, <3>1, <3>2
      <4> QED
        BY <2>1, <2>2, <2>3, <3>2, <4>1 DEF LastInv
    <3>3. CASE bus[1] # LogEntry
      <4>1. Newest(1) /\ 1 \in 1..Len(bus)
        BY <1>0, <2>3, <3>1, <3>3 DEF Newest
      <4> QED
        BY <2>1, <2>2, <2>3, <3>3, <4>1 DEF LastInv
    <3> QED
      BY <3>2, <3>3
  <2> QED
    BY <2>4, <2>5 DEF LastInv
<1> QED
  BY <1>1, <1>2, <1>3, <1>4, <1>5, <1>6
  DEF SyncNext, Manager, Forwarder, Stream, Request, ManifestChanges, Connect, Send, RequestReads,
      RequestAnswers, Arrive, RequestFails, syncVars, server, pipe, stream, store

\* Whatever capacities the channels have and however the changes, the log and the
\* requests interleave: a page to which nothing is on its way shows the slots as they
\* are, unless no slot has changed, the last snapshot was lost or the manager drained.
THEOREM QuietIsCurrent == SyncSpec => []CurrentWhenQuiet
<1>1. SyncInit => PastInv /\ AnswerInv /\ ViewInv /\ LastInv
  BY DEF SyncInit, PastInv, AnswerInv, ViewInv, LastInv, Settled, Blank, Idle
<1>2. SyncTypeOK /\ ViewInv /\ LastInv => CurrentWhenQuiet
  BY DEF SyncTypeOK, Snapshots, ViewInv, LastInv, CurrentWhenQuiet, Quiet, Settled
<1> QED
  BY <1>1, <1>2, SyncTypeCorrect, PastStep, AnswerStep, ViewStep, LastStep, PTL DEF SyncSpec

----------------------------------------------------------------------------
(* Session.                                                               *)

\* What the Ctrl-C handler has collected, and the list it has written as long as
\* it is not a leftover, names no instance a user has stopped; those have vacant
\* slots, and while the manager is up such a list is empty.
OffInv ==
  /\ ids \cap off = {}
  /\ leftover \/ tracked \cap off = {}
  /\ leftover \/ app \notin {"up", "noted"} \/ tracked = {}
  /\ \A i \in off : slot[i] = "vacant"

LEMMA SessionTypes == SessionTypeOK /\ [SessionNext]_sessionVars => SessionTypeOK'
<1> SUFFICES ASSUME SessionTypeOK, [SessionNext]_sessionVars PROVE SessionTypeOK'
  OBVIOUS
<1> USE DEF SessionTypeOK, Phases, Serving, process, stored, history, Move
<1>1. ASSUME NEW i \in Instances, Instance(i) PROVE SessionTypeOK'
  <2>1. CASE Start(i)         BY <2>1 DEF Start
  <2>2. CASE Launched(i)      BY <2>2 DEF Launched
  <2>3. CASE StopOrRestart(i) BY <2>3 DEF StopOrRestart
  <2>4. CASE Stopped(i)       BY <2>4 DEF Stopped
  <2>5. CASE Restarted(i)     BY <2>5 DEF Restarted
  <2>6. CASE Exits(i)         BY <2>6 DEF Exits
  <2>7. CASE Create(i)        BY <2>7 DEF Create
  <2>8. CASE Delete(i)        BY <2>8 DEF Delete
  <2>9. CASE Restore(i)       BY <2>9 DEF Restore
  <2> QED
    BY <1>1, <2>1, <2>2, <2>3, <2>4, <2>5, <2>6, <2>7, <2>8, <2>9 DEF Instance
<1>2. CASE SavePersist     BY <1>2 DEF SavePersist
<1>3. CASE RebuildManifest BY <1>3 DEF RebuildManifest
<1>4. CASE CtrlC           BY <1>4 DEF CtrlC, Active
<1>5. CASE SaveTracked     BY <1>5 DEF SaveTracked
<1>6. CASE StopAll         BY <1>6 DEF StopAll
<1>7. CASE StopManager     BY <1>7 DEF StopManager, Ends
<1>8. CASE Crash           BY <1>8 DEF Crash, Ends
<1>9. CASE Boot            BY <1>9 DEF Boot, UsesList, LeavesList
<1>10. CASE UNCHANGED sessionVars BY <1>10 DEF sessionVars
<1> QED
  BY <1>1, <1>2, <1>3, <1>4, <1>5, <1>6, <1>7, <1>8, <1>9, <1>10 DEF SessionNext, ManagerProcess

\* For any set of instances, the variables keep their types, and a manager that is
\* drained or down has no instance in a slot.
THEOREM SessionTypeCorrect == SessionSpec => []SessionTypeOK
<1>1. SessionInit => SessionTypeOK
  BY DEF SessionInit, SessionTypeOK, Phases, Serving
<1> QED
  BY <1>1, SessionTypes, PTL DEF SessionSpec

LEMMA OffStep == SessionTypeOK /\ OffInv /\ [SessionNext]_sessionVars => OffInv'
<1> SUFFICES ASSUME SessionTypeOK, OffInv, [SessionNext]_sessionVars PROVE OffInv'
  OBVIOUS
<1> USE DEF OffInv, process, stored, history, Move
<1>1. ASSUME NEW i \in Instances, Instance(i) PROVE OffInv'
  <2> USE DEF SessionTypeOK
  <2>1. CASE Start(i)         BY <2>1 DEF Start
  <2>2. CASE Launched(i)      BY <2>2 DEF Launched
  <2>3. CASE StopOrRestart(i) BY <2>3 DEF StopOrRestart
  <2>4. CASE Stopped(i)
    <3>1. CASE app = "up"
      BY <2>4, <3>1 DEF Stopped
    <3>2. CASE app # "up"
      BY <2>4, <3>2 DEF Stopped
    <3> QED BY <3>1, <3>2
  <2>5. CASE Restarted(i)     BY <2>5 DEF Restarted
  <2>6. CASE Exits(i)         BY <2>6 DEF Exits
  <2>7. CASE Create(i)        BY <2>7 DEF Create
  <2>8. CASE Delete(i)        BY <2>8 DEF Delete
  <2>9. CASE Restore(i)       BY <2>9 DEF Restore
  <2> QED
    BY <1>1, <2>1, <2>2, <2>3, <2>4, <2>5, <2>6, <2>7, <2>8, <2>9 DEF Instance
<1>2. CASE SavePersist     BY <1>2 DEF SavePersist
<1>3. CASE RebuildManifest BY <1>3 DEF RebuildManifest
<1>4. CASE CtrlC           BY <1>4 DEF CtrlC, Active
<1>5. CASE SaveTracked     BY <1>5 DEF SaveTracked
<1>6. CASE StopAll         BY <1>6 DEF StopAll, SessionTypeOK
<1>7. CASE StopManager     BY <1>7 DEF StopManager, Ends, SessionTypeOK
<1>8. CASE Crash           BY <1>8 DEF Crash, Ends, SessionTypeOK
<1>9. CASE Boot            BY <1>9 DEF Boot, UsesList, LeavesList
<1>10. CASE UNCHANGED sessionVars BY <1>10 DEF sessionVars
<1> QED
  BY <1>1, <1>2, <1>3, <1>4, <1>5, <1>6, <1>7, <1>8, <1>9, <1>10 DEF SessionNext, ManagerProcess

\* Every boot of the manager, after whatever exits, restores no instance that a
\* user had stopped, unless it uses a list that an earlier boot left over.
THEOREM StoppedStays == SessionSpec => StoppedStaysOff
<1>1. SessionInit => SessionTypeOK /\ OffInv
  BY DEF SessionInit, SessionTypeOK, OffInv, Phases, Serving
<1>2. SessionTypeOK /\ OffInv /\ [SessionNext]_sessionVars => SessionTypeOK' /\ OffInv'
  BY SessionTypes, OffStep
<1>3. SessionTypeOK /\ OffInv /\ [SessionNext]_sessionVars =>
        [Boots => leftover \/ queue' \cap off = {}]_sessionVars
  <2> SUFFICES ASSUME SessionTypeOK, OffInv, SessionNext, Boots
               PROVE  leftover \/ queue' \cap off = {}
    BY DEF sessionVars, Boots
  <2>1. Boot
    BY DEF Boots, SessionNext, ManagerProcess, Instance, SavePersist, RebuildManifest, CtrlC,
           SaveTracked, StopAll, StopManager, Crash, Ends, Start, Launched, StopOrRestart,
           Stopped, Restarted, Exits, Create, Delete, Restore
  <2> QED
    BY <2>1 DEF Boot, UsesList, LeavesList, OffInv
<1> QED
  BY <1>1, <1>2, <1>3, PTL DEF SessionSpec, StoppedStaysOff
============================================================================
