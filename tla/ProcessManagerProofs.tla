------------------------ MODULE ProcessManagerProofs ------------------------
(***************************************************************************)
(* Proofs about ProcessManager for any number of instances, requests and   *)
(* pids, with and without hang-ups and failing kills:                      *)
(*   TypeCorrect       types and the shape of slots and requests,          *)
(*   SlotsAreHeld      the four invariants of the slot map,                *)
(*   StopsAreComplete  a Stopping slot outlives its process only,          *)
(*   RefinesLifecycle  the manager implements InstanceLifecycle.           *)
(* SlotInv, the conjunction of the invariants, is inductive relative to    *)
(* TypeOK; nothing else about the reachable states is needed.              *)
(***************************************************************************)
EXTENDS ProcessManager, TLAPS

SlotInv == OneHolder /\ HolderKeepsSlot /\ NoHollowEntry /\ DrainIsFinal

-----------------------------------------------------------------------------
(* Types. *)

\* Every step keeps the variables in their types and slots and requests in shape.
LEMMA TypeStep == TypeOK /\ [Next]_vars => TypeOK'
<1> SUFFICES ASSUME TypeOK, [Next]_vars PROVE TypeOK'
  OBVIOUS
<1> USE NoneAssumption
<1> USE DEF TypeOK, SlotStates, Pcs, WaitPcs, LaunchPcs, StopPcs, PidPcs,
            stateVars, requestVars, monVars, exitVars
<1>1. ASSUME NEW r \in Requests, NEW i \in Instances, StartGate(r, i) PROVE TypeOK'
  BY <1>1 DEF StartGate, Begin
<1>2. ASSUME NEW r \in Requests, NEW i \in Instances, RestartGate(r, i) PROVE TypeOK'
  BY <1>2 DEF RestartGate, Begin
<1>3. ASSUME NEW r \in Requests, NEW i \in Instances, StopAdmit(r, i) PROVE TypeOK'
  BY <1>3 DEF StopAdmit, PrepareStop, SetSlot, Begin
<1>4. ASSUME NEW r \in Requests, NEW i \in Instances, AcquireGuard(r, i) PROVE TypeOK'
  BY <1>4 DEF AcquireGuard, EnsureVacant, SetSlot, Begin
<1>5. ASSUME NEW r \in Requests, StartAdmit(r) PROVE TypeOK'
  BY <1>5 DEF StartAdmit, EnsureVacant, SetSlot, Goto, Finish
<1>6. ASSUME NEW r \in Requests, RestartAdmit(r) PROVE TypeOK'
  BY <1>6 DEF RestartAdmit, PrepareStop, NotRunning, SetSlot, Begin, Goto, Finish
<1>7. ASSUME NEW r \in Requests, StopDone(r) PROVE TypeOK'
  BY <1>7 DEF StopDone, Dead, RemoveSlot, SetSlot, Finish
<1>8. ASSUME NEW r \in Requests, StopFails(r) PROVE TypeOK'
  BY <1>8 DEF StopFails, Dead, RevertStop, SetSlot, Finish
<1>9. ASSUME NEW r \in Requests, RestartStopped(r) PROVE TypeOK'
  BY <1>9 DEF RestartStopped, Dead, RemoveSlot, SetSlot, Begin, Finish
<1>10. ASSUME NEW r \in Requests, Subscribe(r) PROVE TypeOK'
  BY <1>10 DEF Subscribe
<1>11. ASSUME NEW r \in Requests, LaunchFails(r) PROVE TypeOK'
  BY <1>11 DEF LaunchFails, Fail, Begin
<1>12. ASSUME NEW r \in Requests, NEW p \in Pids, Spawn(r, p) PROVE TypeOK'
  BY <1>12 DEF Spawn, Begin
<1>13. ASSUME NEW r \in Requests, BootSucceeds(r) PROVE TypeOK'
  BY <1>13 DEF BootSucceeds, Goto
<1>14. ASSUME NEW r \in Requests, BootExits(r) PROVE TypeOK'
  BY <1>14 DEF BootExits, Fail, Begin
<1>15. ASSUME NEW r \in Requests, BootCancelled(r) PROVE TypeOK'
  BY <1>15 DEF BootCancelled, Fail, Begin
<1>16. ASSUME NEW r \in Requests, LaunchGate(r) PROVE TypeOK'
  BY <1>16 DEF LaunchGate, RemoveSlot, SetSlot, Goto, Finish
<1>17. ASSUME NEW r \in Requests, Commit(r) PROVE TypeOK'
  BY <1>17 DEF Commit, SetSlot, Finish
<1>18. ASSUME NEW r \in Requests, Rollback(r) PROVE TypeOK'
  BY <1>18 DEF Rollback, RemoveSlot, SetSlot, Finish
<1>19. ASSUME NEW r \in Requests, LateKill(r) PROVE TypeOK'
  BY <1>19 DEF LateKill, Finish
<1>20. ASSUME NEW r \in Requests, DropGuard(r) PROVE TypeOK'
  BY <1>20 DEF DropGuard, RemoveSlot, SetSlot, Finish
<1>21. ASSUME NEW r \in Requests, HangUp(r) PROVE TypeOK'
  BY <1>21 DEF HangUp, Finish
<1>22. ASSUME MonitorSnapshot PROVE TypeOK'
  BY <1>22 DEF MonitorSnapshot, LiveInstances
<1>23. ASSUME MonitorEvaluate PROVE TypeOK'
  BY <1>23 DEF MonitorEvaluate
<1>24. ASSUME MonitorApply PROVE TypeOK'
  BY <1>24 DEF MonitorApply, LiveInstances
<1>25. ASSUME Drain PROVE TypeOK'
  BY <1>25 DEF Drain
<1>26. ASSUME SendShutdown PROVE TypeOK'
  BY <1>26 DEF SendShutdown
<1>27. ASSUME Reap PROVE TypeOK'
  BY <1>27 DEF Reap
<1>28. ASSUME NEW p \in Pids, ProcessExits(p) PROVE TypeOK'
  BY <1>28 DEF ProcessExits
<1>29. CASE UNCHANGED vars
  BY <1>29 DEF vars
<1> QED
  BY <1>1, <1>2, <1>3, <1>4, <1>5, <1>6, <1>7, <1>8, <1>9, <1>10, <1>11,
      <1>12, <1>13, <1>14, <1>15, <1>16, <1>17, <1>18, <1>19, <1>20,
      <1>21, <1>22, <1>23, <1>24, <1>25, <1>26, <1>27, <1>28, <1>29
  DEF Next, Proceed, Call, Monitor, Exit

\* The variables always have their types; a slot has a pid exactly while it is Live
\* or Stopping, a request exactly between learning its pid and losing it.
THEOREM TypeCorrect == Spec => []TypeOK
<1>1. Init => TypeOK
  BY NoneAssumption DEF Init, TypeOK, SlotStates, Pcs, WaitPcs, LaunchPcs, StopPcs, PidPcs
<1>2. QED
  BY <1>1, TypeStep, PTL DEF Spec

-----------------------------------------------------------------------------
(* The slot map. *)

\* Every step keeps the slot of an instance with the one request that holds it.
LEMMA SlotStep == TypeOK /\ SlotInv /\ [Next]_vars => SlotInv'
<1> SUFFICES ASSUME TypeOK, SlotInv, [Next]_vars PROVE SlotInv'
  OBVIOUS
<1> USE NoneAssumption
<1> USE DEF SlotInv, OneHolder, HolderKeepsSlot, NoHollowEntry, DrainIsFinal,
            HolderPcs, HolderPhase, TypeOK,
            SlotStates, Pcs, WaitPcs, LaunchPcs, StopPcs, PidPcs,
            stateVars, requestVars, monVars, exitVars
<1>1. ASSUME NEW r \in Requests, NEW i \in Instances, StartGate(r, i) PROVE SlotInv'
  BY <1>1 DEF StartGate, Begin
<1>2. ASSUME NEW r \in Requests, NEW i \in Instances, RestartGate(r, i) PROVE SlotInv'
  BY <1>2 DEF RestartGate, Begin
<1>3. ASSUME NEW r \in Requests, NEW i \in Instances, StopAdmit(r, i) PROVE SlotInv'
  BY <1>3 DEF StopAdmit, PrepareStop, SetSlot, Begin
<1>4. ASSUME NEW r \in Requests, NEW i \in Instances, AcquireGuard(r, i) PROVE SlotInv'
  BY <1>4 DEF AcquireGuard, EnsureVacant, SetSlot, Begin
<1>5. ASSUME NEW r \in Requests, StartAdmit(r) PROVE SlotInv'
  BY <1>5 DEF StartAdmit, EnsureVacant, SetSlot, Goto, Finish
<1>6. ASSUME NEW r \in Requests, RestartAdmit(r) PROVE SlotInv'
  BY <1>6 DEF RestartAdmit, PrepareStop, NotRunning, SetSlot, Begin, Goto, Finish
<1>7. ASSUME NEW r \in Requests, StopDone(r) PROVE SlotInv'
  BY <1>7 DEF StopDone, Dead, RemoveSlot, SetSlot, Finish
<1>8. ASSUME NEW r \in Requests, StopFails(r) PROVE SlotInv'
  BY <1>8 DEF StopFails, Dead, RevertStop, SetSlot, Finish
<1>9. ASSUME NEW r \in Requests, RestartStopped(r) PROVE SlotInv'
  BY <1>9 DEF RestartStopped, Dead, RemoveSlot, SetSlot, Begin, Finish
<1>10. ASSUME NEW r \in Requests, Subscribe(r) PROVE SlotInv'
  BY <1>10 DEF Subscribe
<1>11. ASSUME NEW r \in Requests, LaunchFails(r) PROVE SlotInv'
  BY <1>11 DEF LaunchFails, Fail, Begin
<1>12. ASSUME NEW r \in Requests, NEW p \in Pids, Spawn(r, p) PROVE SlotInv'
  BY <1>12 DEF Spawn, Begin
<1>13. ASSUME NEW r \in Requests, BootSucceeds(r) PROVE SlotInv'
  BY <1>13 DEF BootSucceeds, Goto
<1>14. ASSUME NEW r \in Requests, BootExits(r) PROVE SlotInv'
  BY <1>14 DEF BootExits, Fail, Begin
<1>15. ASSUME NEW r \in Requests, BootCancelled(r) PROVE SlotInv'
  BY <1>15 DEF BootCancelled, Fail, Begin
<1>16. ASSUME NEW r \in Requests, LaunchGate(r) PROVE SlotInv'
  BY <1>16 DEF LaunchGate, RemoveSlot, SetSlot, Goto, Finish
<1>17. ASSUME NEW r \in Requests, Commit(r) PROVE SlotInv'
  BY <1>17 DEF Commit, SetSlot, Finish
<1>18. ASSUME NEW r \in Requests, Rollback(r) PROVE SlotInv'
  BY <1>18 DEF Rollback, RemoveSlot, SetSlot, Finish
<1>19. ASSUME NEW r \in Requests, LateKill(r) PROVE SlotInv'
  BY <1>19 DEF LateKill, Finish
<1>20. ASSUME NEW r \in Requests, DropGuard(r) PROVE SlotInv'
  BY <1>20 DEF DropGuard, RemoveSlot, SetSlot, Finish
<1>21. ASSUME NEW r \in Requests, HangUp(r) PROVE SlotInv'
  BY <1>21 DEF HangUp, Finish
<1>22. ASSUME MonitorSnapshot PROVE SlotInv'
  BY <1>22 DEF MonitorSnapshot, LiveInstances
<1>23. ASSUME MonitorEvaluate PROVE SlotInv'
  BY <1>23 DEF MonitorEvaluate
<1>24. ASSUME MonitorApply PROVE SlotInv'
  BY <1>24 DEF MonitorApply, LiveInstances
<1>25. ASSUME Drain PROVE SlotInv'
  BY <1>25 DEF Drain
<1>26. ASSUME SendShutdown PROVE SlotInv'
  BY <1>26 DEF SendShutdown
<1>27. ASSUME Reap PROVE SlotInv'
  BY <1>27 DEF Reap
<1>28. ASSUME NEW p \in Pids, ProcessExits(p) PROVE SlotInv'
  BY <1>28 DEF ProcessExits
<1>29. CASE UNCHANGED vars
  BY <1>29 DEF vars
<1> QED
  BY <1>1, <1>2, <1>3, <1>4, <1>5, <1>6, <1>7, <1>8, <1>9, <1>10, <1>11,
      <1>12, <1>13, <1>14, <1>15, <1>16, <1>17, <1>18, <1>19, <1>20,
      <1>21, <1>22, <1>23, <1>24, <1>25, <1>26, <1>27, <1>28, <1>29
  DEF Next, Proceed, Call, Monitor, Exit

\* In every reachable state types hold and the slots are with their holders.
LEMMA SlotInvariant == Spec => [](TypeOK /\ SlotInv)
<1>1. Init => SlotInv
  BY NoneAssumption DEF Init, SlotInv, OneHolder, HolderKeepsSlot, NoHollowEntry,
     DrainIsFinal, HolderPcs, LaunchPcs, StopPcs
<1>2. QED
  BY <1>1, TypeCorrect, SlotStep, PTL DEF Spec

\* At most one request works on an instance, whatever order operations come in,
\* whoever hangs up and whenever the manager drains (manager.rs:60-135).
THEOREM SlotsAreHeld == Spec => []OneHolder
BY SlotInvariant, PTL DEF SlotInv

\* The slot of a request's instance shows that request's phase until it gives it
\* up or the manager shuts down: nobody else moves it, the monitor included.
THEOREM HoldersKeepTheirSlots == Spec => []HolderKeepsSlot
BY SlotInvariant, PTL DEF SlotInv

\* No entry is left with neither a slot nor a guard: every revert and commit finds
\* the variant it is for (manager.rs:109).
THEOREM NoEntryIsHollow == Spec => []NoHollowEntry
BY SlotInvariant, PTL DEF SlotInv

\* After the drain no entry comes back, from whatever request still has to
\* return.
THEOREM DrainsAreFinal == Spec => []DrainIsFinal
BY SlotInvariant, PTL DEF SlotInv

-----------------------------------------------------------------------------
(* Stops. *)

\* What StoppedIsGone says of one step.
StopComplete == \A i \in Instances :
  (slot[i] = "stopping" /\ slot'[i] \notin {"stopping", "live"} /\ ~shuttingDown')
    => Dead(slotPid[i])

\* No single step gives up a Stopping slot whose process is alive.
LEMMA StopStep == TypeOK /\ SlotInv /\ [Next]_vars => StopComplete
<1> SUFFICES ASSUME TypeOK, SlotInv, [Next]_vars PROVE StopComplete
  OBVIOUS
<1> USE NoneAssumption
<1> USE DEF SlotInv, OneHolder, HolderKeepsSlot, NoHollowEntry, DrainIsFinal,
            StopComplete, Dead, HolderPcs, HolderPhase, TypeOK,
            SlotStates, Pcs, WaitPcs, LaunchPcs, StopPcs, PidPcs,
            stateVars, requestVars, monVars, exitVars
<1>1. ASSUME NEW r \in Requests, NEW i \in Instances, StartGate(r, i) PROVE StopComplete
  BY <1>1 DEF StartGate, Begin
<1>2. ASSUME NEW r \in Requests, NEW i \in Instances, RestartGate(r, i) PROVE StopComplete
  BY <1>2 DEF RestartGate, Begin
<1>3. ASSUME NEW r \in Requests, NEW i \in Instances, StopAdmit(r, i) PROVE StopComplete
  BY <1>3 DEF StopAdmit, PrepareStop, SetSlot, Begin
<1>4. ASSUME NEW r \in Requests, NEW i \in Instances, AcquireGuard(r, i) PROVE StopComplete
  BY <1>4 DEF AcquireGuard, EnsureVacant, SetSlot, Begin
<1>5. ASSUME NEW r \in Requests, StartAdmit(r) PROVE StopComplete
  BY <1>5 DEF StartAdmit, EnsureVacant, SetSlot, Goto, Finish
<1>6. ASSUME NEW r \in Requests, RestartAdmit(r) PROVE StopComplete
  BY <1>6 DEF RestartAdmit, PrepareStop, NotRunning, SetSlot, Begin, Goto, Finish
<1>7. ASSUME NEW r \in Requests, StopDone(r) PROVE StopComplete
  BY <1>7 DEF StopDone, Dead, RemoveSlot, SetSlot, Finish
<1>8. ASSUME NEW r \in Requests, StopFails(r) PROVE StopComplete
  BY <1>8 DEF StopFails, Dead, RevertStop, SetSlot, Finish
<1>9. ASSUME NEW r \in Requests, RestartStopped(r) PROVE StopComplete
  BY <1>9 DEF RestartStopped, Dead, RemoveSlot, SetSlot, Begin, Finish
<1>10. ASSUME NEW r \in Requests, Subscribe(r) PROVE StopComplete
  BY <1>10 DEF Subscribe
<1>11. ASSUME NEW r \in Requests, LaunchFails(r) PROVE StopComplete
  BY <1>11 DEF LaunchFails, Fail, Begin
<1>12. ASSUME NEW r \in Requests, NEW p \in Pids, Spawn(r, p) PROVE StopComplete
  BY <1>12 DEF Spawn, Begin
<1>13. ASSUME NEW r \in Requests, BootSucceeds(r) PROVE StopComplete
  BY <1>13 DEF BootSucceeds, Goto
<1>14. ASSUME NEW r \in Requests, BootExits(r) PROVE StopComplete
  BY <1>14 DEF BootExits, Fail, Begin
<1>15. ASSUME NEW r \in Requests, BootCancelled(r) PROVE StopComplete
  BY <1>15 DEF BootCancelled, Fail, Begin
<1>16. ASSUME NEW r \in Requests, LaunchGate(r) PROVE StopComplete
  BY <1>16 DEF LaunchGate, RemoveSlot, SetSlot, Goto, Finish
<1>17. ASSUME NEW r \in Requests, Commit(r) PROVE StopComplete
  BY <1>17 DEF Commit, SetSlot, Finish
<1>18. ASSUME NEW r \in Requests, Rollback(r) PROVE StopComplete
  BY <1>18 DEF Rollback, RemoveSlot, SetSlot, Finish
<1>19. ASSUME NEW r \in Requests, LateKill(r) PROVE StopComplete
  BY <1>19 DEF LateKill, Finish
<1>20. ASSUME NEW r \in Requests, DropGuard(r) PROVE StopComplete
  BY <1>20 DEF DropGuard, RemoveSlot, SetSlot, Finish
<1>21. ASSUME NEW r \in Requests, HangUp(r) PROVE StopComplete
  BY <1>21 DEF HangUp, Finish
<1>22. ASSUME MonitorSnapshot PROVE StopComplete
  BY <1>22 DEF MonitorSnapshot, LiveInstances
<1>23. ASSUME MonitorEvaluate PROVE StopComplete
  BY <1>23 DEF MonitorEvaluate
<1>24. ASSUME MonitorApply PROVE StopComplete
  BY <1>24 DEF MonitorApply, LiveInstances
<1>25. ASSUME Drain PROVE StopComplete
  BY <1>25 DEF Drain
<1>26. ASSUME SendShutdown PROVE StopComplete
  BY <1>26 DEF SendShutdown
<1>27. ASSUME Reap PROVE StopComplete
  BY <1>27 DEF Reap
<1>28. ASSUME NEW p \in Pids, ProcessExits(p) PROVE StopComplete
  BY <1>28 DEF ProcessExits
<1>29. CASE UNCHANGED vars
  BY <1>29 DEF vars
<1> QED
  BY <1>1, <1>2, <1>3, <1>4, <1>5, <1>6, <1>7, <1>8, <1>9, <1>10, <1>11,
      <1>12, <1>13, <1>14, <1>15, <1>16, <1>17, <1>18, <1>19, <1>20,
      <1>21, <1>22, <1>23, <1>24, <1>25, <1>26, <1>27, <1>28, <1>29
  DEF Next, Proceed, Call, Monitor, Exit

\* The slot of an instance that is being stopped is emptied, or handed to the second
\* half of a restart, only when the process is gone.
THEOREM StopsAreComplete == Spec => StoppedIsGone
<1>1. TypeOK /\ SlotInv /\ [Next]_vars => [StopComplete]_vars
  BY StopStep
<1>2. [][StopComplete]_vars => StoppedIsGone
  BY DEF StopComplete, StoppedIsGone
<1>3. QED
  BY <1>1, <1>2, SlotInvariant, PTL DEF Spec

-----------------------------------------------------------------------------
(* The monitor. *)

\* A verdict stays true of the process it is about, whose pid is not given away
\* while the snapshot mentions it.
VerdictInv ==
  /\ monPc # "apply" => monDead = {}
  /\ \A i \in monDead : Dead(monSnap[i])

\* What ForgottenIsDead says of one step.
Forgets == \A i \in Instances :
  (slot[i] = "live" /\ slot'[i] = "vacant" /\ ~shuttingDown')
    => Dead(slotPid[i]) \/ slotPid[i] # monSnap[i]

\* Nothing brings a process back to life that a poll has found dead.
LEMMA VerdictStep == TypeOK /\ VerdictInv /\ [Next]_vars => VerdictInv'
<1> SUFFICES ASSUME TypeOK, VerdictInv, [Next]_vars PROVE VerdictInv'
  OBVIOUS
<1> USE NoneAssumption
<1> USE DEF VerdictInv, Dead, TypeOK, stateVars, requestVars, monVars, exitVars
<1>1. ASSUME NEW r \in Requests, NEW i \in Instances, StartGate(r, i) PROVE VerdictInv'
  BY <1>1 DEF StartGate, Begin
<1>2. ASSUME NEW r \in Requests, NEW i \in Instances, RestartGate(r, i) PROVE VerdictInv'
  BY <1>2 DEF RestartGate, Begin
<1>3. ASSUME NEW r \in Requests, NEW i \in Instances, StopAdmit(r, i) PROVE VerdictInv'
  BY <1>3 DEF StopAdmit, PrepareStop, SetSlot, Begin
<1>4. ASSUME NEW r \in Requests, NEW i \in Instances, AcquireGuard(r, i) PROVE VerdictInv'
  BY <1>4 DEF AcquireGuard, EnsureVacant, SetSlot, Begin
<1>5. ASSUME NEW r \in Requests, StartAdmit(r) PROVE VerdictInv'
  BY <1>5 DEF StartAdmit, EnsureVacant, SetSlot, Goto, Finish
<1>6. ASSUME NEW r \in Requests, RestartAdmit(r) PROVE VerdictInv'
  BY <1>6 DEF RestartAdmit, PrepareStop, NotRunning, SetSlot, Begin, Goto, Finish
<1>7. ASSUME NEW r \in Requests, StopDone(r) PROVE VerdictInv'
  BY <1>7 DEF StopDone, Dead, RemoveSlot, SetSlot, Finish
<1>8. ASSUME NEW r \in Requests, StopFails(r) PROVE VerdictInv'
  BY <1>8 DEF StopFails, Dead, RevertStop, SetSlot, Finish
<1>9. ASSUME NEW r \in Requests, RestartStopped(r) PROVE VerdictInv'
  BY <1>9 DEF RestartStopped, Dead, RemoveSlot, SetSlot, Begin, Finish
<1>10. ASSUME NEW r \in Requests, Subscribe(r) PROVE VerdictInv'
  BY <1>10 DEF Subscribe
<1>11. ASSUME NEW r \in Requests, LaunchFails(r) PROVE VerdictInv'
  BY <1>11 DEF LaunchFails, Fail, Begin
<1>12. ASSUME NEW r \in Requests, NEW p \in Pids, Spawn(r, p) PROVE VerdictInv'
  BY <1>12 DEF Spawn, Begin, Mentioned
<1>13. ASSUME NEW r \in Requests, BootSucceeds(r) PROVE VerdictInv'
  BY <1>13 DEF BootSucceeds, Goto
<1>14. ASSUME NEW r \in Requests, BootExits(r) PROVE VerdictInv'
  BY <1>14 DEF BootExits, Fail, Begin
<1>15. ASSUME NEW r \in Requests, BootCancelled(r) PROVE VerdictInv'
  BY <1>15 DEF BootCancelled, Fail, Begin
<1>16. ASSUME NEW r \in Requests, LaunchGate(r) PROVE VerdictInv'
  BY <1>16 DEF LaunchGate, RemoveSlot, SetSlot, Goto, Finish
<1>17. ASSUME NEW r \in Requests, Commit(r) PROVE VerdictInv'
  BY <1>17 DEF Commit, SetSlot, Finish
<1>18. ASSUME NEW r \in Requests, Rollback(r) PROVE VerdictInv'
  BY <1>18 DEF Rollback, RemoveSlot, SetSlot, Finish
<1>19. ASSUME NEW r \in Requests, LateKill(r) PROVE VerdictInv'
  BY <1>19 DEF LateKill, Finish
<1>20. ASSUME NEW r \in Requests, DropGuard(r) PROVE VerdictInv'
  BY <1>20 DEF DropGuard, RemoveSlot, SetSlot, Finish
<1>21. ASSUME NEW r \in Requests, HangUp(r) PROVE VerdictInv'
  BY <1>21 DEF HangUp, Finish
<1>22. ASSUME MonitorSnapshot PROVE VerdictInv'
  BY <1>22 DEF MonitorSnapshot, LiveInstances
<1>23. ASSUME MonitorEvaluate PROVE VerdictInv'
  BY <1>23 DEF MonitorEvaluate
<1>24. ASSUME MonitorApply PROVE VerdictInv'
  BY <1>24 DEF MonitorApply, LiveInstances
<1>25. ASSUME Drain PROVE VerdictInv'
  BY <1>25 DEF Drain
<1>26. ASSUME SendShutdown PROVE VerdictInv'
  BY <1>26 DEF SendShutdown
<1>27. ASSUME Reap PROVE VerdictInv'
  BY <1>27 DEF Reap
<1>28. ASSUME NEW p \in Pids, ProcessExits(p) PROVE VerdictInv'
  BY <1>28 DEF ProcessExits
<1>29. CASE UNCHANGED vars
  BY <1>29 DEF vars
<1> QED
  BY <1>1, <1>2, <1>3, <1>4, <1>5, <1>6, <1>7, <1>8, <1>9, <1>10, <1>11,
      <1>12, <1>13, <1>14, <1>15, <1>16, <1>17, <1>18, <1>19, <1>20,
      <1>21, <1>22, <1>23, <1>24, <1>25, <1>26, <1>27, <1>28, <1>29
  DEF Next, Proceed, Call, Monitor, Exit

\* No single step forgets a live process that the last poll has seen in its slot.
LEMMA ForgetStep == TypeOK /\ SlotInv /\ VerdictInv /\ [Next]_vars => Forgets
<1> SUFFICES ASSUME TypeOK, SlotInv, VerdictInv, [Next]_vars PROVE Forgets
  OBVIOUS
<1> USE NoneAssumption
<1> USE DEF SlotInv, OneHolder, HolderKeepsSlot, NoHollowEntry, DrainIsFinal,
            Forgets, Dead, HolderPcs, HolderPhase, TypeOK,
            SlotStates, Pcs, WaitPcs, LaunchPcs, StopPcs, PidPcs,
            stateVars, requestVars, monVars, exitVars
<1>1. ASSUME NEW r \in Requests, NEW i \in Instances, StartGate(r, i) PROVE Forgets
  BY <1>1 DEF StartGate, Begin
<1>2. ASSUME NEW r \in Requests, NEW i \in Instances, RestartGate(r, i) PROVE Forgets
  BY <1>2 DEF RestartGate, Begin
<1>3. ASSUME NEW r \in Requests, NEW i \in Instances, StopAdmit(r, i) PROVE Forgets
  BY <1>3 DEF StopAdmit, PrepareStop, SetSlot, Begin
<1>4. ASSUME NEW r \in Requests, NEW i \in Instances, AcquireGuard(r, i) PROVE Forgets
  BY <1>4 DEF AcquireGuard, EnsureVacant, SetSlot, Begin
<1>5. ASSUME NEW r \in Requests, StartAdmit(r) PROVE Forgets
  BY <1>5 DEF StartAdmit, EnsureVacant, SetSlot, Goto, Finish
<1>6. ASSUME NEW r \in Requests, RestartAdmit(r) PROVE Forgets
  BY <1>6 DEF RestartAdmit, PrepareStop, NotRunning, SetSlot, Begin, Goto, Finish
<1>7. ASSUME NEW r \in Requests, StopDone(r) PROVE Forgets
  BY <1>7 DEF StopDone, Dead, RemoveSlot, SetSlot, Finish
<1>8. ASSUME NEW r \in Requests, StopFails(r) PROVE Forgets
  BY <1>8 DEF StopFails, Dead, RevertStop, SetSlot, Finish
<1>9. ASSUME NEW r \in Requests, RestartStopped(r) PROVE Forgets
  BY <1>9 DEF RestartStopped, Dead, RemoveSlot, SetSlot, Begin, Finish
<1>10. ASSUME NEW r \in Requests, Subscribe(r) PROVE Forgets
  BY <1>10 DEF Subscribe
<1>11. ASSUME NEW r \in Requests, LaunchFails(r) PROVE Forgets
  BY <1>11 DEF LaunchFails, Fail, Begin
<1>12. ASSUME NEW r \in Requests, NEW p \in Pids, Spawn(r, p) PROVE Forgets
  BY <1>12 DEF Spawn, Begin
<1>13. ASSUME NEW r \in Requests, BootSucceeds(r) PROVE Forgets
  BY <1>13 DEF BootSucceeds, Goto
<1>14. ASSUME NEW r \in Requests, BootExits(r) PROVE Forgets
  BY <1>14 DEF BootExits, Fail, Begin
<1>15. ASSUME NEW r \in Requests, BootCancelled(r) PROVE Forgets
  BY <1>15 DEF BootCancelled, Fail, Begin
<1>16. ASSUME NEW r \in Requests, LaunchGate(r) PROVE Forgets
  BY <1>16 DEF LaunchGate, RemoveSlot, SetSlot, Goto, Finish
<1>17. ASSUME NEW r \in Requests, Commit(r) PROVE Forgets
  BY <1>17 DEF Commit, SetSlot, Finish
<1>18. ASSUME NEW r \in Requests, Rollback(r) PROVE Forgets
  BY <1>18 DEF Rollback, RemoveSlot, SetSlot, Finish
<1>19. ASSUME NEW r \in Requests, LateKill(r) PROVE Forgets
  BY <1>19 DEF LateKill, Finish
<1>20. ASSUME NEW r \in Requests, DropGuard(r) PROVE Forgets
  BY <1>20 DEF DropGuard, RemoveSlot, SetSlot, Finish
<1>21. ASSUME NEW r \in Requests, HangUp(r) PROVE Forgets
  BY <1>21 DEF HangUp, Finish
<1>22. ASSUME MonitorSnapshot PROVE Forgets
  BY <1>22 DEF MonitorSnapshot, LiveInstances
<1>23. ASSUME MonitorEvaluate PROVE Forgets
  BY <1>23 DEF MonitorEvaluate
<1>24. ASSUME MonitorApply PROVE Forgets
  BY <1>24 DEF MonitorApply, LiveInstances, VerdictInv
<1>25. ASSUME Drain PROVE Forgets
  BY <1>25 DEF Drain
<1>26. ASSUME SendShutdown PROVE Forgets
  BY <1>26 DEF SendShutdown
<1>27. ASSUME Reap PROVE Forgets
  BY <1>27 DEF Reap
<1>28. ASSUME NEW p \in Pids, ProcessExits(p) PROVE Forgets
  BY <1>28 DEF ProcessExits
<1>29. CASE UNCHANGED vars
  BY <1>29 DEF vars
<1> QED
  BY <1>1, <1>2, <1>3, <1>4, <1>5, <1>6, <1>7, <1>8, <1>9, <1>10, <1>11,
      <1>12, <1>13, <1>14, <1>15, <1>16, <1>17, <1>18, <1>19, <1>20,
      <1>21, <1>22, <1>23, <1>24, <1>25, <1>26, <1>27, <1>28, <1>29
  DEF Next, Proceed, Call, Monitor, Exit

\* The monitor takes no process out of its slot that was alive and that it had seen.
THEOREM VerdictsHold == Spec => ForgottenIsDead
<1>1. Init => VerdictInv
  BY DEF Init, VerdictInv
<1>2. TypeOK /\ SlotInv /\ VerdictInv /\ [Next]_vars => [Forgets]_vars
  BY ForgetStep
<1>3. [][Forgets]_vars => ForgottenIsDead
  BY DEF Forgets, ForgottenIsDead
<1>4. QED
  BY <1>1, <1>2, <1>3, VerdictStep, SlotInvariant, PTL DEF Spec

-----------------------------------------------------------------------------
(* Refinement of InstanceLifecycle. *)

\* A step of request r leaves the other requests where they are.
OthersKept(r) ==
  \A q \in Requests \ {r} : pc'[q] = pc[q] /\ target'[q] = target[q]

\* A request that holds nothing takes i, which nobody holds.
LEMMA TakeHolds ==
  ASSUME NEW r \in Requests, NEW i \in Instances, OthersKept(r), Holders(i) = {},
         pc[r] \notin HolderPcs, pc'[r] \in HolderPcs, target'[r] = i
  PROVE  Held' = [Held EXCEPT ![i] = {r}]
<1>1. Holders(i)' = {r}
  BY DEF Holders, OthersKept
<1>2. \A j \in Instances \ {i} : Holders(j)' = Holders(j)
  BY DEF Holders, OthersKept
<1> QED
  BY <1>1, <1>2 DEF Held

\* The one holder of i lets go.
LEMMA LeaveReleases ==
  ASSUME NEW r \in Requests, NEW i \in Instances, OthersKept(r), OneHolder,
         pc[r] \in HolderPcs, target[r] = i, pc'[r] \notin HolderPcs
  PROVE  Held[i] = {r} /\ Held' = [Held EXCEPT ![i] = {}]
<1>1. Holders(i) = {r} /\ Holders(i)' = {}
  BY DEF Holders, OneHolder, OthersKept
<1>2. \A j \in Instances \ {i} : Holders(j)' = Holders(j)
  BY DEF Holders, OthersKept
<1> QED
  BY <1>1, <1>2 DEF Held

\* A request moves on without taking or giving back anything.
LEMMA HoldersKept ==
  ASSUME NEW r \in Requests, OthersKept(r),
         \/ pc[r] \notin HolderPcs /\ pc'[r] \notin HolderPcs
         \/ pc[r] \in HolderPcs /\ pc'[r] \in HolderPcs /\ target'[r] = target[r]
  PROVE  Held' = Held
<1>1. \A j \in Instances : Holders(j)' = Holders(j)
  BY DEF Holders, OthersKept
<1> QED
  BY <1>1 DEF Held

\* A slot that is vacant or Live while the manager is up is held by nobody.
LEMMA NobodyHolds ==
  ASSUME TypeOK, SlotInv, ~shuttingDown, NEW i \in Instances, slot[i] \in {"vacant", "live"}
  PROVE  Holders(i) = {}
BY DEF TypeOK, SlotInv, HolderKeepsSlot, HolderPhase, Holders, HolderPcs, LaunchPcs, StopPcs

\* What is left to show of a step once its effect on Held is known.
LEMMA Stutters ==
  ASSUME slot' = slot, Held' = Held, shuttingDown' = shuttingDown
  PROVE  UNCHANGED Lifecycle!vars
BY DEF Lifecycle!vars

\* Taking a slot is the step Take of InstanceLifecycle.
LEMMA Takes ==
  ASSUME TypeOK, SlotInv, ~shuttingDown, shuttingDown' = shuttingDown,
         NEW r \in Requests, NEW i \in Instances,
         \/ slot[i] = "vacant" /\ slot' = [slot EXCEPT ![i] = "guarded"]
         \/ slot[i] = "vacant" /\ slot' = [slot EXCEPT ![i] = "starting"]
         \/ slot[i] = "live" /\ slot' = [slot EXCEPT ![i] = "stopping"],
         Held' = [Held EXCEPT ![i] = {r}]
  PROVE  Lifecycle!Next
<1>1. Held[i] = {}
  BY NobodyHolds DEF Held
<1>2. Lifecycle!Take(i, r)
  BY <1>1 DEF Lifecycle!Take, Lifecycle!Move, Lifecycle!MayTake, Lifecycle!Phases,
     Lifecycle!Transient
<1> QED
  BY <1>2 DEF Lifecycle!Next

\* Giving a slot back is its step Leave.
LEMMA Leaves ==
  ASSUME ~shuttingDown, shuttingDown' = shuttingDown,
         NEW r \in Requests, NEW i \in Instances,
         \/ slot[i] = "guarded" /\ slot' = [slot EXCEPT ![i] = "vacant"]
         \/ slot[i] = "starting" /\ slot' = [slot EXCEPT ![i] = "live"]
         \/ slot[i] = "starting" /\ slot' = [slot EXCEPT ![i] = "vacant"]
         \/ slot[i] = "stopping" /\ slot' = [slot EXCEPT ![i] = "live"]
         \/ slot[i] = "stopping" /\ slot' = [slot EXCEPT ![i] = "vacant"],
         Held[i] = {r}, Held' = [Held EXCEPT ![i] = {}]
  PROVE  Lifecycle!Next
<1>1. Lifecycle!Leave(i, r)
  BY DEF Lifecycle!Leave, Lifecycle!Move, Lifecycle!MayLeave, Lifecycle!Phases,
     Lifecycle!Transient
<1> QED
  BY <1>1 DEF Lifecycle!Next

\* A holder that is dropped leaves the slot as it is: its step Abandon.
LEMMA Abandons ==
  ASSUME shuttingDown' = shuttingDown, slot' = slot,
         NEW r \in Requests, NEW i \in Instances,
         Held[i] = {r}, Held' = [Held EXCEPT ![i] = {}]
  PROVE  Lifecycle!Next
BY DEF Lifecycle!Next, Lifecycle!Abandon

\* Every step of the manager is a step of InstanceLifecycle or a stutter of it.
LEMMA LifecycleStep ==
  TypeOK /\ SlotInv /\ TypeOK' /\ [Next]_vars => [Lifecycle!Next]_(Lifecycle!vars)
<1> SUFFICES ASSUME TypeOK, SlotInv, TypeOK', [Next]_vars
             PROVE  Lifecycle!Next \/ UNCHANGED Lifecycle!vars
  OBVIOUS
<1> USE NoneAssumption
<1> DEFINE Keeps(r) == \/ pc[r] \notin HolderPcs /\ pc'[r] \notin HolderPcs
                       \/ /\ pc[r] \in HolderPcs /\ pc'[r] \in HolderPcs
                          /\ target'[r] = target[r]
<1> DEFINE Goal == Lifecycle!Next \/ UNCHANGED Lifecycle!vars
<1>a. OneHolder /\ HolderKeepsSlot /\ DrainIsFinal
  BY DEF SlotInv
<1>1. ASSUME NEW r \in Requests, NEW i \in Instances, StartGate(r, i) PROVE Goal
  <2>1. OthersKept(r) /\ Keeps(r)
    BY <1>1 DEF StartGate, Begin, stateVars, TypeOK, OthersKept, HolderPcs, LaunchPcs, StopPcs
  <2> QED
    BY <2>1, <1>1, HoldersKept, Stutters DEF StartGate, stateVars
<1>2. ASSUME NEW r \in Requests, NEW i \in Instances, RestartGate(r, i) PROVE Goal
  <2>1. OthersKept(r) /\ Keeps(r)
    BY <1>2 DEF RestartGate, Begin, stateVars, TypeOK, OthersKept, HolderPcs, LaunchPcs, StopPcs
  <2> QED
    BY <2>1, <1>2, HoldersKept, Stutters DEF RestartGate, stateVars
<1>3. ASSUME NEW r \in Requests, NEW i \in Instances, StopAdmit(r, i) PROVE Goal
  <2>1. Held' = [Held EXCEPT ![i] = {r}]
    <3>1. OthersKept(r) /\ pc[r] \notin HolderPcs /\ pc'[r] \in HolderPcs /\ target'[r] = i
      BY <1>3
         DEF StopAdmit, Begin, OthersKept, HolderPcs, LaunchPcs, StopPcs, TypeOK
    <3>2. Holders(i) = {}
      BY <1>3, NobodyHolds DEF StopAdmit, PrepareStop
    <3> QED
      BY <3>1, <3>2, TakeHolds
  <2> QED
    BY <2>1, <1>3, Takes DEF StopAdmit, PrepareStop, SetSlot
<1>4. ASSUME NEW r \in Requests, NEW i \in Instances, AcquireGuard(r, i) PROVE Goal
  <2>1. Held' = [Held EXCEPT ![i] = {r}]
    <3>1. OthersKept(r) /\ pc[r] \notin HolderPcs /\ pc'[r] \in HolderPcs /\ target'[r] = i
      BY <1>4
         DEF AcquireGuard, Begin, OthersKept, HolderPcs, LaunchPcs, StopPcs, TypeOK
    <3>2. Holders(i) = {}
      BY <1>4, NobodyHolds DEF AcquireGuard, EnsureVacant
    <3> QED
      BY <3>1, <3>2, TakeHolds
  <2> QED
    BY <2>1, <1>4, Takes DEF AcquireGuard, EnsureVacant, SetSlot
<1>5. ASSUME NEW r \in Requests, StartAdmit(r) PROVE Goal
  <2>1. target[r] \in Instances
    BY <1>5 DEF StartAdmit, TypeOK
  <2>2. CASE ~shuttingDown /\ slot[target[r]] = "vacant"
    <3>1. Held' = [Held EXCEPT ![target[r]] = {r}]
      <4>1. OthersKept(r) /\ pc[r] \notin HolderPcs /\ pc'[r] \in HolderPcs /\ target'[r] = target[r]
        BY <2>1, <2>2, <1>5
           DEF StartAdmit, EnsureVacant, Goto, OthersKept, HolderPcs, LaunchPcs,
             StopPcs, TypeOK
      <4>2. Holders(target[r]) = {}
        BY <2>1, <2>2, <1>5, NobodyHolds DEF StartAdmit, EnsureVacant
      <4> QED
        BY <4>1, <4>2, <2>1, TakeHolds
    <3> QED
      BY <3>1, <2>1, <2>2, <1>5, Takes DEF StartAdmit, EnsureVacant, SetSlot
  <2>3. CASE ~(~shuttingDown /\ slot[target[r]] = "vacant")
    <3>1. Held' = Held
      <4>1. OthersKept(r) /\ Keeps(r)
        BY <2>3, <1>5
           DEF StartAdmit, EnsureVacant, Finish, OthersKept, HolderPcs, LaunchPcs,
             StopPcs, TypeOK
      <4> QED
        BY <4>1, HoldersKept
    <3> QED
      BY <3>1, <2>3, <1>5, Stutters DEF StartAdmit, EnsureVacant
  <2> QED
    BY <2>2, <2>3
<1>6. ASSUME NEW r \in Requests, RestartAdmit(r) PROVE Goal
  <2>1. target[r] \in Instances
    BY <1>6 DEF RestartAdmit, TypeOK
  <2>2. CASE ~shuttingDown /\ slot[target[r]] = "live"
    <3>1. Held' = [Held EXCEPT ![target[r]] = {r}]
      <4>1. OthersKept(r) /\ pc[r] \notin HolderPcs /\ pc'[r] \in HolderPcs /\ target'[r] = target[r]
        BY <2>1, <2>2, <1>6
           DEF RestartAdmit, PrepareStop, NotRunning, Begin, OthersKept, HolderPcs,
             LaunchPcs, StopPcs, TypeOK
      <4>2. Holders(target[r]) = {}
        BY <2>1, <2>2, <1>6, NobodyHolds DEF RestartAdmit, PrepareStop, NotRunning
      <4> QED
        BY <4>1, <4>2, <2>1, TakeHolds
    <3> QED
      BY <3>1, <2>1, <2>2, <1>6, Takes
         DEF RestartAdmit, PrepareStop, NotRunning, SetSlot
  <2>3. CASE ~shuttingDown /\ slot[target[r]] = "vacant"
    <3>1. Held' = [Held EXCEPT ![target[r]] = {r}]
      <4>1. OthersKept(r) /\ pc[r] \notin HolderPcs /\ pc'[r] \in HolderPcs /\ target'[r] = target[r]
        BY <2>1, <2>3, <1>6
           DEF RestartAdmit, PrepareStop, NotRunning, Goto, OthersKept, HolderPcs,
             LaunchPcs, StopPcs, TypeOK
      <4>2. Holders(target[r]) = {}
        BY <2>1, <2>3, <1>6, NobodyHolds DEF RestartAdmit, PrepareStop, NotRunning
      <4> QED
        BY <4>1, <4>2, <2>1, TakeHolds
    <3> QED
      BY <3>1, <2>1, <2>3, <1>6, Takes
         DEF RestartAdmit, PrepareStop, NotRunning, SetSlot
  <2>4. CASE shuttingDown \/ slot[target[r]] \notin {"live", "vacant"}
    <3>1. slot[target[r]] # "hollow"
      BY <2>1 DEF SlotInv, NoHollowEntry
    <3>2. slot' = slot /\ shuttingDown' = shuttingDown /\ Finish(r)
      BY <3>1, <2>4, <1>6 DEF RestartAdmit, PrepareStop, NotRunning
    <3>3. Held' = Held
      <4>1. OthersKept(r) /\ Keeps(r)
        BY <3>2, <1>6
           DEF RestartAdmit, Finish, OthersKept, HolderPcs, LaunchPcs, StopPcs,
             TypeOK
      <4> QED
        BY <4>1, HoldersKept
    <3> QED
      BY <3>2, <3>3, Stutters
  <2> QED
    BY <2>2, <2>3, <2>4
<1>7. ASSUME NEW r \in Requests, StopDone(r) PROVE Goal
  <2>1. target[r] \in Instances /\ shuttingDown' = shuttingDown
    BY <1>7 DEF StopDone, TypeOK
  <2>2. Held[target[r]] = {r} /\ Held' = [Held EXCEPT ![target[r]] = {}]
    <3>1. OthersKept(r) /\ pc[r] \in HolderPcs /\ pc'[r] \notin HolderPcs
      BY <2>1, <1>7
         DEF StopDone, Finish, OthersKept, HolderPcs, LaunchPcs, StopPcs, TypeOK
    <3> QED
      BY <3>1, <2>1, <1>a, LeaveReleases
  <2>3. CASE shuttingDown
    <3>1. slot' = slot
      BY <2>1, <2>3, <1>7, <1>a DEF StopDone, RemoveSlot, SetSlot, DrainIsFinal, TypeOK
    <3> QED
      BY <3>1, <2>1, <2>2, Abandons
  <2>4. CASE ~shuttingDown
    <3>1. slot[target[r]] = "stopping"
      BY <2>4, <1>7, <1>a
         DEF StopDone, HolderKeepsSlot, HolderPhase, HolderPcs, LaunchPcs, StopPcs
    <3>2. slot' = [slot EXCEPT ![target[r]] = "vacant"]
      BY <3>1, <1>7 DEF StopDone, RemoveSlot, SetSlot
    <3> QED
      BY <3>1, <3>2, <2>1, <2>2, <2>4, Leaves
  <2> QED
    BY <2>3, <2>4
<1>8. ASSUME NEW r \in Requests, StopFails(r) PROVE Goal
  <2>1. target[r] \in Instances /\ shuttingDown' = shuttingDown
    BY <1>8 DEF StopFails, StopPcs, TypeOK
  <2>2. Held[target[r]] = {r} /\ Held' = [Held EXCEPT ![target[r]] = {}]
    <3>1. OthersKept(r) /\ pc[r] \in HolderPcs /\ pc'[r] \notin HolderPcs
      BY <2>1, <1>8
         DEF StopFails, Finish, OthersKept, HolderPcs, LaunchPcs, StopPcs, TypeOK
    <3> QED
      BY <3>1, <2>1, <1>a, LeaveReleases
  <2>3. CASE shuttingDown
    <3>1. slot' = slot
      BY <2>1, <2>3, <1>8, <1>a DEF StopFails, RevertStop, SetSlot, DrainIsFinal, TypeOK
    <3> QED
      BY <3>1, <2>1, <2>2, Abandons
  <2>4. CASE ~shuttingDown
    <3>1. slot[target[r]] = "stopping"
      BY <2>4, <1>8, <1>a
         DEF StopFails, HolderKeepsSlot, HolderPhase, HolderPcs, LaunchPcs, StopPcs
    <3>2. slot' = [slot EXCEPT ![target[r]] = "live"]
      BY <3>1, <1>8 DEF StopFails, RevertStop, SetSlot
    <3> QED
      BY <3>1, <3>2, <2>1, <2>2, <2>4, Leaves
  <2> QED
    BY <2>3, <2>4
<1>9. ASSUME NEW r \in Requests, RestartStopped(r) PROVE Goal
  <2>1. target[r] \in Instances /\ shuttingDown' = shuttingDown
    BY <1>9 DEF RestartStopped, TypeOK
  <2>2. CASE shuttingDown
    <3>1. Held[target[r]] = {r} /\ Held' = [Held EXCEPT ![target[r]] = {}]
      <4>1. OthersKept(r) /\ pc[r] \in HolderPcs /\ pc'[r] \notin HolderPcs
        BY <2>1, <2>2, <1>9
           DEF RestartStopped, Finish, OthersKept, HolderPcs, LaunchPcs, StopPcs,
             TypeOK
      <4> QED
        BY <4>1, <2>1, <1>a, LeaveReleases
    <3>2. slot' = slot
      BY <2>1, <2>2, <1>9, <1>a DEF RestartStopped, RemoveSlot, SetSlot, DrainIsFinal, TypeOK
    <3> QED
      BY <3>1, <3>2, <2>1, Abandons
  <2>3. CASE ~shuttingDown
    <3>1. slot[target[r]] = "stopping"
      BY <2>3, <1>9, <1>a
         DEF RestartStopped, HolderKeepsSlot, HolderPhase, HolderPcs, LaunchPcs, StopPcs
    <3>2. slot' = [slot EXCEPT ![target[r]] = "starting"]
      BY <3>1, <2>3, <1>9 DEF RestartStopped, SetSlot
    <3>3. Held' = Held
      <4>1. OthersKept(r) /\ Keeps(r)
        BY <2>1, <2>3, <1>9
           DEF RestartStopped, Begin, OthersKept, HolderPcs, LaunchPcs, StopPcs,
             TypeOK
      <4> QED
        BY <4>1, HoldersKept
    <3>4. Held[target[r]] = {r}
      BY <2>1, <1>9, <1>a
         DEF RestartStopped, Held, Holders, OneHolder, HolderPcs, StopPcs
    <3>5. Lifecycle!Relaunch(target[r], r)
      BY <3>1, <3>2, <3>3, <3>4, <2>1, <2>3
         DEF Lifecycle!Relaunch, Lifecycle!Move, Lifecycle!Phases, Lifecycle!Transient
    <3> QED
      BY <3>5, <2>1 DEF Lifecycle!Next
  <2> QED
    BY <2>2, <2>3
<1>10. ASSUME NEW r \in Requests, Subscribe(r) PROVE Goal
  <2>1. OthersKept(r) /\ Keeps(r)
    BY <1>10 DEF Subscribe, stateVars, TypeOK, OthersKept, HolderPcs, LaunchPcs, StopPcs
  <2> QED
    BY <2>1, <1>10, HoldersKept, Stutters DEF Subscribe, stateVars
<1>11. ASSUME NEW r \in Requests, LaunchFails(r) PROVE Goal
  <2>1. OthersKept(r) /\ Keeps(r)
    BY <1>11 DEF LaunchFails, Fail, Begin, stateVars, TypeOK, OthersKept, HolderPcs, LaunchPcs, StopPcs
  <2> QED
    BY <2>1, <1>11, HoldersKept, Stutters DEF LaunchFails, stateVars
<1>12. ASSUME NEW r \in Requests, NEW p \in Pids, Spawn(r, p) PROVE Goal
  <2>1. OthersKept(r) /\ Keeps(r)
    BY <1>12 DEF Spawn, Begin, stateVars, TypeOK, OthersKept, HolderPcs, LaunchPcs, StopPcs
  <2> QED
    BY <2>1, <1>12, HoldersKept, Stutters DEF Spawn, stateVars
<1>13. ASSUME NEW r \in Requests, BootSucceeds(r) PROVE Goal
  <2>1. OthersKept(r) /\ Keeps(r)
    BY <1>13 DEF BootSucceeds, Goto, stateVars, TypeOK, OthersKept, HolderPcs, LaunchPcs, StopPcs
  <2> QED
    BY <2>1, <1>13, HoldersKept, Stutters DEF BootSucceeds, stateVars
<1>14. ASSUME NEW r \in Requests, BootExits(r) PROVE Goal
  <2>1. OthersKept(r) /\ Keeps(r)
    BY <1>14 DEF BootExits, Fail, Begin, stateVars, TypeOK, OthersKept, HolderPcs, LaunchPcs, StopPcs
  <2> QED
    BY <2>1, <1>14, HoldersKept, Stutters DEF BootExits, stateVars
<1>15. ASSUME NEW r \in Requests, BootCancelled(r) PROVE Goal
  <2>1. OthersKept(r) /\ Keeps(r)
    BY <1>15 DEF BootCancelled, Fail, Begin, stateVars, TypeOK, OthersKept, HolderPcs, LaunchPcs, StopPcs
  <2> QED
    BY <2>1, <1>15, HoldersKept, Stutters DEF BootCancelled, stateVars
<1>16. ASSUME NEW r \in Requests, LaunchGate(r) PROVE Goal
  <2>1. target[r] \in Instances /\ shuttingDown' = shuttingDown
    BY <1>16 DEF LaunchGate, TypeOK
  <2>2. CASE shuttingDown
    <3>1. Held[target[r]] = {r} /\ Held' = [Held EXCEPT ![target[r]] = {}]
      <4>1. CASE pc[r] = "launched"
        <5>1. OthersKept(r) /\ pc[r] \in HolderPcs /\ pc'[r] \notin HolderPcs
          BY <4>1, <2>1, <2>2, <1>16
             DEF LaunchGate, Goto, OthersKept, HolderPcs, LaunchPcs, StopPcs, TypeOK
        <5> QED
          BY <5>1, <2>1, <1>a, LeaveReleases
      <4>2. CASE pc[r] = "failed"
        <5>1. OthersKept(r) /\ pc[r] \in HolderPcs /\ pc'[r] \notin HolderPcs
          BY <4>2, <2>1, <2>2, <1>16
             DEF LaunchGate, Finish, OthersKept, HolderPcs, LaunchPcs, StopPcs, TypeOK
        <5> QED
          BY <5>1, <2>1, <1>a, LeaveReleases
      <4> QED
        BY <4>1, <4>2, <1>16 DEF LaunchGate
    <3>2. slot' = slot
      BY <2>1, <2>2, <1>16, <1>a DEF LaunchGate, RemoveSlot, SetSlot, DrainIsFinal, TypeOK
    <3> QED
      BY <3>1, <3>2, <2>1, Abandons
  <2>3. CASE ~shuttingDown
    <3>1. Held' = Held
      <4>1. OthersKept(r) /\ Keeps(r)
        BY <2>1, <2>3, <1>16
           DEF LaunchGate, Goto, OthersKept, HolderPcs, LaunchPcs, StopPcs, TypeOK
      <4> QED
        BY <4>1, HoldersKept
    <3> QED
      BY <3>1, <2>1, <2>3, <1>16, Stutters DEF LaunchGate
  <2> QED
    BY <2>2, <2>3
<1>17. ASSUME NEW r \in Requests, Commit(r) PROVE Goal
  <2>1. target[r] \in Instances /\ shuttingDown' = shuttingDown
    BY <1>17 DEF Commit, TypeOK
  <2>2. Held[target[r]] = {r} /\ Held' = [Held EXCEPT ![target[r]] = {}]
    <3>1. OthersKept(r) /\ pc[r] \in HolderPcs /\ pc'[r] \notin HolderPcs
      BY <2>1, <1>17
         DEF Commit, Finish, OthersKept, HolderPcs, LaunchPcs, StopPcs, TypeOK
    <3> QED
      BY <3>1, <2>1, <1>a, LeaveReleases
  <2>3. CASE shuttingDown
    <3>1. slot' = slot
      BY <2>1, <2>3, <1>17, <1>a DEF Commit, SetSlot, DrainIsFinal, TypeOK
    <3> QED
      BY <3>1, <2>1, <2>2, Abandons
  <2>4. CASE ~shuttingDown
    <3>1. slot[target[r]] = "starting"
      BY <2>4, <1>17, <1>a
         DEF Commit, HolderKeepsSlot, HolderPhase, HolderPcs, LaunchPcs, StopPcs
    <3>2. slot' = [slot EXCEPT ![target[r]] = "live"]
      BY <3>1, <1>17 DEF Commit, SetSlot
    <3> QED
      BY <3>1, <3>2, <2>1, <2>2, <2>4, Leaves
  <2> QED
    BY <2>3, <2>4
<1>18. ASSUME NEW r \in Requests, Rollback(r) PROVE Goal
  <2>1. target[r] \in Instances /\ shuttingDown' = shuttingDown
    BY <1>18 DEF Rollback, TypeOK
  <2>2. Held[target[r]] = {r} /\ Held' = [Held EXCEPT ![target[r]] = {}]
    <3>1. OthersKept(r) /\ pc[r] \in HolderPcs /\ pc'[r] \notin HolderPcs
      BY <2>1, <1>18
         DEF Rollback, Finish, OthersKept, HolderPcs, LaunchPcs, StopPcs, TypeOK
    <3> QED
      BY <3>1, <2>1, <1>a, LeaveReleases
  <2>3. CASE shuttingDown
    <3>1. slot' = slot
      BY <2>1, <2>3, <1>18, <1>a DEF Rollback, RemoveSlot, SetSlot, DrainIsFinal, TypeOK
    <3> QED
      BY <3>1, <2>1, <2>2, Abandons
  <2>4. CASE ~shuttingDown
    <3>1. slot[target[r]] = "starting"
      BY <2>4, <1>18, <1>a
         DEF Rollback, HolderKeepsSlot, HolderPhase, HolderPcs, LaunchPcs, StopPcs
    <3>2. slot' = [slot EXCEPT ![target[r]] = "vacant"]
      BY <3>1, <1>18 DEF Rollback, RemoveSlot, SetSlot
    <3> QED
      BY <3>1, <3>2, <2>1, <2>2, <2>4, Leaves
  <2> QED
    BY <2>3, <2>4
<1>19. ASSUME NEW r \in Requests, LateKill(r) PROVE Goal
  <2>1. OthersKept(r) /\ Keeps(r)
    BY <1>19 DEF LateKill, Finish, stateVars, TypeOK, OthersKept, HolderPcs, LaunchPcs, StopPcs
  <2> QED
    BY <2>1, <1>19, HoldersKept, Stutters DEF LateKill, stateVars
<1>20. ASSUME NEW r \in Requests, DropGuard(r) PROVE Goal
  <2>1. target[r] \in Instances /\ shuttingDown' = shuttingDown
    BY <1>20 DEF DropGuard, TypeOK
  <2>2. Held[target[r]] = {r} /\ Held' = [Held EXCEPT ![target[r]] = {}]
    <3>1. OthersKept(r) /\ pc[r] \in HolderPcs /\ pc'[r] \notin HolderPcs
      BY <2>1, <1>20
         DEF DropGuard, Finish, OthersKept, HolderPcs, LaunchPcs, StopPcs, TypeOK
    <3> QED
      BY <3>1, <2>1, <1>a, LeaveReleases
  <2>3. CASE shuttingDown
    <3>1. slot' = slot
      BY <2>1, <2>3, <1>20, <1>a DEF DropGuard, RemoveSlot, SetSlot, DrainIsFinal, TypeOK
    <3> QED
      BY <3>1, <2>1, <2>2, Abandons
  <2>4. CASE ~shuttingDown
    <3>1. slot[target[r]] = "guarded"
      BY <2>4, <1>20, <1>a
         DEF DropGuard, HolderKeepsSlot, HolderPhase, HolderPcs, LaunchPcs, StopPcs
    <3>2. slot' = [slot EXCEPT ![target[r]] = "vacant"]
      BY <3>1, <1>20 DEF DropGuard, RemoveSlot, SetSlot
    <3> QED
      BY <3>1, <3>2, <2>1, <2>2, <2>4, Leaves
  <2> QED
    BY <2>3, <2>4
<1>21. ASSUME NEW r \in Requests, HangUp(r) PROVE Goal
  <2>1. slot' = slot /\ shuttingDown' = shuttingDown
    BY <1>21 DEF HangUp, stateVars
  <2>2. CASE pc[r] = "late_kill"
    <3>1. Held' = Held
      <4>1. OthersKept(r) /\ Keeps(r)
        BY <2>2, <1>21
           DEF HangUp, Finish, OthersKept, HolderPcs, LaunchPcs, StopPcs, TypeOK
      <4> QED
        BY <4>1, HoldersKept
    <3> QED
      BY <3>1, <2>1, Stutters
  <2>3. CASE pc[r] # "late_kill"
    <3>1. target[r] \in Instances
      BY <2>3, <1>21 DEF HangUp, TypeOK
    <3>2. Held[target[r]] = {r} /\ Held' = [Held EXCEPT ![target[r]] = {}]
      <4>1. OthersKept(r) /\ pc[r] \in HolderPcs /\ pc'[r] \notin HolderPcs
        BY <3>1, <2>3, <1>21
           DEF HangUp, Finish, OthersKept, HolderPcs, LaunchPcs, StopPcs, TypeOK
      <4> QED
        BY <4>1, <3>1, <1>a, LeaveReleases
    <3> QED
      BY <3>1, <3>2, <2>1, Abandons
  <2> QED
    BY <2>2, <2>3
<1>22. ASSUME MonitorSnapshot PROVE Goal
  BY <1>22, Stutters DEF MonitorSnapshot, stateVars, requestVars, Held, Holders
<1>23. ASSUME MonitorEvaluate PROVE Goal
  BY <1>23, Stutters DEF MonitorEvaluate, stateVars, requestVars, Held, Holders
<1>24. ASSUME MonitorApply PROVE Goal
  <2> DEFINE gone == monDead \cap LiveInstances
  <2>1. Held' = Held
    BY <1>24 DEF MonitorApply, requestVars, Held, Holders
  <2>2. Lifecycle!Forget(gone)
    BY <2>1, <1>24 DEF MonitorApply, LiveInstances, Lifecycle!Forget
  <2> QED
    BY <2>2 DEF Lifecycle!Next, LiveInstances
<1>25. ASSUME Drain PROVE Goal
  <2>1. Held' = Held
    BY <1>25 DEF Drain, requestVars, Held, Holders
  <2> QED
    BY <2>1, <1>25 DEF Drain, Lifecycle!GoDown, Lifecycle!Next
<1>26. ASSUME SendShutdown PROVE Goal
  BY <1>26, Stutters DEF SendShutdown, stateVars, requestVars, Held, Holders
<1>27. ASSUME Reap PROVE Goal
  BY <1>27, Stutters DEF Reap, stateVars, requestVars, Held, Holders
<1>28. ASSUME NEW p \in Pids, ProcessExits(p) PROVE Goal
  BY <1>28, Stutters DEF ProcessExits, stateVars, requestVars, Held, Holders
<1>29. CASE UNCHANGED vars
  BY <1>29, Stutters DEF vars, stateVars, requestVars, Held, Holders
<1> QED
  BY <1>1, <1>2, <1>3, <1>4, <1>5, <1>6, <1>7, <1>8, <1>9, <1>10, <1>11,
      <1>12, <1>13, <1>14, <1>15, <1>16, <1>17, <1>18, <1>19, <1>20,
      <1>21, <1>22, <1>23, <1>24, <1>25, <1>26, <1>27, <1>28, <1>29
  DEF Next, Proceed, Call, Monitor, Exit

\* ProcessManager implements InstanceLifecycle: at most one operation holds the slot
\* of an instance, only the holder moves it, and a shutdown empties it for good.
THEOREM RefinesLifecycle == Spec => ImplementsLifecycle
<1>1. Init => Lifecycle!Init
  BY DEF Init, Lifecycle!Init, Held, Holders, HolderPcs, LaunchPcs, StopPcs
<1>2. QED
  BY <1>1, LifecycleStep, SlotInvariant, TypeCorrect, PTL
     DEF Spec, ImplementsLifecycle, Lifecycle!Spec
=============================================================================
