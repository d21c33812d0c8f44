--------------------------- MODULE ProcessManager ---------------------------
(***************************************************************************)
(* The process manager of the backend (src-tauri/src/process/manager.rs),  *)
(* with the monitor task (process/monitor.rs) and the launch and shutdown  *)
(* IO of instance/lifecycle.rs as steps of the requests that await them.   *)
(*                                                                         *)
(* One mutex guards the map from instance ids to slots.  Every block that  *)
(* runs under the mutex is one action; everything between two blocks (IO,  *)
(* awaits, the gap between two lock() calls) is a place where the other    *)
(* requests, the monitor and the exit handler may run.                     *)
(*                                                                         *)
(* PIDs: a PID that some slot, request, monitor snapshot or exit list      *)
(* still mentions is not given to a new process here (ProcessControl is    *)
(* about PID reuse).  The platform is Linux, where the service runs.       *)
(***************************************************************************)
EXTENDS FiniteSets

CONSTANTS
  Instances,       \* instance ids of the manifest
  Requests,        \* requests that can be in flight at once
  Pids,            \* process ids the system can hand out
  NoInstance, NoPid,
  ClientsHangUp,   \* TRUE: an HTTP client may disconnect in mid-request
  KillsMayFail     \* TRUE: a kill may be refused, or skipped because the
                   \* executable path of the process cannot be resolved

ASSUME NoneAssumption == NoInstance \notin Instances /\ NoPid \notin Pids
ASSUME SwitchAssumption == ClientsHangUp \in BOOLEAN /\ KillsMayFail \in BOOLEAN

VARIABLES
  slot,          \* slot[i]: the entry of i in ProcessState::slots
  slotPid,       \* slotPid[i]: pid kept in a Live or Stopping slot
  shuttingDown,  \* ProcessState::shutting_down
  signal,        \* value of the shutdown watch channel
  pc,            \* pc[r]: what request r does next
  target,        \* target[r]: the instance r works on
  rpid,          \* rpid[r]: pid r got from prepare_stop or from spawn
  deaf,          \* requests that subscribed after the shutdown signal was sent
  proc,          \* proc[p]: instance whose process p is alive, or NoInstance
  monPc,         \* where poll_instances is
  monSnap,       \* monSnap[i]: pid of i in its snapshot, or NoPid
  monDead,       \* instances it found dead
  exitPc,        \* where the exit handler is
  doomed         \* pids the exit handler drained and has to stop

stateVars   == <<slot, slotPid, shuttingDown>>
requestVars == <<pc, target, rpid, deaf>>
monVars     == <<monPc, monSnap, monDead>>
exitVars    == <<exitPc, doomed, signal>>
vars == <<stateVars, requestVars, proc, monVars, exitVars>>

\* "vacant": no entry; "guarded": slot None, guarded; "hollow": slot None, not
\* guarded, an entry no code creates on purpose.
SlotStates == {"vacant", "guarded", "starting", "live", "stopping", "hollow"}

LaunchPcs == {"admitted", "launching", "booting", "launched", "failed",
              "commit", "rollback"}
StopPcs   == {"stopping", "restarting"}
WaitPcs   == {"idle", "start_gate", "restart_gate"}
Pcs       == WaitPcs \cup LaunchPcs \cup StopPcs \cup {"guard", "late_kill"}

\* The places where a request knows a pid.
PidPcs == {"booting", "launched", "commit", "late_kill"} \cup StopPcs

\* Types, and the shape of slots and requests: a slot carries a pid exactly when
\* it is Live or Stopping (the exit handler relies on that to kill processes that
\* are still shutting down), a request exactly between learning and losing it.
TypeOK ==
  /\ slot \in [Instances -> SlotStates]
  /\ slotPid \in [Instances -> Pids \cup {NoPid}]
  /\ shuttingDown \in BOOLEAN /\ signal \in BOOLEAN
  /\ pc \in [Requests -> Pcs]
  /\ target \in [Requests -> Instances \cup {NoInstance}]
  /\ rpid \in [Requests -> Pids \cup {NoPid}]
  /\ deaf \in SUBSET Requests
  /\ proc \in [Pids -> Instances \cup {NoInstance}]
  /\ monPc \in {"sleep", "evaluate", "apply"}
  /\ monSnap \in [Instances -> Pids \cup {NoPid}]
  /\ monDead \in SUBSET Instances
  /\ exitPc \in {"running", "drained", "reaping", "done"}
  /\ doomed \in SUBSET Pids
  /\ \A i \in Instances : (slotPid[i] \in Pids) <=> (slot[i] \in {"live", "stopping"})
  /\ \A r \in Requests : (target[r] \in Instances) <=> (pc[r] # "idle")
  /\ \A r \in Requests : (rpid[r] \in Pids) <=> (pc[r] \in PidPcs)

Init ==
  /\ slot = [i \in Instances |-> "vacant"]
  /\ slotPid = [i \in Instances |-> NoPid]
  /\ shuttingDown = FALSE /\ signal = FALSE
  /\ pc = [r \in Requests |-> "idle"]
  /\ target = [r \in Requests |-> NoInstance]
  /\ rpid = [r \in Requests |-> NoPid]
  /\ deaf = {}
  /\ proc = [p \in Pids |-> NoInstance]
  /\ monPc = "sleep" /\ monSnap = [i \in Instances |-> NoPid] /\ monDead = {}
  /\ exitPc = "running" /\ doomed = {}

----------------------------------------------------------------------------
(***************************************************************************)
(* A definition Name_Variant is a slip that the property of its run must   *)
(* catch (PROJECT.json, "mutants"); no action uses it.                     *)
(*                                                                         *)
(* ProcessState: the operations that run under the mutex.                  *)
(***************************************************************************)
Dead(p) == p \in Pids /\ proc[p] = NoInstance

SetSlot(i, s, p) == /\ slot' = [slot EXCEPT ![i] = s]
                    /\ slotPid' = [slotPid EXCEPT ![i] = p]

RemoveSlot(i) == SetSlot(i, "vacant", NoPid)

EnsureVacant_IgnoresGuard(i) == slot[i] \in {"vacant", "guarded"}

EnsureVacant(i) == slot[i] = "vacant"

PrepareStop_KeepsLive(i) == slot[i] = "live" /\ UNCHANGED <<slot, slotPid>>

PrepareStop_DropsPid(i) == slot[i] = "live" /\ SetSlot(i, "stopping", NoPid)

\* Live -> Stopping; the caller leaves with the pid.
PrepareStop(i) == slot[i] = "live" /\ SetSlot(i, "stopping", slotPid[i])

NotRunning(i) == slot[i] \in {"vacant", "hollow"}

\* revert_stop takes the slot out of its entry before it looks at it.
RevertStop(i) ==
  CASE slot[i] = "stopping" -> SetSlot(i, "live", slotPid[i])
    [] slot[i] \in {"starting", "live"} -> SetSlot(i, "hollow", NoPid)
    [] OTHER -> UNCHANGED <<slot, slotPid>>

----------------------------------------------------------------------------
(***************************************************************************)
(* Requests.  Goto, Begin and Finish say where request r goes on.          *)
(***************************************************************************)
Goto(r, k) == /\ pc' = [pc EXCEPT ![r] = k]
              /\ UNCHANGED <<target, rpid, deaf>>

Begin(r, k, i, p) == /\ pc' = [pc EXCEPT ![r] = k]
                     /\ target' = [target EXCEPT ![r] = i]
                     /\ rpid' = [rpid EXCEPT ![r] = p]
                     /\ UNCHANGED deaf

\* A failed launch reports an error and no process.
Fail(r) == Begin(r, "failed", target[r], NoPid)

Finish(r) == /\ pc' = [pc EXCEPT ![r] = "idle"]
             /\ target' = [target EXCEPT ![r] = NoInstance]
             /\ rpid' = [rpid EXCEPT ![r] = NoPid]
             /\ deaf' = deaf \ {r}

\* start_instance and restart_instance read the backup directory before they
\* lock: no unresolved auto backup, the request goes on to the mutex.  (With
\* one, it fails there and nothing happens.)
StartGate(r, i) ==
  /\ pc[r] = "idle"
  /\ Begin(r, "start_gate", i, NoPid)
  /\ UNCHANGED <<stateVars, proc, monVars, exitVars>>

RestartGate(r, i) ==
  /\ pc[r] = "idle"
  /\ Begin(r, "restart_gate", i, NoPid)
  /\ UNCHANGED <<stateVars, proc, monVars, exitVars>>

\* start_instance, phase 1.
StartAdmit(r) ==
  /\ pc[r] = "start_gate"
  /\ IF ~shuttingDown /\ EnsureVacant(target[r])
     THEN SetSlot(target[r], "starting", NoPid) /\ Goto(r, "admitted")
     ELSE UNCHANGED <<slot, slotPid>> /\ Finish(r)
  /\ UNCHANGED <<shuttingDown, proc, monVars, exitVars>>

\* restart_instance, phase 1: a live instance is stopped first, one that is not
\* running goes straight to Starting, anything else is refused.
RestartAdmit(r) ==
  LET i == target[r] IN
  /\ pc[r] = "restart_gate"
  /\ \/ /\ ~shuttingDown /\ PrepareStop(i)
        /\ Begin(r, "restarting", i, slotPid[i])
     \/ /\ ~shuttingDown /\ NotRunning(i)
        /\ SetSlot(i, "starting", NoPid) /\ Goto(r, "admitted")
     \/ /\ shuttingDown \/ slot[i] \in {"guarded", "starting", "stopping"}
        /\ UNCHANGED <<slot, slotPid>> /\ Finish(r)
  /\ UNCHANGED <<shuttingDown, proc, monVars, exitVars>>

\* stop_instance, phase 1.
StopAdmit(r, i) ==
  /\ pc[r] = "idle" /\ ~shuttingDown
  /\ PrepareStop(i)
  /\ Begin(r, "stopping", i, slotPid[i])
  /\ UNCHANGED <<shuttingDown, proc, monVars, exitVars>>

StopDone_Unchecked(r) ==
  /\ pc[r] = "stopping"
  /\ RemoveSlot(target[r])
  /\ Finish(r)
  /\ UNCHANGED <<shuttingDown, proc, monVars, exitVars>>

\* shutdown_instance returned: Ok when the process is gone.
StopDone(r) ==
  /\ pc[r] = "stopping" /\ Dead(rpid[r])
  /\ RemoveSlot(target[r])
  /\ Finish(r)
  /\ UNCHANGED <<shuttingDown, proc, monVars, exitVars>>

\* ... Err when it survived the signal, the wait and the kill.
StopFails(r) ==
  /\ pc[r] \in StopPcs /\ ~Dead(rpid[r])
  /\ RevertStop(target[r])
  /\ Finish(r)
  /\ UNCHANGED <<shuttingDown, proc, monVars, exitVars>>

\* restart_instance, phase 2, after the process is gone: Stopping -> Starting,
\* unless the application went down meanwhile.  get_mut finds no entry when
\* there is none, and the request goes on all the same.
RestartStopped(r) ==
  LET i == target[r] IN
  /\ pc[r] = "restarting" /\ Dead(rpid[r])
  /\ \/ shuttingDown /\ RemoveSlot(i) /\ Finish(r)
     \/ /\ ~shuttingDown
        /\ IF slot[i] = "vacant" THEN UNCHANGED <<slot, slotPid>>
           ELSE SetSlot(i, "starting", NoPid)
        /\ Begin(r, "admitted", i, NoPid)
  /\ UNCHANGED <<shuttingDown, proc, monVars, exitVars>>

----------------------------------------------------------------------------
(***************************************************************************)
(* launch_instance and launch_and_finalize.                                *)
(***************************************************************************)

\* The launch subscribes to the shutdown signal; a value sent before is seen
\* as already read, so changed() will never fire for it.
Subscribe(r) ==
  /\ pc[r] = "admitted"
  /\ pc' = [pc EXCEPT ![r] = "launching"]
  /\ deaf' = IF signal THEN deaf \cup {r} ELSE deaf
  /\ UNCHANGED <<target, rpid, stateVars, proc, monVars, exitVars>>

\* Deployment, the port check, the spawn or the first look at the child failed;
\* a child that was spawned is killed.
LaunchFails(r) ==
  /\ pc[r] = "launching"
  /\ Fail(r)
  /\ UNCHANGED <<stateVars, proc, monVars, exitVars>>

Mentioned == {slotPid[i] : i \in Instances} \cup {rpid[r] : r \in Requests}
             \cup {monSnap[i] : i \in Instances} \cup doomed

Spawn(r, p) ==
  /\ pc[r] = "launching"
  /\ proc[p] = NoInstance /\ p \notin Mentioned
  /\ proc' = [proc EXCEPT ![p] = target[r]]
  /\ Begin(r, "booting", target[r], p)
  /\ UNCHANGED <<stateVars, monVars, exitVars>>

\* The select is biased: once the shutdown signal can be seen, it wins.
HearsShutdown(r) == signal /\ r \notin deaf

\* The startup line was read.  The process may have exited since.
BootSucceeds(r) ==
  /\ pc[r] = "booting" /\ ~HearsShutdown(r)
  /\ Goto(r, "launched")
  /\ UNCHANGED <<stateVars, proc, monVars, exitVars>>

\* The process exited before the startup line.
BootExits(r) ==
  /\ pc[r] = "booting" /\ ~HearsShutdown(r) /\ Dead(rpid[r])
  /\ Fail(r)
  /\ UNCHANGED <<stateVars, proc, monVars, exitVars>>

BootCancelled_OnTimeoutOnly(r) ==
  /\ pc[r] = "booting" /\ ~HearsShutdown(r)
  /\ proc' = [proc EXCEPT ![rpid[r]] = NoInstance]
  /\ Fail(r)
  /\ UNCHANGED <<stateVars, monVars, exitVars>>

\* cancel_startup_due_to_shutdown and cancel_startup_due_to_timeout: kill the
\* child if it can be identified, and give up either way.
BootCancelled(r) ==
  /\ pc[r] = "booting"
  /\ \/ proc' = [proc EXCEPT ![rpid[r]] = NoInstance]
     \/ KillsMayFail /\ UNCHANGED proc
  /\ Fail(r)
  /\ UNCHANGED <<stateVars, monVars, exitVars>>

\* launch_and_finalize, first lock: has the application gone down meanwhile?
LaunchGate(r) ==
  /\ pc[r] \in {"launched", "failed"}
  /\ IF shuttingDown
     THEN /\ RemoveSlot(target[r])
          /\ IF pc[r] = "launched" THEN Goto(r, "late_kill") ELSE Finish(r)
     ELSE /\ UNCHANGED <<slot, slotPid>>
          /\ Goto(r, IF pc[r] = "launched" THEN "commit" ELSE "rollback")
  /\ UNCHANGED <<shuttingDown, proc, monVars, exitVars>>

Commit_Inserts(r) ==
  /\ pc[r] = "commit"
  /\ SetSlot(target[r], "live", rpid[r])
  /\ Finish(r)
  /\ UNCHANGED <<shuttingDown, proc, monVars, exitVars>>

\* launch_and_finalize, second lock, after a successful launch.
Commit(r) ==
  /\ pc[r] = "commit"
  /\ IF slot[target[r]] = "vacant" THEN UNCHANGED <<slot, slotPid>>
     ELSE SetSlot(target[r], "live", rpid[r])
  /\ Finish(r)
  /\ UNCHANGED <<shuttingDown, proc, monVars, exitVars>>

Rollback_KeepsSlot(r) ==
  /\ pc[r] = "rollback"
  /\ Finish(r)
  /\ UNCHANGED <<stateVars, proc, monVars, exitVars>>

\* ... after a failed one.
Rollback(r) ==
  /\ pc[r] = "rollback"
  /\ RemoveSlot(target[r])
  /\ Finish(r)
  /\ UNCHANGED <<shuttingDown, proc, monVars, exitVars>>

\* shutdown_instance of a process that came up after the drain returned.
LateKill(r) ==
  /\ pc[r] = "late_kill"
  /\ \/ proc' = [proc EXCEPT ![rpid[r]] = NoInstance]
     \/ KillsMayFail /\ UNCHANGED proc
  /\ Finish(r)
  /\ UNCHANGED <<stateVars, monVars, exitVars>>

----------------------------------------------------------------------------
(***************************************************************************)
(* CRUD operations (update, delete, repair, backup, restore, clear, ...)   *)
(* run between acquire_guard and the drop of the guard.                    *)
(***************************************************************************)
AcquireGuard(r, i) ==
  /\ pc[r] = "idle" /\ ~shuttingDown /\ EnsureVacant(i)
  /\ SetSlot(i, "guarded", NoPid)
  /\ Begin(r, "guard", i, NoPid)
  /\ UNCHANGED <<shuttingDown, proc, monVars, exitVars>>

DropGuard(r) ==
  /\ pc[r] = "guard"
  /\ IF slot[target[r]] = "guarded" THEN RemoveSlot(target[r])
     ELSE UNCHANGED <<slot, slotPid>>
  /\ Finish(r)
  /\ UNCHANGED <<shuttingDown, proc, monVars, exitVars>>

\* The client disconnects: the server drops the handler at its await.  The slot
\* stays as it is (a guard would be released: DropGuard).  A child that was
\* spawned lives on, a shutdown already handed to a blocking thread goes on.
HangUp(r) ==
  /\ ClientsHangUp
  /\ pc[r] \in {"launching", "booting", "stopping", "restarting", "late_kill"}
  /\ Finish(r)
  /\ UNCHANGED <<stateVars, proc, monVars, exitVars>>

----------------------------------------------------------------------------
(***************************************************************************)
(* The monitor: snapshot under the lock, evaluate, apply under the lock.   *)
(***************************************************************************)
LiveInstances == {i \in Instances : slot[i] = "live"}

MonitorSnapshot ==
  /\ monPc = "sleep" /\ ~shuttingDown /\ LiveInstances # {}
  /\ monPc' = "evaluate"
  /\ monSnap' = [i \in Instances |-> IF i \in LiveInstances THEN slotPid[i] ELSE NoPid]
  /\ UNCHANGED <<monDead, stateVars, requestVars, proc, exitVars>>

MonitorEvaluate_AllAlive ==
  /\ monPc = "evaluate"
  /\ monPc' = "apply"
  /\ monDead' = {}
  /\ UNCHANGED <<monSnap, stateVars, requestVars, proc, exitVars>>

MonitorEvaluate_Unreachable ==
  /\ monPc = "evaluate"
  /\ monPc' = "apply"
  /\ monDead' \in SUBSET {i \in Instances : monSnap[i] \in Pids}
  /\ UNCHANGED <<monSnap, stateVars, requestVars, proc, exitVars>>

MonitorEvaluate ==
  /\ monPc = "evaluate"
  /\ monPc' = "apply"
  /\ monDead' = {i \in Instances : Dead(monSnap[i])}
  /\ UNCHANGED <<monSnap, stateVars, requestVars, proc, exitVars>>

MonitorApply_AnyPhase ==
  /\ monPc = "apply"
  /\ slot' = [i \in Instances |-> IF i \in monDead THEN "vacant" ELSE slot[i]]
  /\ slotPid' = [i \in Instances |-> IF i \in monDead THEN NoPid ELSE slotPid[i]]
  /\ monPc' = "sleep"
  /\ monSnap' = [i \in Instances |-> NoPid]
  /\ monDead' = {}
  /\ UNCHANGED <<shuttingDown, requestVars, proc, exitVars>>

\* A verdict names the instance only: whatever is Live by now is removed.
MonitorApply ==
  LET gone == monDead \cap LiveInstances IN
  /\ monPc = "apply"
  /\ slot' = [i \in Instances |-> IF i \in gone THEN "vacant" ELSE slot[i]]
  /\ slotPid' = [i \in Instances |-> IF i \in gone THEN NoPid ELSE slotPid[i]]
  /\ monPc' = "sleep"
  /\ monSnap' = [i \in Instances |-> NoPid]
  /\ monDead' = {}
  /\ UNCHANGED <<shuttingDown, requestVars, proc, exitVars>>

----------------------------------------------------------------------------
(***************************************************************************)
(* stop_all_blocking on Ctrl-C, and the processes themselves.              *)
(***************************************************************************)
Drain_LiveOnly ==
  /\ exitPc = "running"
  /\ exitPc' = "drained"
  /\ shuttingDown' = TRUE
  /\ doomed' = {slotPid[i] : i \in LiveInstances}
  /\ slot' = [i \in Instances |-> IF i \in LiveInstances THEN "vacant" ELSE slot[i]]
  /\ slotPid' = [i \in Instances |-> IF i \in LiveInstances THEN NoPid ELSE slotPid[i]]
  /\ UNCHANGED <<signal, requestVars, proc, monVars>>

Drain ==
  /\ exitPc = "running"
  /\ exitPc' = "drained"
  /\ shuttingDown' = TRUE
  /\ doomed' = {slotPid[i] : i \in {j \in Instances : slot[j] \in {"live", "stopping"}}}
  /\ slot' = [i \in Instances |-> "vacant"]
  /\ slotPid' = [i \in Instances |-> NoPid]
  /\ UNCHANGED <<signal, requestVars, proc, monVars>>

SendShutdown ==
  /\ exitPc = "drained"
  /\ exitPc' = "reaping"
  /\ signal' = TRUE
  /\ UNCHANGED <<doomed, stateVars, requestVars, proc, monVars>>

\* graceful_shutdown of everything that was drained.
Reap ==
  /\ exitPc = "reaping"
  /\ exitPc' = "done"
  /\ \E survivors \in SUBSET (IF KillsMayFail THEN doomed ELSE {}) :
       proc' = [p \in Pids |-> IF p \in doomed \ survivors THEN NoInstance ELSE proc[p]]
  /\ UNCHANGED <<doomed, signal, stateVars, requestVars, monVars>>

\* A process ends, by itself or because somebody signalled it.
ProcessExits(p) ==
  /\ proc[p] # NoInstance
  /\ proc' = [proc EXCEPT ![p] = NoInstance]
  /\ UNCHANGED <<stateVars, requestVars, monVars, exitVars>>

----------------------------------------------------------------------------
\* What a request in flight does by itself.
Proceed(r) ==
  \/ StartAdmit(r) \/ RestartAdmit(r)
  \/ StopDone(r) \/ StopFails(r) \/ RestartStopped(r)
  \/ Subscribe(r) \/ LaunchFails(r) \/ (\E p \in Pids : Spawn(r, p))
  \/ BootSucceeds(r) \/ BootExits(r) \/ BootCancelled(r)
  \/ LaunchGate(r) \/ Commit(r) \/ Rollback(r) \/ LateKill(r)
  \/ DropGuard(r)

\* What a client makes it do.
Call(r, i) == StartGate(r, i) \/ RestartGate(r, i) \/ StopAdmit(r, i) \/ AcquireGuard(r, i)

Monitor == MonitorSnapshot \/ MonitorEvaluate \/ MonitorApply
Exit    == Drain \/ SendShutdown \/ Reap

Next == \/ \E r \in Requests : Proceed(r) \/ HangUp(r)
        \/ \E r \in Requests, i \in Instances : Call(r, i)
        \/ \E p \in Pids : ProcessExits(p)
        \/ Monitor
        \/ Exit

Spec == Init /\ [][Next]_vars

\* A launch before its spawn and a guarded operation await pip, venv and uv without
\* a time limit, and without a look at the shutdown signal: such a child may hang.
ChildPcs == {"launching", "guard"}

\* The runtime polls every future it holds; everything but those children ends in
\* time (locks are short, a start waits 300 seconds, a stop has its deadlines), and
\* the monitor ticks for ever.  Nobody has to call, to press Ctrl-C, to exit or to
\* hang up.
Fairness == /\ \A r \in Requests : WF_vars(pc[r] \notin ChildPcs /\ Proceed(r))
            /\ WF_vars(Monitor)
            /\ WF_vars(SendShutdown \/ Reap)

FairSpec == Spec /\ Fairness
-----------------------------------------------------------------------------
(***************************************************************************)
(* Safety.                                                                 *)
(***************************************************************************)
HolderPcs == LaunchPcs \cup StopPcs \cup {"guard"}

\* Requests between taking the slot of i and giving it back.
Holders(i) == {r \in Requests : pc[r] \in HolderPcs /\ target[r] = i}

\* The phase the slot of a holder shows.
HolderPhase(k) == CASE k \in LaunchPcs -> "starting"
                    [] k \in StopPcs -> "stopping"
                    [] OTHER -> "guarded"

\* No two requests work on one instance at a time, whatever the interleaving of
\* starts, stops, restarts, guarded operations and hang-ups, and even while
\* launches that outlived the drain are still winding down.
OneHolder == \A r, s \in Requests :
  (pc[r] \in HolderPcs /\ pc[s] \in HolderPcs /\ target[r] = target[s]) => r = s

\* Until the application shuts down, the slot of an instance shows the phase of
\* the request that works on it, and a Stopping slot the process that request is
\* stopping: neither the monitor, nor a refused request, nor the end of another
\* request ever moves a slot from under its holder.
HolderKeepsSlot == \A r \in Requests :
  (pc[r] \in HolderPcs /\ ~shuttingDown) =>
    /\ slot[target[r]] = HolderPhase(pc[r])
    /\ pc[r] \in StopPcs => slotPid[target[r]] = rpid[r]

\* revert_stop take()s the slot before it matches it; it never meets a slot that
\* is not Stopping, so no entry is left with neither a slot nor a guard, which
\* would make its instance impossible to start.
NoHollowEntry == \A i \in Instances : slot[i] # "hollow"

\* Once the exit handler has drained the map nothing puts an entry back, although
\* launches, stops, restarts, guards and the monitor are still running then.
DrainIsFinal == shuttingDown => \A i \in Instances : slot[i] = "vacant"

\* A Stopping slot is given up, or handed to the second half of a restart, only
\* when its process is gone: a stop that failed never loses track of the process.
StoppedIsGone == [][\A i \in Instances :
    (slot[i] = "stopping" /\ slot'[i] \notin {"stopping", "live"} /\ ~shuttingDown')
      => Dead(slotPid[i])]_vars

\* The monitor forgets a process only if it has died (monitor.rs:35), or has come to
\* its slot since the snapshot that the verdict is about: a verdict is applied by
\* instance id and may hit a process started while the poll was under way.
ForgottenIsDead == [][\A i \in Instances :
    (slot[i] = "live" /\ slot'[i] = "vacant" /\ ~shuttingDown')
      => Dead(slotPid[i]) \/ slotPid[i] # monSnap[i]]_vars

Held == [i \in Instances |-> Holders(i)]

Lifecycle == INSTANCE InstanceLifecycle
               WITH Operations <- Requests, phase <- slot, holders <- Held,
                    down <- shuttingDown

\* The slot map implements the per-instance lock of InstanceLifecycle: every block
\* under the mutex is one of its steps or leaves its state alone.
ImplementsLifecycle == Lifecycle!Spec

-----------------------------------------------------------------------------
(***************************************************************************)
(* What the sources say of the program and the program does not do.        *)
(***************************************************************************)
\* process/manager.rs:131-134, on a Starting slot that the drain drops: "(async
\* task will handle cleanup)".  When the exit handler is done and no request is
\* in flight, no process is left running.
LateLaunchCleanedUp ==
  (exitPc = "done" /\ \A r \in Requests : pc[r] = "idle") =>
     \A p \in Pids : Dead(p)

-----------------------------------------------------------------------------
(***************************************************************************)
(* Liveness, under FairSpec and without hang-ups.                          *)
(***************************************************************************)

\* An instance stays Starting, Stopping or guarded only as long as one request
\* waits for a child: nothing else keeps it from being started, stopped or changed.
TransientResolves == \A i \in Instances :
  slot[i] \in Lifecycle!Transient ~>
    \/ slot[i] \notin Lifecycle!Transient
    \/ \E r \in Requests : [](pc[r] \in ChildPcs /\ target[r] = i)

\* A Live slot whose process has died does not stay: the monitor removes it,
\* unless somebody stops the instance first.
DeadIsForgotten == \A i \in Instances :
  slot[i] = "live" /\ Dead(slotPid[i]) ~> ~(slot[i] = "live" /\ Dead(slotPid[i]))

\* After a shutdown every launch, stop, restart and guarded operation in flight
\* comes to its end, also a launch that subscribed too late to hear the signal,
\* except those that wait for a child.
ShutdownQuiesces ==
  shuttingDown ~> [](\A r \in Requests : pc[r] \in HolderPcs => pc[r] \in ChildPcs)
=============================================================================
