--------------------------- MODULE ProcessControl ---------------------------
(***************************************************************************)
(* process/control.rs over process/libc_api.rs: ending processes by PID.   *)
(* A call of shutdown_instance ("stop", one target), of stop_all_blocking  *)
(* ("exit", any targets) or of launch_instance from the spawn on           *)
(* ("launch", one child) runs beside the operating system: processes       *)
(* exit, become zombies, are reaped, and their PIDs are given to others.   *)
(* Every look at a process and every signal is a step of its own.          *)
(***************************************************************************)
EXTENDS Naturals

CONSTANTS
  Pids,     \* process identifiers
  MaxGen,   \* bound: how often a PID is given to another process
  MaxTry    \* bound: reads of a child's path before it is given up (10)

ASSUME ControlAssumption ==
  MaxGen \in Nat /\ MaxTry \in Nat \ {0} /\ "none" \notin Pids

Paths == {"own", "other"}   \* the recorded executable path, any other

VARIABLES
  proc,       \* [pid -> the process that has it: generation, path, state]
  stubborn,   \* PIDs whose first process ignores SIGINT
  dark,       \* PIDs whose /proc/<pid>/exe may fail to be read
  call,       \* "stop", "exit" or "launch"
  targets,    \* the PIDs of the call
  pc,         \* where the call is
  todo,       \* targets the present pass has still to look at
  failed,     \* targets the SIGINT could not be sent to
  aim,        \* the process just identified, to be struck next; or NoAim
  late,       \* GRACEFUL_SHUTDOWN_TIMEOUT has passed
  tries,      \* failed reads of the child's path
  verdict     \* what the call answered

controlVars == <<proc, stubborn, dark, call, targets, pc, todo, failed, aim,
                 late, tries, verdict>>
callVars == <<stubborn, dark, call, targets>>

NoAim == [pid |-> "none", gen |-> 0]
Aims == {NoAim} \cup [pid : Pids, gen : 0..MaxGen]

\* A target's own process: the one the launcher started under that PID.
Original(p) == proc[p].gen = 0

\* kill(pid, 0): a zombie still has its PID.
IsProcessAlive(p) == proc[p].st # "gone"

\* check_executable_path_match: a zombie has no /proc/<pid>/exe.
Verdicts(p) ==
  LET read == IF proc[p].exe = "own" THEN "match" ELSE "mismatch"
  IN  IF proc[p].st \in {"zombie", "gone"} THEN {"unknown"}
      ELSE {read} \cup (IF p \in dark THEN {"unknown"} ELSE {})

ExpectedAlive_UnknownIsDead(p) == {IsProcessAlive(p) /\ v = "match" : v \in Verdicts(p)}

\* The answers is_expected_process_alive may give: unknown counts as alive.
ExpectedAlive(p) ==
  {IsProcessAlive(p) /\ v # "mismatch" : v \in Verdicts(p)}

CanSignal_UnlessMismatch(p) == {IsProcessAlive(p) /\ v # "mismatch" : v \in Verdicts(p)}

\* The answers can_signal_expected_process may give: unknown is no licence.
CanSignal(p) == {IsProcessAlive(p) /\ v = "match" : v \in Verdicts(p)}

ControlInit ==
  /\ proc = [p \in Pids |-> [gen |-> 0, exe |-> "own", st |-> "running"]]
  /\ stubborn \in SUBSET Pids /\ dark \in SUBSET Pids
  /\ call \in {"stop", "exit", "launch"}
  /\ targets \in (SUBSET Pids) \ {{}}
  /\ call # "exit" => \E p \in Pids : targets = {p}
  /\ pc = "idle"
  /\ todo = targets
  /\ failed = {} /\ aim = NoAim /\ late = FALSE /\ tries = 0
  /\ verdict = "none"
-----------------------------------------------------------------------------
(* The operating system.                                                   *)

SetState(p, s) == proc' = [proc EXCEPT ![p].st = s]

OsOnly == UNCHANGED <<callVars, pc, todo, failed, aim, late, tries, verdict>>

\* A process ends by itself, because it obeys SIGINT, or by SIGKILL.
Exit(p) ==
  /\ proc[p].st \in {"running", "ending", "killed"}
  /\ SetState(p, "zombie")
  /\ OsOnly

\* Its parent waits for it: for a child of the launcher a task of
\* launch_instance, which is not there before the path is resolved.
Reap(p) ==
  /\ proc[p].st = "zombie"
  /\ call = "launch" /\ pc \in {"idle", "resolve"} => p \notin targets
  /\ SetState(p, "gone")
  /\ OsOnly

\* The system gives a free PID to a new process.
Reuse(p) ==
  /\ proc[p].st = "gone" /\ proc[p].gen < MaxGen
  /\ \E e \in Paths :
       proc' = [proc EXCEPT ![p] = [gen |-> @.gen + 1, exe |-> e, st |-> "running"]]
  /\ OsOnly

\* kill(pid, SIGINT), to whoever has the PID.
Interrupt(p) ==
  IF proc[p].st # "running" \/ (Original(p) /\ p \in stubborn)
  THEN proc' = proc ELSE SetState(p, "ending")

\* The process group of the PID is sent SIGKILL.
Kill(p) ==
  IF proc[p].st \in {"running", "ending"} THEN SetState(p, "killed")
  ELSE proc' = proc
-----------------------------------------------------------------------------
(* graceful_shutdown.                                                      *)

\* The call: a list of targets to be ended, or a child just spawned.
BeginCall ==
  /\ pc = "idle"
  /\ pc' = IF call = "launch" THEN "resolve" ELSE "signal"
  /\ UNCHANGED <<proc, callVars, todo, failed, aim, late, tries, verdict>>

\* Where an emptied pass leads.
AfterSignal == [pc |-> "force_failed", todo |-> failed]
AfterForceFailed ==
  IF targets = failed THEN [pc |-> "answer", todo |-> {}]
  ELSE [pc |-> "first", todo |-> targets \ failed]
AfterPoll == [pc |-> "answer", todo |-> {}]

GoTo(next) == pc' = next.pc /\ todo' = next.todo

\* A pass that has looked at every target goes on to the next one.
EndPass ==
  /\ todo = {} /\ aim = NoAim
  /\ \/ pc = "signal" /\ GoTo(AfterSignal)
     \/ pc = "force_failed" /\ GoTo(AfterForceFailed)
     \/ pc \in {"first", "poll", "force_rest"} /\ GoTo(AfterPoll)
  /\ UNCHANGED <<proc, callVars, failed, aim, late, tries, verdict>>

\* The identity check before a signal: the target is aimed at or passed over.
Verify(p) ==
  /\ pc \in {"signal", "force_failed", "force_rest"}
  /\ aim = NoAim /\ p \in todo
  /\ \E ok \in CanSignal(p) :
       aim' = IF ok THEN [pid |-> p, gen |-> proc[p].gen] ELSE NoAim
  /\ todo' = todo \ {p}
  /\ UNCHANGED <<proc, callVars, pc, failed, late, tries, verdict>>

\* graceful_signal; another user's process, or none, makes it fail.
GracefulSignal ==
  LET p == aim.pid IN
  /\ pc = "signal" /\ aim # NoAim
  /\ \/ /\ IsProcessAlive(p)
        /\ Interrupt(p) /\ failed' = failed
     \/ /\ ~IsProcessAlive(p) \/ ~Original(p)
        /\ proc' = proc /\ failed' = failed \cup {p}
  /\ aim' = NoAim
  /\ UNCHANGED <<callVars, pc, todo, late, tries, verdict>>

\* force_kill, of a target identified in this pass.
ForceKill ==
  /\ pc \in {"force_failed", "force_rest"} /\ aim # NoAim
  /\ \/ Kill(aim.pid)
     \/ ~Original(aim.pid) /\ proc' = proc
  /\ aim' = NoAim
  /\ UNCHANGED <<callVars, pc, todo, failed, late, tries, verdict>>

\* The pass over the signalled targets is at its start.
PassStart == todo = targets \ failed

\* One target of a pass is looked at; one alive ends the pass, and the clock
\* runs from the end of the first.
Poll(p) ==
  /\ pc \in {"first", "poll"} /\ p \in todo
  /\ PassStart => ~late
  /\ \E alive \in ExpectedAlive(p) :
       IF alive THEN pc' = "poll" /\ todo' = targets \ failed
       ELSE pc' = pc /\ todo' = todo \ {p}
  /\ UNCHANGED <<proc, callVars, failed, aim, late, tries, verdict>>

\* GRACEFUL_SHUTDOWN_TIMEOUT passes.
Deadline ==
  /\ pc = "poll" /\ ~late
  /\ late' = TRUE
  /\ UNCHANGED <<proc, callVars, pc, todo, failed, aim, tries, verdict>>

GiveUpWaiting_Answers ==
  /\ pc = "poll" /\ late /\ PassStart
  /\ pc' = "answer"
  /\ UNCHANGED <<proc, callVars, todo, failed, aim, late, tries, verdict>>

\* No new pass after the deadline: the rest is killed.
GiveUpWaiting ==
  /\ pc = "poll" /\ late /\ PassStart
  /\ pc' = "force_rest"
  /\ UNCHANGED <<proc, callVars, todo, failed, aim, late, tries, verdict>>

\* shutdown_instance looks once more and answers; stop_all_blocking does not.
Answer ==
  /\ pc = "answer"
  /\ \/ call = "exit" /\ verdict' = "ok"
     \/ /\ call = "stop"
        /\ \E p \in targets : \E alive \in ExpectedAlive(p) :
             verdict' = IF alive THEN "err" ELSE "ok"
  /\ pc' = "done"
  /\ UNCHANGED <<proc, callVars, todo, failed, aim, late, tries>>
-----------------------------------------------------------------------------
(* launch_instance, from the spawned child to the answer.                  *)

\* resolve_child_executable_path: one read of the child's path.
ResolvePath(p) ==
  /\ pc = "resolve" /\ p \in targets /\ tries < MaxTry
  /\ \E v \in Verdicts(p) :
       IF v = "unknown" THEN tries' = tries + 1 /\ pc' = pc
       ELSE tries' = tries /\ pc' = "startup"
  /\ UNCHANGED <<proc, callVars, todo, failed, aim, late, verdict>>

\* Too many: the child is killed through its handle and waited for.
KillUnresolved(p) ==
  /\ pc = "resolve" /\ p \in targets /\ tries = MaxTry
  /\ SetState(p, "gone")
  /\ pc' = "done" /\ verdict' = "err"
  /\ UNCHANGED <<callVars, todo, failed, aim, late, tries>>

\* The log says the start is complete, or the child is waited for before it.
StartupEnds(p) ==
  /\ pc = "startup" /\ p \in targets
  /\ \/ verdict' = "ok"
     \/ (~Original(p) \/ proc[p].st = "gone") /\ verdict' = "err"
  /\ pc' = "done"
  /\ UNCHANGED <<proc, callVars, todo, failed, aim, late, tries>>

\* Timeout or shutdown: the child is looked at once, and killed if identified.
CancelCheck(p) ==
  /\ pc = "startup" /\ p \in targets
  /\ \E ok \in CanSignal(p) :
       \/ ok /\ aim' = [pid |-> p, gen |-> proc[p].gen] /\ pc' = "cancel"
             /\ verdict' = verdict
       \/ ~ok /\ aim' = NoAim /\ pc' = "done" /\ verdict' = "err"
  /\ UNCHANGED <<proc, callVars, todo, failed, late, tries>>

CancelKill ==
  /\ pc = "cancel"
  /\ \/ Kill(aim.pid)
     \/ ~Original(aim.pid) /\ proc' = proc
  /\ aim' = NoAim /\ pc' = "done" /\ verdict' = "err"
  /\ UNCHANGED <<callVars, todo, failed, late, tries>>
-----------------------------------------------------------------------------
CallStep ==
  \/ EndPass \/ GracefulSignal \/ ForceKill \/ GiveUpWaiting \/ Answer \/ CancelKill
  \/ \E p \in Pids : Verify(p) \/ Poll(p) \/ ResolvePath(p) \/ KillUnresolved(p)
                     \/ StartupEnds(p) \/ CancelCheck(p)

ControlNext ==
  \/ BeginCall \/ CallStep \/ Deadline
  \/ \E p \in Pids : Exit(p) \/ Reap(p) \/ Reuse(p)

ControlSpec == ControlInit /\ [][ControlNext]_controlVars
-----------------------------------------------------------------------------
\* The types.
ControlTypeOK ==
  /\ proc \in [Pids -> [gen : 0..MaxGen, exe : Paths,
                        st : {"running", "ending", "killed", "zombie", "gone"}]]
  /\ stubborn \subseteq Pids /\ dark \subseteq Pids
  /\ call \in {"stop", "exit", "launch"} /\ targets \subseteq Pids
  /\ pc \in {"idle", "signal", "force_failed", "first", "poll", "force_rest",
             "answer", "resolve", "startup", "cancel", "done"}
  /\ todo \subseteq targets /\ failed \subseteq targets /\ aim \in Aims
  /\ late \in BOOLEAN /\ tries \in 0..MaxTry /\ verdict \in {"none", "ok", "err"}

\* shutdown_instance answers Ok only when the instance's own process is gone:
\* neither a failed read of its path nor its being a zombie hides it
\* (lifecycle.rs:461-479).
StopMeansGone ==
  call = "stop" /\ verdict = "ok" =>
    \A p \in targets : ~Original(p) \/ proc[p].st = "gone"

\* A process that is not the instance's is struck only if it runs the very
\* executable or took the PID after the identity check: of the other programs
\* none that the check looked at is ever signalled (control.rs:136-155).
StrangersSpared ==
  [][\A p \in Pids :
       proc[p].exe = "other" /\ proc'[p].st \in {"ending", "killed"}
         /\ proc'[p].st # proc[p].st
       => aim.pid = p /\ aim.gen < proc[p].gen]_controlVars

\* Stop and exit end every target: when the call is over, one whose path could
\* always be read has exited or was sent SIGKILL, however it takes SIGINT, and
\* whatever became of the other targets (control.rs:272-330).
NoneEscapes ==
  call # "launch" /\ pc \in {"answer", "done"} =>
    \A p \in targets \ dark :
      ~Original(p) \/ proc[p].st \in {"killed", "zombie", "gone"}
-----------------------------------------------------------------------------
\* "On failure, cleans up (kills child if spawned)." (lifecycle.rs:215-216): when
\* a launch has failed, the child it spawned is not left running.
FailuresCleanUp ==
  call = "launch" /\ verdict = "err" =>
    \A p \in targets : ~(Original(p) /\ proc[p].st \in {"running", "ending"})
=============================================================================
