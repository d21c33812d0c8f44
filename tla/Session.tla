------------------------------ MODULE Session ------------------------------
(***************************************************************************)
(* The session: with the setting persist_instance_state on, the manager    *)
(* writes down on Ctrl-C which instances are active (lib.rs) and starts    *)
(* them when it comes up again (setup.rs).  Under systemd, where the page  *)
(* restarts and stops it, it ends by SIGTERM (commands.rs).                *)
(*                                                                         *)
(* The slots are those of ProcessManager, seen by one operation at a time. *)
(***************************************************************************)
CONSTANT Instances   \* instances that may exist

VARIABLES
  slot,        \* slot[i] of the process manager; "restarting" is the Stopping
               \* half of a restart
  app,         \* where the manager's process is: "up", "noted" (Ctrl-C: the ids
               \* are collected), "saved" (and written), "drained", "down"
  ids,         \* what the Ctrl-C handler has collected
  registered,  \* AppManifest::instances
  tracked,     \* AppManifest::tracked_instances_snapshot
  persist,     \* AppConfig::persist_instance_state
  queue,       \* instances whose restoring task has not called start_instance
  off,         \* history: instances a user stopped before any Ctrl-C
               \* and has not started again
  closed,      \* history: instances live when the manager was asked to stop
  leftover     \* history: tracked is left over by a boot that did not clear it

process     == <<slot, queue>>
stored      == <<registered, tracked, persist>>
history     == <<off, closed, leftover>>
sessionVars == <<process, app, ids, stored, history>>

Phases  == {"vacant", "starting", "live", "stopping", "restarting"}
Serving == {"up", "noted", "saved", "drained"}

SessionTypeOK ==
  /\ slot \in [Instances -> Phases]
  /\ app \in Serving \cup {"down"}
  /\ ids \subseteq Instances /\ (ids # {} => app \in {"noted"})
  /\ registered \subseteq Instances /\ tracked \subseteq Instances
  /\ queue \subseteq Instances /\ persist \in BOOLEAN
  /\ off \subseteq Instances /\ closed \subseteq Instances /\ leftover \in BOOLEAN
  /\ app \in {"drained", "down"} => \A i \in Instances : slot[i] = "vacant"
  /\ app = "down" => queue = {}

SessionInit ==
  /\ slot = [i \in Instances |-> "vacant"] /\ app = "up" /\ ids = {}
  /\ registered \in SUBSET Instances /\ tracked = {} /\ persist \in BOOLEAN
  /\ queue = {} /\ off = {} /\ closed = {} /\ leftover = FALSE

----------------------------------------------------------------------------
(***************************************************************************)
(* Requests on instances.  After the drain nothing starts.                 *)
(***************************************************************************)
Move(i, from, to) == slot[i] = from /\ slot' = [slot EXCEPT ![i] = to]

Start(i) ==
  /\ app \in Serving \ {"drained"} /\ i \in registered
  /\ Move(i, "vacant", "starting")
  /\ off' = off \ {i}
  /\ UNCHANGED <<queue, app, ids, stored, closed, leftover>>

\* A launch comes to an end; an instance whose entry is gone cannot be launched.
Launched(i) ==
  /\ Move(i, "starting", "vacant") \/ (i \in registered /\ Move(i, "starting", "live"))
  /\ UNCHANGED <<queue, app, ids, stored, history>>

StopOrRestart(i) ==
  /\ app \in Serving \ {"drained"}
  /\ Move(i, "live", "stopping") \/ Move(i, "live", "restarting")
  /\ UNCHANGED <<queue, app, ids, stored, history>>

\* The process is gone, or survives.
Stopped(i) ==
  /\ \/ Move(i, "stopping", "vacant") /\ off' = off \cup (IF app = "up" THEN {i} ELSE {})
     \/ Move(i, "stopping", "live") /\ UNCHANGED off
  /\ UNCHANGED <<queue, app, ids, stored, closed, leftover>>

Restarted(i) ==
  /\ Move(i, "restarting", "starting") \/ Move(i, "restarting", "live")
  /\ UNCHANGED <<queue, app, ids, stored, history>>

\* The process ends by itself and the monitor forgets it.
Exits(i) ==
  /\ Move(i, "live", "vacant")
  /\ UNCHANGED <<queue, app, ids, stored, history>>

----------------------------------------------------------------------------
(***************************************************************************)
(* Requests on what is stored.  The server goes on serving after Ctrl-C.   *)
(***************************************************************************)
SavePersist ==
  /\ app # "down" /\ persist' = ~persist
  /\ UNCHANGED <<process, app, ids, registered, tracked, history>>

Create(i) ==
  /\ app # "down" /\ i \notin registered /\ registered' = registered \cup {i}
  /\ UNCHANGED <<process, app, ids, tracked, persist, history>>

\* Under a guard.  The list of tracked instances is not touched.
Delete(i) ==
  /\ app # "down" /\ i \in registered /\ slot[i] = "vacant"
  /\ registered' = registered \ {i}
  /\ UNCHANGED <<process, app, ids, tracked, persist, history>>

\* A rebuild of the manifest drops whatever it does not recognise.
RebuildManifest ==
  /\ app # "down" /\ \A i \in Instances : slot[i] \notin {"starting", "live"}
  /\ registered' \in SUBSET registered
  /\ tracked' = tracked \cap registered'
  /\ UNCHANGED <<process, app, ids, persist, history>>

----------------------------------------------------------------------------
(***************************************************************************)
(* The end and the beginning of the manager's process.                     *)
(***************************************************************************)
\* get_active_ids leaves out what is stopping.
Active == {i \in Instances : slot[i] \in {"live", "starting"}}

\* Ctrl-C: with the setting on, the handler collects the active instances; with
\* the setting off, or not to be read, it goes on without.
CtrlC ==
  /\ app = "up"
  /\ \/ persist /\ app' = "noted" /\ ids' = Active
     \/ app' = "saved" /\ UNCHANGED ids
  /\ UNCHANGED <<process, stored, history>>

\* It writes them into the manifest, where a failure is ignored, ...
SaveTracked ==
  /\ app = "noted" /\ app' = "saved"
  /\ ids' = {}
  /\ \/ tracked' = ids /\ leftover' = FALSE
     \/ UNCHANGED <<tracked, leftover>>
  /\ UNCHANGED <<process, registered, persist, off, closed>>

StopAll_KeepsSlots ==
  /\ app = "saved" /\ app' = "drained"
  /\ UNCHANGED <<process, ids, stored, history>>

\* ... and stops everything.  The process itself does not end.
StopAll ==
  /\ app = "saved" /\ app' = "drained"
  /\ slot' = [i \in Instances |-> "vacant"]
  /\ UNCHANGED <<queue, ids, stored, history>>

Ends == /\ app' = "down" /\ ids' = {}
        /\ slot' = [i \in Instances |-> "vacant"] /\ queue' = {}

\* restart_manager, stop_manager: systemctl, so SIGTERM, which nothing handles.
StopManager ==
  /\ app # "down" /\ Ends
  /\ closed' = IF app = "up" THEN {i \in Instances : slot[i] = "live"} ELSE {}
  /\ UNCHANGED <<stored, off, leftover>>

Crash ==
  /\ app # "down" /\ Ends /\ closed' = {}
  /\ UNCHANGED <<stored, off, leftover>>

\* The list has been used, and is no more.
UsesList == persist /\ queue' = tracked /\ tracked' = {} /\ leftover' = FALSE

\* The list stays: the manifest cannot be written, or, with the setting off or a
\* manifest that cannot be read, the list is not used.
LeavesList ==
  /\ (persist /\ queue' = tracked) \/ queue' = {}
  /\ UNCHANGED tracked /\ leftover' = (tracked # {})

Boot_KeepsList ==
  /\ app = "down" /\ app' = "up"
  /\ LeavesList \/ (persist /\ queue' = tracked /\ UNCHANGED tracked /\ leftover' = FALSE)
  /\ UNCHANGED <<slot, ids, registered, persist, off, closed>>

\* on_setup, before the server listens: one task per tracked instance, and the
\* list is cleared.
Boot ==
  /\ app = "down" /\ app' = "up"
  /\ LeavesList \/ UsesList
  /\ UNCHANGED <<slot, ids, registered, persist, off, closed>>

\* A restoring task calls start_instance, which may refuse.
Restore(i) ==
  /\ i \in queue /\ queue' = queue \ {i}
  /\ IF slot[i] = "vacant" /\ app # "drained"
       THEN slot' = [slot EXCEPT ![i] = "starting"] /\ off' = off \ {i}
       ELSE UNCHANGED <<slot, off>>
  /\ UNCHANGED <<app, ids, stored, closed, leftover>>

----------------------------------------------------------------------------
Instance(i) == \/ Start(i) \/ Launched(i) \/ StopOrRestart(i) \/ Stopped(i) \/ Restarted(i)
               \/ Exits(i) \/ Create(i) \/ Delete(i) \/ Restore(i)

ManagerProcess == \/ SavePersist \/ RebuildManifest
           \/ CtrlC \/ SaveTracked \/ StopAll \/ StopManager \/ Crash \/ Boot

SessionNext == ManagerProcess \/ \E i \in Instances : Instance(i)

SessionSpec == SessionInit /\ [][SessionNext]_sessionVars
-----------------------------------------------------------------------------
(***************************************************************************)
(* Properties.                                                             *)
(***************************************************************************)
Boots == app = "down" /\ app' = "up"

\* An instance that a user has stopped does not come back by itself, however many
\* Ctrl-Cs, crashes and restarts of the manager follow: each list is used once.
\* Excepted is a stop that races the Ctrl-C, and a list left over by a boot that
\* could not clear it or found the setting off, which a later boot uses.
StoppedStaysOff == [][Boots => leftover \/ queue' \cap off = {}]_sessionVars

\* GeneralSettingsCard.tsx:62, of the setting: "when enabled, the running instances
\* are recorded when the application is closed, and restored at the next start", of
\* a boot that reads and writes its manifest.
SessionComesBack == [][Boots /\ persist /\ ~leftover' => closed \cap registered \subseteq queue']_sessionVars
=============================================================================
