# Verification of the AstrBot instance manager

AstrBot WebManager is a headless HTTP service (Rust, `src/src-tauri/src/`) that
installs AstrBot versions, deploys them as instances, runs each instance as a
Python process and lets a web front end (React, `src/src/`) drive it.  This
directory holds TLA+ models of it, the TLC configurations that check them and
TLAPS proofs about them.  Line numbers in the text refer to the files under `src/`.

1. [The system](#1-the-system)
2. [The models](#2-the-models)
3. [What is checked](#3-what-is-checked)
4. [What is proved](#4-what-is-proved)
5. [Where the code does something else than the sources say](#5-where-the-code-does-something-else-than-the-sources-say)
6. [Not modelled](#6-not-modelled)
7. [Plan](#7-plan)
8. [Running it](#8-running-it)

## 1. The system

One process: an axum server on a multi-threaded tokio runtime.  Every HTTP request
is a future of its own; handlers run in parallel and interleave at every await and
between any two lock acquisitions.  Shared state is (a) the slot map of the process
manager, under one mutex, (b) the manifest and the settings, two rows of an embedded
database changed by read-modify-write transactions, (c) the files under the data
directory, which nothing locks, and (d) the event bus.  When a client disconnects the
server drops the future of its handler at the await it is at.

| Component | State | Operations | Talks to | Hard to test | Correct when |
|---|---|---|---|---|---|
| Process manager (`process/manager.rs`) | slot per instance (Starting, Live, Stopping, guarded), `shutting_down`, shutdown watch channel | start, stop, restart, acquire/drop guard, commit/rollback of a launch, drain | launch and shutdown IO, monitor, exit handler | any order of operations on an instance; awaits between admission and commit; a drain in the middle; dropped handlers | one operation per instance at a time; a process that may live is tracked; transient slots resolve; nothing returns after the drain |
| Process monitor (`process/monitor.rs`) | failure counts, snapshot of live slots | poll: snapshot, evaluate unlocked, apply | manager | verdicts applied to what has changed since | only dead processes are forgotten, and all of them are |
| Launch and shutdown IO (`instance/lifecycle.rs`) | the child of a launch | deploy, spawn, wait for the startup line, cancel, graceful shutdown | deployment, process control | time limit, early exit and shutdown race | a launch that does not succeed leaves no process; the children of a deployment end |
| Process control (`process/control.rs`, `libc_api.rs`) | none | alive, signal, kill, identify by executable | the OS | PID reuse between check and kill | only the intended process is signalled |
| Exit handler and server (`lib.rs`, `main.rs`) | none | Ctrl-C, routing, SSE | manager, manifest | requests in flight at exit | everything is stopped |
| Upgrade, creation, deletion (`instance/crud.rs`) | instance directory, manifest | create, delete, update (six steps) | backups, deployment, manifest | failure or crash between any two steps | data survives; the manifest records what is deployed |
| Backups (`backup.rs`) | zip files | create (manual, automatic), restore, delete, find pending | instance directory, manifest | partial archives, deletion in mid-restore | an automatic backup outlives the need for it |
| Deployment and repair (`instance/deploy.rs`) | core directory, venv, preserve directories | extract, venv, dependencies, WebUI, preserve/restore | version store, components | an extraction that breaks off; a repair that is retried | the code that runs is complete; preserved data comes back |
| Version store (`download.rs`) | version zips, installed list | download with fallbacks, register, remove | manifest | two downloads of one version, removal during an upgrade | an installed version can be deployed; a version in use stays |
| Manifest and settings (`config.rs`) | two rows in redb | read, read-modify-write | everybody | checks made before the transaction | no update is lost |
| Manifest rebuild (`instance/rebuild.rs`) | none | scan disk, overwrite the manifest | manifest, versions, instances | operations between the scan and the overwrite | nothing healthy is dropped |
| Command layer (`commands.rs`) | HTTP client | guards, settings with checks, snapshot | all of the above | check, save and client replacement are three steps | settings and client agree |
| Session restore and events (`setup.rs`, `runtime.rs`, `lib.rs`) | tracked ids, broadcast channels | persist on Ctrl-C, restore, forward snapshots | manager, manifest, front end | lag, lists taken at a transient moment | the session comes back; clients converge |
| Front-end store (`useAppStore.ts`, `useOperationRunner.ts`) | view, request sequence numbers, operation counters | request snapshot, take pushed snapshot | HTTP, SSE | answers and pushes in any order | an older snapshot never replaces a newer one |
| Components (`component/`) | runtimes on disk | install, reinstall, uninstall Python, Node.js, uv; create an instance's environment | downloads, archives | failure halfway; two commands on one directory, without a lock | installed means usable |
| Migrations (`migration/`) | old layout, new layout | import the manifest, move runtimes, rewrite `pyvenv.cfg` | manifest, components | a start cut off between or in two migrations | nothing lost, runs once |
| Archives (`archive/`) | none | unpack zip and tar | components, backups, deployment | an archive that ends early | what is reported unpacked is complete |
| File manager (`file_manager.rs`) | upload parts | list, write, rename, delete, copy, move, chunked upload, compress | instance directory | no lock, no guard: requests, jobs and the instance interleave file by file; a copy meets its own source, or breaks off | what is reported done is done, but for what others touched, and it touches nothing else |
| Network and proxies (`network_config.rs`, `utils/proxy.rs`, `utils/net.rs`, `github.rs`) | release cache | build the client, variables for children, rewrite URLs | HTTP | three readings of the same variables | one setting leads everyone the same way |
| Lock check, Windows bindings, pages, scripts | none | | | | |

`PROJECT.json` has the same list with the source files of each part, its status, and
the list of hazards with the lines at which they bite.

## 2. The models

| Module | Models | Extends / instantiates |
|---|---|---|
| `InstanceLifecycle` | abstract: the slot of an instance as a lock with phases | |
| `ProcessManager` | manager, monitor, launch and shutdown IO, exit handler | instance of `InstanceLifecycle` |
| `MCProcessManager` | symmetry for TLC | `ProcessManager` |
| `ProcessManagerProofs` | theorems | `ProcessManager`, `TLAPS` |
| `InstanceFiles` | upgrade, repair, deployment, backups, starts: the files of one instance | |
| `MCInstanceFiles` | items and scopes for TLC | `InstanceFiles` |
| `InstanceFilesProofs` | theorems | `InstanceFiles`, `TLAPS` |
| `VersionRegistry` | manifest, archives of versions, rebuild | |
| `MCVersionRegistry` | symmetry for TLC | `VersionRegistry` |
| `VersionRegistryProofs` | theorems | `VersionRegistry`, `TLAPS` |
| `SnapshotSync` | runtime events, forwarder, event bus, SSE stream, front-end store | |
| `Session` | the session saved on Ctrl-C and restored at startup | |
| `MCLiveness` | manager and page side by side under their fairness, for TLC | `ProcessManager`, `SnapshotSync` |
| `ClientSessionProofs` | theorems | `SnapshotSync`, `Session`, `TLAPS` |
| `ProcessControl` | one call that ends processes by PID, beside the operating system | |
| `Network` | operators: which proxies the client and the children get | |
| `Settings` | the settings record, the commands that save it, the HTTP client | `Network` |
| `Components` | commands on Python, Node.js and uv, on the directories they share | |
| `PythonEnv` | the code and the virtual environment of one instance | |
| `ComponentsProofs` | theorems about both | `Components`, `PythonEnv`, `TLAPS` |
| `FileManager` | one instance's `core` under concurrent requests of the file page and other writers | |
| `Migrations` | a start of the launcher on the data of an older one | |
| `SettingsProofs` | theorems about what is stored | `Settings`, `Migrations`, `TLAPS` |
| `MCFileManager` | trees and lists of sources for TLC | `FileManager` |
| `FileManagerProofs` | theorems | `FileManager`, `TLAPS` |
| `MCLauncher` | seven parts side by side for TLC | `ProcessControl`, `Settings`, `Components`, `PythonEnv`, `Migrations`, `MCFileManager`, `Session` |
| `LauncherProofs` | theorems about process control, and about the seven together | `MCLauncher`, the modules of proofs about them, `TLAPS` |

The first two families meet at the slot: `ProcessManager` shows that at most one operation
works on an instance, and `InstanceFiles` takes that as its premise (one `kind` at a
time, begun only with `slot = "vacant"`).  The two things the code does without the
slot, the look for an automatic backup before a start and the deletion of a backup,
are separate actions there.  `VersionRegistry` and `Session` look at several instances
again, with the work of an operation reduced to the places where it reads or writes
the manifest; their slots follow the lock that `ProcessManager` shows to be sound.
`SnapshotSync` takes slots and manifest as two counters of changes.

The remaining modules each look at one call, record or directory that the first ones
take for granted.  `ProcessControl` is what `ProcessManager` has as one step
(`StopDone`, `StopFails`, `BootCancelled`, `LateKill`, `Reap`): its answers and its
leavings are the outcomes there.  `PythonEnv` follows the environment that `InstanceFiles`
leaves out through the same jobs, and `Components` the runtimes it links to.
`Settings` is the second row of the database, `Migrations` the two rows before the
first command, `FileManager` what several users do under `core` at once, beside jobs and
the instance: its handlers take no guard.

### ProcessManager

`slot[i]` and `slotPid[i]` are the entry of instance `i` in `ProcessState::slots`;
"hollow" is an entry with neither slot nor guard, which only a mistake could make.
A request `r` is a future: `pc[r]` is the await or the lock it is at, `rpid[r]` the pid
it remembers.  Each block under the mutex is one action, each piece of IO another.

| Code | Actions |
|---|---|
| `start_instance`, `restart_instance` | `StartGate`/`RestartGate` (backup look-up before the lock), `StartAdmit`/`RestartAdmit`, `RestartStopped` |
| `stop_instance` | `StopAdmit`, `StopDone`, `StopFails` |
| `launch_instance` | `Subscribe`, `LaunchFails`, `Spawn`, `BootSucceeds`, `BootExits`, `BootCancelled` |
| `launch_and_finalize` | `LaunchGate` (first lock), `Commit`, `Rollback` (second lock), `LateKill` |
| `acquire_guard`, `InstanceGuard::drop` | `AcquireGuard`, `DropGuard` |
| `poll_instances` | `MonitorSnapshot`, `MonitorEvaluate`, `MonitorApply` |
| `stop_all_blocking` | `Drain`, `SendShutdown`, `Reap` |
| the client disconnects | `HangUp` |
| a process ends | `ProcessExits` |

A watch receiver that subscribes after the value was sent considers it read, and
`changed()` never fires: `deaf` holds those requests.  A process that a request cannot
identify is not killed (`KillsMayFail`).  `ChildPcs` are the two places where a request
awaits children of a deployment, which have no time limit.  PIDs still mentioned anywhere are not reused.

### InstanceFiles

`core` is the code on disk (which version, how complete), `data` the items of
`core/data`, `backups` the readable backups, `kept` the preserve directories, `version`
the manifest's entry.  The job in flight is `kind`, `step` and what it remembers.  Each
step of the code that touches the disk is an action with two outcomes: done, or broken
off with any part of its effect on disk and the job over.  A crash in mid-step is a
failure followed by `Crash`; a disconnected client drops the job at its awaits
(`HangUp`).

| Code | Actions |
|---|---|
| `update_instance` | `UpdateBegin`, `UpdateBackup`, `UpdateClear`, `Extract`, `Sync`, `UpdateRestore`, `Webui`, `UpdateRecord` |
| `repair_instance` | `RepairBegin`, `RepairPreserve`, `RepairClear`, `Extract`, `Sync`, `RepairRestore`, `Webui` |
| start | `StartGate`, `StartAdmit`, `Extract`, `Sync`, `Webui`, `Launch` |
| backups | `CreateBackup`, `RestoreBegin`, `RestoreUnpack`, `RestoreAdopt`, `DeleteBackup` |
| `clear_instance_data` | `ClearData` |
| the instance | `InstanceWrites`, `InstanceStops` |

Abstractions: the venv (recreated whenever it is missing), the contents of the WebUI,
the wording of progress events.  Deleting an unresolved automatic backup by hand is a
switch (`UsersDeletePending`), off in the runs: the user then removes the only copy.

### VersionRegistry

`versionOf` and `installed` are the manifest, `zip` what each archive holds, `writer` the
download that truncated it last, `dirs` and `code` the instance directories and the
version of the code in them.  `pc[r]`, `who[r]` and `what[r]` are the next step of a
request, its instance and its version; `rbPc`, `rbZips` and `rbCode` the rebuild and what
it has scanned.  Every
`with_manifest_mut` is one action, since it runs under one mutex; the checks made
before it (`load_manifest`) and the file work between are actions of their own.

| Code | Actions |
|---|---|
| `download_version` | `DownloadBegin`, `DownloadOpens`, `DownloadWritten`, `DownloadFails`, `Register` |
| `remove_version` | `RemoveBegin` (no instance uses it), `RemoveUnlinks` |
| `create_instance`, `delete_instance` | `CreateBegin`, `CreateCommit` (looks again), `DeleteBegin`, `DeleteRemoves` |
| `update_instance` | `UpdateBegin`, `UpdateWipes`, `UpdateDeploys`, `UpdateRecords` |
| `restore_backup` | `RestoreBegin`, `RestoreUnpacks`, `RestoreAdopts` |
| start | `StartBegin`, `StartDeploys`, `InstanceStops` |
| `rebuild_instance_manifest` | `RebuildBegin`, `RebuildScansVersions`, `RebuildScansInstances`, `RebuildCommits` |
| the client, the manager | `HangUp`, `Crash` |

`Busy` is what the page does for the server: within one browser a version is downloaded
or removed by one request at a time.  The deletion of a file may fail; the code ignores
that for some files, and so does the model.

### SnapshotSync

A snapshot is a pair of numbers, how many changes of the manifest and of the slots it
has seen.  It is built in two reads, by the forwarder (`fw`) for every runtime event and
by the server for every request of the page (`req[q]`); between the two reads anything
may happen.  `events` counts the channel of runtime events, whose contents the
forwarder does not look at, `bus` is what the stream of this page has not delivered.
Both channels drop their oldest entry when full.  `seq`, `minValid` and `latest` are the
three numbers of `useAppStore.ts`.

| Code | Actions |
|---|---|
| a slot changes and the event is sent; the drain, which sends none | `RunChanges`, `Emit`, `DrainSilently` |
| `with_manifest_mut` | `ManifestChanges` (sends no event) |
| `spawn_event_forwarder` | `Receive`, `ForwardReads`, `ForwardEmits`, `ForwardFails` |
| `spawn_log_forwarder`, progress reports | `Log` |
| `EventSource`, `sse_handler` | `Connect`, `Disconnect`, `Deliver` (with `hydrateSnapshot`) |
| `loadSnapshot` | `Send`, `RequestReads`, `RequestAnswers`, `Arrive`, `RequestFails` |

### Session

`slot` with one operation at a time per instance, `registered`, `tracked` and `persist`
of the stored manifest and settings, `app` for how far the process of the manager has
come in its life.  Ctrl-C is three steps (`CtrlC`, `SaveTracked`, `StopAll`), between and
after which the server goes on serving: the process does not end.  It ends by
`StopManager` (`systemctl`, SIGTERM) or `Crash`, both of which take the instances with
them.  `Boot` starts a task per tracked instance (`queue`, `Restore`) and clears the list,
unless the manifest cannot be written (`LeavesList`).

### ProcessControl

`proc[p]` is the process that has the PID `p`: its generation, whether it runs the
recorded executable, its state up to the zombie and the free PID.  The operating system
moves by itself (`Exit`, `Reap`, `Reuse`).  `pc` and `todo` are the pass of
`graceful_shutdown` and the targets it has not looked at; an identity check (`Verify`)
sets `aim`, the signal that follows is another step and strikes whoever has the PID by
then.  A look at `/proc/<pid>/exe` may fail for the PIDs in `dark`.

| Code | Actions |
|---|---|
| `graceful_shutdown` | `BeginCall`, `Verify`, `GracefulSignal`, `ForceKill`, `EndPass`, `Poll`, `Deadline`, `GiveUpWaiting` |
| `shutdown_instance`, `stop_all_blocking` | `Answer` |
| `launch_instance` from the spawn on | `ResolvePath`, `KillUnresolved`, `StartupEnds`, `CancelCheck`, `CancelKill` |

### Settings and Network

`Network` has the precedence of proxy settings as operators: the settings, then the
environment (whose variables are re-sorted by scheme), mainland mode above both; the
client that results (`ClientOf`) and the variables of a child (`ChildEnv`).  Addresses
are members of three sets: http, socks, refused.  `saves[c]` is a command of a client
between its check, its transaction and `replace_client`; `overtaken` records that two
replacements crossed.

| Code | Actions |
|---|---|
| `run`, a kill of the manager | `StartLauncher`, `LauncherKilled` |
| the `save_*` commands | `BeginSave`, `CheckUrl`, `CommitSetting`, `ReplaceClient` |
| `apply_uv_fallback` in a snapshot | `BeginSnapshot`, `SnapshotUv`, `PersistUvFallback` |
| a component command | `UvComesOrGoes` |

### Components and PythonEnv

`inDir[d]` is what a component's directory holds: of the program's files the one that is
looked for and the rest, the archive, or nothing.  Commands interleave file by file.

| Code | Actions |
|---|---|
| `install_component`, `reinstall_component`, `uninstall_component` | `BeginInstall`, `BeginReinstall`, `BeginUninstall`, `RemoveDir` |
| `install_from_archive_with_progress`, `download_file` | `LookUpAsset`, `MakeEmptyDir`, `CreateArchive`, `ReceiveArchive`, `DownloadFailsEarly` |
| `extract_tar_gz_flat`, the check at the end | `OpenArchive`, `UnpackFile`, `RemoveArchive`, `FindPrograms` |
| the client, the manager | `ComponentHangUp`, `ComponentsKilled` |

In `PythonEnv`, `coreOf` and `venv` say of which version and of which Python the code and
the environment are, and whether whole; `unrepaired` is a history variable: a torn
removal, a torn extraction or a restored backup that no job has put right since.

| Code | Actions |
|---|---|
| start | `BeginStart`, `ExtractCode`, `CreateVenv`, `SyncDependencies`, `EndJob` |
| `update_instance`, `repair_instance` | `BeginRedeployment`, `ClearBoth`, and the four above |
| `clear_instance_venv` | `ClearVenv` |
| `restore_backup`, component commands, a kill | `RestoreBackup`, `RuntimesChange`, `EnvKilled` |

### Migrations

`at` is where a start of the launcher is; `MigrationsEnd` ends it or the launcher at any
place.  `toml` is what the legacy files list, `record` and `settings` the two rows,
`oldDir`, `newDir` and `home` the runtimes in either place and the place the environments
name.  Four history variables state the properties: `wanted`, `movable`, `lost`, `stuck`.

| Code | Actions |
|---|---|
| `config_manifest::run` | `InspectRecords`, `ImportConfig`, `ImportManifest` |
| `component_python::run` | `MoveRuntime`, `RewriteVenvs` |
| `load_or_init` | `LoadRecords` |
| before, after and between starts | `BootMigrations`, `UserEdits`, `ComponentChanges`, `MigrationsEnd` |

### FileManager

`fs` is the tree below `core`, a function from paths to "none", "dir" or contents.
A request on one path is one action.  One on a list is a call in `change[r]`: it goes
source by source, a copy entry by entry with its recursion as a stack, and each step may
fail.  No handler takes a lock or a guard, so calls interleave at every step, and
`Outside` is everybody else: the instance, its jobs (which may take `core` away and bring
it back) and users of the machine.  A history variable `known[r]` says, for the present
source of a copy, what each path held when it was begun, or "touched" if anyone but the
call has changed it since: the properties are about what nobody else touches.

| Code | Actions |
|---|---|
| `file_content_post`, `file_mkdir`, `file_rename` | `WriteContent`, `MakeDirectory`, `RenamePath` |
| `file_delete`, `file_move` | `BeginMany`, `DeletePart`, `DeleteSource`, `MoveSource`, `EndChange` |
| `file_copy`, `copy_dir_recursive` | `BeginMany`, `CopySource`, `CopyEntry` (both may `Enter` or meet `CopyFails`), `CopyReturns`, `EndChange` |
| anybody else | `Outside` |

## 3. What is checked

| Run | Question | Properties | Size |
|---|---|---|---|
| `manager_safety` | Is the slot map a sound lock per instance, with the monitor, an exit, hang-ups and failing kills? | `TypeOK`, `OneHolder`, `HolderKeepsSlot`, `NoHollowEntry`, `DrainIsFinal`, `StoppedIsGone`, `ForgottenIsDead`, `ImplementsLifecycle` | 2 instances, 3 requests, 3 pids, symmetric: 344,564 states |
| `manager_liveness` | Does everything that is begun end, and the page on the truth? | `TransientResolves`, `DeadIsForgotten`, `ShutdownQuiesces` (manager); `SyncTypeOK`, `CurrentWhenQuiet`, `AnswersFollowPushes`, `RuntimeConverges` (page) | 1 instance, 2 requests, 3 pids, no symmetry; 2 loads, 2 changes of slots, 1 of the manifest, capacities 1 and 2: 505,858 states |
| `instance_files` | Does the data survive every failure, and does every job end? | `TypeOK`, `OnePending`, `LostOnRequestOnly`, `SavedUntilBack`, `RecordedWhenComplete`, `JobEnds` | 2 versions, 2 items, 2 backups: 543,000 states |
| `version_registry` | Which step may leave the manifest naming what is not there? | `TypeOK`, `StaysClosed`, `StaysWhole` | 1 instance, 2 versions, 3 requests, a rebuild, symmetric: 1,312,344 states |
| `launcher` | Does each of these seven parts keep its promise through failures, kills and interleavings? | `LauncherTypeOK`; `StopMeansGone`, `NoneEscapes`, `StrangersSpared` (process control); `ClientFollowsSettings`, `EnvironmentRespected`, `StaysBuildable`, `SavesKeepOthers` (settings); `AllOkMeansWhole` (components); `RepairsHeal` (environments); `InstancesArrive`, `VenvsFollow` (migrations); `CopiedIsThere` (files); `StoppedStaysOff` (session) | see below: 1,590,660 states |
| `late_launch`, `half_extracted`, `repair_retry`, `version_in_use`, `session_lost`, `copy_onto_itself`, `left_child` | Section 5 | one each, violated | small |

Why the bounds are enough.  The mutex couples only requests on the same instance, so
two instances show independence and three requests give every pair of conflicting
operations plus one that comes between.  Three pids let a stopped, a dying and a new
process of one instance exist at once while the monitor still remembers the first.
Requests are reused, so histories are not limited to three calls.  For the files, two
versions make an upgrade and a downgrade, two items distinguish "all", "some" and
"none" of the data, and with two backups an automatic and a manual one, or an
automatic one from a failed upgrade and a would-be second, exist together.  For the
registry, two versions let one be removed or downloaded while the instance is on, or
moves to, the other, and three requests put a removal between the two ends of another
operation; instances share nothing but the list of versions, so one is enough.
For the snapshots, a channel of one event and a bus of two entries overflow at once,
two requests arrive in either order, and a change of the manifest is enough to tell an
old view from a new one (`MaxMan`, `MaxRun`, `MaxSeq` bound the counters).  `MCLiveness`
runs the manager and the page in one search, in which a behaviour is of one or of the
other (`part`), so nothing is lost and the state space is the sum; the one that stands
still is in its initial state, where its fairness asks for nothing.  `MCLauncher` does
the same with seven modules; a part that does not move stands in one of its initial
states.  Its bounds: two PIDs, each given away once (`MaxGen`), so
that a target, a stranger and a second run of the same executable occur under one PID
beside another target; a path read at most twice (`MaxTry`; ten in the code, of which
only "some" and "too many" matter); two settings commands, which is what it takes to
cross; four environments of proxy variables, with a socks proxy for all, for one protocol
or for none; two commands on one component, a component's directories being no other's; two
releases of either Python, so that a version changes with and without its Python; paths
of at most three names out of two, two calls at once, and two requests or changes from
outside to a behaviour (`MaxChanges`), so that directories meet directories of the same
names and a copy meets another call, a writer or what one of them left; one legacy
instance, since files list instances independently of each other, and two legacy runtimes
as in the code; two instances in the session, which has no counters.
The proofs of section 4 do not depend on the bounds.

Every property of a passing run has a mutant: a definition `Name_Variant` next to the
one it could replace, a plausible slip of the code (a lost guard, an unchecked result,
a step at the wrong time) under which TLC finds the property violated.

Fairness.  `WF(pc[r] \notin ChildPcs /\ Proceed(r))`: the runtime polls every future it
owns, and the awaits of a request end, because the code bounds them (startup 300 s,
graceful shutdown 60 s, identity checks ten reads), with one exception.  The deployment
of a launch, an upgrade or a repair awaits `venv`, `pip` and `uv`
(`component/python.rs:163` and `205`, `component/uv.rs:82`) with no time limit, outside
the 300 s and without a look at the shutdown signal.  A child that hangs keeps the
request where it is, so nothing is assumed of the places in `ChildPcs`, and of `Sync` in
`InstanceFiles` (`WF(step # "sync" /\ Proceed)`; its downloads go through clients with
limits, `utils/net.rs:17` and `63`).  The liveness properties say that such a child is the
only way to stay: `TransientResolves` and `JobEnds`, that a slot is transient and a job
runs for ever only if one request waits for one child for ever; `ShutdownQuiesces`, that
after a shutdown only operations with a child are left.  `WF(Monitor)`: the poll loop
ticks for ever.  `WF(SendShutdown \/ Reap)`: the exit handler goes on once it has begun.
Nobody is obliged to call, to press Ctrl-C, to hang up or to exit.  In `SnapshotSync`,
`WF(Emit)`: who has changed a slot sends the event in the next statement;
`WF(Forwarder)`: its task loops for ever and each build ends, well or badly;
`WF(Deliver)`: a connected stream is polled and the browser runs its handlers.  The
stream need not reconnect, and no request need be sent or answered.  `manager_liveness`
assumes clients wait (`ClientsHangUp = FALSE`): the code does nothing about a client that
hangs up in mid-launch, whose slot stays Starting until the manager restarts.  The parts
of `launcher` are safety only.

`CurrentWhenQuiet` and `RuntimeConverges` except what the code has no remedy for: a last
snapshot lost by a stream that broke or lagged or by a build that failed (`missed`), and
the drain at exit, which sends no event. A page that has missed the last snapshot stays
stale until something else happens. `StoppedStaysOff` excepts a list left over by an
earlier boot. `StaysClosed` and `StaysWhole` name the steps that may break them
(`UpdateRecords`, `RestoreAdopts`, `RebuildCommits`), the ones that write what was
checked before.

The properties of `launcher` have exceptions where the code does; each names a case it
accepts.  `StrangersSpared`: a PID that changes hands between the check and the signal.
`ClientFollowsSettings`: two replacements that cross.  `EnvironmentRespected`:
an environment with two different socks proxies, of which one is chosen; one for a single
protocol, which programs find in ALL_PROXY and use for the other protocol as well; and
a socks proxy beside an ALL_PROXY of no known scheme, which leaves it no variable.
`AllOkMeansWhole`: two commands on Python, which is looked for by its program alone.
`RepairsHeal`: a start over what a job, a clearing or a restore left torn (finding
`half_extracted`).  `SavesKeepOthers`: the field for uv, which a snapshot
(`commands.rs:59`) or a deployment (`deploy.rs:503-509`) turns off when it has found uv
missing, even if it was just saved; the two are alike, and one is in the model.
`InstancesArrive` and `VenvsFollow`: an error, after which a later start thinks the work
done.  `CopiedIsThere`: a copy onto or into its own source (finding `copy_onto_itself`), and the
files somebody else touches while it runs.

Deadlock is checked except in `launcher` and `copy_onto_itself`, where a call of process
control, the component commands and the file requests are bounded in number and end (the
other parts never rest), and in `late_launch` and `left_child`, which stop at the
counterexample.

## 4. What is proved

| Theorem | Property | For |
|---|---|---|
| `TypeCorrect` | `TypeOK` of `ProcessManager` | any instances, requests, pids |
| `SlotsAreHeld` | `OneHolder` | the same |
| `HoldersKeepTheirSlots` | `HolderKeepsSlot` | the same |
| `NoEntryIsHollow` | `NoHollowEntry` | the same |
| `DrainsAreFinal` | `DrainIsFinal` | the same |
| `StopsAreComplete` | `StoppedIsGone` | the same |
| `VerdictsHold` | `ForgottenIsDead` | the same |
| `RefinesLifecycle` | `ImplementsLifecycle` | the same |
| `FilesTypeCorrect` | `TypeOK` of `InstanceFiles` | any versions, items, scopes, backups |
| `OneBackupPends` | `OnePending` | the same, users delete no pending backup |
| `NothingLost` | `LostOnRequestOnly` | the same |
| `BackupsOutliveNeed` | `SavedUntilBack` | the same |
| `RecordsAreComplete` | `RecordedWhenComplete` | the same |
| `RegistryTypeCorrect` | `TypeOK` of `VersionRegistry` | any instances, versions, requests |
| `ManifestStaysClosed` | `StaysClosed` | the same |
| `ArchivesStayWhole` | `StaysWhole` | the same, one browser |
| `SyncTypeCorrect` | `SyncTypeOK` | any loads, capacities and bounds |
| `AnswersNeverGoBack` | `AnswersFollowPushes` | the same |
| `QuietIsCurrent` | `CurrentWhenQuiet` | the same |
| `SessionTypeCorrect` | `SessionTypeOK` | any instances |
| `StoppedStays` | `StoppedStaysOff` | the same |
| `ControlTypeCorrect` | `ControlTypeOK` | any PIDs, `MaxGen`, `MaxTry` |
| `OkMeansGone` | `StopMeansGone` | the same |
| `AllTargetsEnd` | `NoneEscapes` | the same |
| `StrangersStand` | `StrangersSpared` | the same |
| `SettingsTypeCorrect` | `SettingsTypeOK` | any addresses, environments, commands |
| `SettingsStayBuildable` | `StaysBuildable` | the same |
| `OneSettingPerSave` | `SavesKeepOthers` | the same |
| `ClientIsCurrent` | `ClientFollowsSettings` | the same |
| `EnvironmentLeadsOn` | `EnvironmentRespected` | the same |
| `ComponentsTypeCorrect` | `ComponentsTypeOK` | any number of commands |
| `OkMeansWhole` | `AllOkMeansWhole` | the same |
| `EnvTypeCorrect` | `EnvTypeOK` | any releases |
| `JobsHeal` | `RepairsHeal` | the same |
| `MigrationTypeCorrect` | `MigrationTypeOK` | any instances of an older launcher |
| `ImportsArrive` | `InstancesArrive` | the same |
| `RuntimesFollow` | `VenvsFollow` | the same |
| `FilesTypeCorrect` | `FilesTypeOK` | any names, depth, trees, lists of sources, calls at once |
| `CopiesArrive` | `CopiedIsThere` | the same |
| `LauncherImplements` | (the composition implements its seven parts) | all of the above |
| `LauncherTypesCorrect` | `LauncherTypeOK` | all of the above |

**The slot map.**  The inductive invariant `SlotInv`, relative to `TypeOK`, is the
conjunction of `OneHolder`, `HolderKeepsSlot`, `NoHollowEntry` and `DrainIsFinal`.
None is inductive alone: that a second request is refused (`OneHolder`) needs the slot
to show the first (`HolderKeepsSlot`); that the commit of a launch finds its own entry,
and that `revert_stop` never meets another variant (`NoHollowEntry`), need both; and
after the drain, when slots no longer show anything, that nobody inserts again
(`DrainIsFinal`) is what keeps the other three.  The proof has one step per action.
The refinement maps each action to a step of `InstanceLifecycle` or to a stutter.
`VerdictsHold` needs `VerdictInv`: what a poll has found dead stays dead, because the pid
is not given away while the snapshot mentions it.

**The files.**  `FilesInv` adds to `OnePending` what a job in flight knows: `StepInv`
(which step belongs to which kind), `UpdateInv` (from the clearing on, the backup the
upgrade made is the pending one, or there was no data; past the restore the code is
complete), `RepairInv` (past the preserving, what it was asked to keep is in `kept` or
in place) and `RestoreInv`.  The action properties are not proved action by action but
through three lemmas that say which actions can disturb them: `DataRemovers` (what takes
items away), `BackupRemovers` (what deletes backups) and `VersionWriter`.

**The registry.**  `ManifestStaysClosed` needs only types: each transaction but the three
it names looks again at what it depends on.  `ArchivesStayWhole` needs `ArchiveInv`: one
request at a time works on an archive, the one that streams into it is its last writer,
and an archive that is about to be registered is whole.

**The snapshots.**  `PastInv`: everything on its way (pushed, on the bus, half built) was
true once, so it is not ahead of the manager.  `AnswerInv`: a request the store still
accepts was sent after the last push arrived, so what the server has read for it is not
older than that push.  This holds because `hydrateSnapshot` raises `minValid` above every
request in flight, and needs `PastInv` for the request that is sent next.
`CurrentWhenQuiet` is the safety half of `RuntimeConverges`.  `LastInv`: once every
change has become a snapshot (`Settled`), the newest on the bus shows the last change,
or, with none there, the last delivered does; a full channel may forget events and a
full bus snapshots, never the newest unnoticed.  `ViewInv`: what the page shows is not
behind the last delivered (by `AnswerInv`) nor ahead of the slots, so the two are equal.

**The session.**  `OffInv`: neither the collected ids nor a list that is not left over
names an instance a user has stopped, whose slot is vacant; and while the manager is
up, before any Ctrl-C, such a list is empty.

**Process control.**  `NoneComesBack`: under one PID a process only moves towards its
end, or another takes its place; so what is struck stays struck.  `ControlInv` adds what
the place of a call says of its kind (`CallInv`), that an aimed-at process of the same
generation runs the executable (`AimInv`), and, pass by pass, that a target which is
neither still to be looked at nor aimed at is struck (`PassInv`).  `NoneEscapes` is its
last case, with nothing left to look at.

**Settings.**  A client is built in the transaction that stores the settings and put in
place after it, so between the two the client in use is not the one the settings call
for.  `ClientInv`: unless a replacement was overtaken, either nobody has one in hand and
the client is the expected one, or exactly one command has, and holds the expected one.
`StaysBuildable` and `SavesKeepOthers` follow from what each transaction writes: one
field of the record it reads, checked with the others in it.  `EnvironmentRespected` is
about operators; the theorem goes through the precedence of the variables case by case.
An earlier form of the property, with two socks proxies as the only exception, could not
be proved: the two other exceptions of section 3 are where the proof stopped, and such
environments are now among those TLC checks.

**Components.**  Two commands may write one directory, so nothing can be said of the
middle.  `QuietInv` speaks of the moments when every command on Node.js or uv rests:
then all of the program is there, or nothing is and nobody has begun.  It is inductive
because a command comes to rest only by finding all of it (`RestedWell`).  Python is
looked for by its program alone, which may be there without the rest; so a command
without a rival is followed from step to step (`LoneInv`).

**Environments.**  `HealInv`: from its removals on, an update or a repair has nothing
but what it has made itself (`Redeployed`); a start has what the last job left
(`LeftWhole`, `Started`), which is of the recorded version unless `unrepaired`.

**Migrations.**  `ImportInv`: until the import, the manifest is missing and `wanted` is
what the files list; from then on the two are the same.  `MoveInv`: a runtime
that may be moved is whole in one of the places, and in the new one once its step is past.

**Files.**  The lemmas first: paths are sequences ordered by prefix (`UnderOrders`), and a
path below one directory has one name below another (`As`, `AsKeeps`).  A tree stays a
tree under every way it is changed, from inside or outside (`DirsMade`, `FileWritten`,
`Removed`, `RenamedTree`, `CopiedFile`).  `CopiedIsThere` is said of the step that reports
a copy, after any number of steps of a recursion and of everybody else.  Two things are
kept up during them, for each call on its own: `Progress`, every file of the source that
nobody touched is at its place, or below a name that a directory on the stack has not
read yet; and `Kept`, what nobody touched outside the target is as it was.  The steps of
others (`OfOthers`) keep both because what they change becomes "touched" and the call's
own part does not move.  For its own steps: entering a directory turns one unread name
into all the names in it (`EntriesLead`); a file that is copied has its own place
(`AsKeeps`), so no copy undoes another; directories come only on the way to the target.
Source and target must be apart, which is the exception of the property.

**The launcher.**  Its variables are those of seven modules and `part`; a step moves one of
them and leaves the rest, which for these is a stutter.  So a behaviour of `MCLauncher` is
one of each (`LauncherImplements`), and every theorem about a part holds in the run.

Assumptions: the `ASSUME`s of the modules (the "none" values are outside the sets, the
switches are Boolean, environments are assignments of the three proxy variables, a file
request names what is below `core` and begins in a tree) and, for the theorems on
`InstanceFiles`, that users delete no pending automatic backup.  That `core` itself is no
source costs nothing: its copy would be a copy into itself.

Only model-checked: liveness (`TransientResolves`, `DeadIsForgotten`, `ShutdownQuiesces`,
`JobEnds`, `RuntimeConverges`), which needs fairness and ENABLED, out of the prover's
reach.  Every safety property of a passing run is a theorem.

## 5. Where the code does something else than the sources say

1. `late_launch`: `manager.rs:131` says the launch of a drained Starting slot cleans up
   after itself.  `launch_and_finalize` looks at `shutting_down` under one lock and
   commits under another; a drain in between leaves a running, untracked process.
2. `half_extracted`: "self-heal extraction" at each start (`lifecycle.rs:225`).  An
   extraction that breaks off after `main.py` counts as complete for ever.
3. `repair_retry`: a repair keeps `data_v4.db` (`RepairInstanceModal.tsx:37`).  If it
   fails after clearing, the next repair first deletes the directory holding the copy.
4. `version_in_use`: a version in use "cannot be deleted" (`errorCodes.ts:30`).  An
   upgrade or a restore that has chosen it is not seen, and the instance ends on a
   version that is gone.
5. `session_lost`: the running instances are recorded "when the application is closed"
   (`GeneralSettingsCard.tsx:62`).  They are on Ctrl-C, not on the SIGTERM by which the
   page's own buttons restart and stop the service.
6. `copy_onto_itself`: "Copy `sources` into `dest_dir`.  Files overwrite."
   (`file_manager.rs:288`).  A file copied into the directory it is in, which is what the
   page asks for when its field is left empty, is truncated before it is read, and
   reported copied.

7. `left_child`: on failure a launch "cleans up (kills child if spawned)"
   (`lifecycle.rs:215-216`).  At a timeout or a shutdown the child is killed only if its
   path can be read at that moment (`lifecycle.rs:138`, `167`); otherwise it goes on
   running, untracked.

Two more disagreements the models show with a change of one line, without a run of their
own.  Starting means "Launch IO in progress" (`manager.rs:25`), but a client that
disconnects in mid-launch takes the IO with it and leaves the slot (`ClientsHangUp`).
"Event snapshots are authoritative at arrival time" (`useAppStore.ts:190`), but one that
was built before a change of the manifest and arrives after the answer that shows it
takes the page back until the next event.

Two gaps are in the models without a run of their own, since nothing in the sources
denies them: a verdict of the monitor is applied by instance id and may hit a process
started during the poll (`ForgottenIsDead` has that exception), and the look for an
automatic backup precedes the lock (`StartGate`, `StartAdmit`).

## 6. Not modelled

* Windows: the API bindings, the search for locked files, environment paths.  The
  service is deployed on Linux, where the functions of `utils/lock_check.rs` do nothing
  and `check_lock` comes down to a guard taken and dropped (`AcquireGuard`, `DropGuard`).
* The pages of the front end and the deployment scripts: layout, forms and shell.
* Ports: a question to the system at a launch, abstracted to a launch that fails, and in
  the monitor to the liveness of the process.
* Environment variables other than proxies, the shims of Node.js, mirrors and addresses:
  strings computed from settings and written where they are read.
* Archives: how entry names and links map to paths is string work over third-party
  formats; what a broken-off unpacking leaves is in `Components`, `InstanceFiles` and
  `PythonEnv`.
* File manager: reading, listing and downloading change nothing; uploads, permissions
  and packing are left out.
* Children that outlive their job: no command is built with `kill_on_drop`, so `pip`, `uv`
  or `venv` goes on in the environment when the client of a deployment disconnects, beside
  the next job.  `PythonEnv` ends a job with its children; what two of them make of one
  directory is up to pip and uv.
* In `FileManager` the look at a path and the system call on it are one step, and so are
  the reading and the writing of one file in a copy.
* The release cache of `github.rs`: a read of another service.
* The contents of the WebUI directory: replaced as a whole, and fetched again at the next
  deployment if a crash leaves it missing.

## 7. Plan

In this order, the most consequential behaviour first:

1. `ProcessManager` with its abstraction and proofs (done).
2. `InstanceFiles` with proofs (done).
3. `VersionRegistry` with proofs (done).
4. `SnapshotSync` and `Session` with proofs (done).
5. `ProcessControl`: shutdown over a list of PIDs, identity, PID reuse; proofs (done).
6. `Settings` over `Network`, `Components`, `PythonEnv`, `Migrations` and `FileManager`,
   with proofs (done).

Still to prove: for `ProcessControl`, that its calls implement the single steps
`ProcessManager` takes for them (`OkMeansGone` is the guard of `StopDone`; the rest of
the mapping is missing).

## 8. Running it

In this directory: `tlc -workers 2 -config ProcessManagerSafety.cfg MCProcessManager.tla`
and likewise for the other configurations (`PROJECT.json` names the module of each);
`tlapm M.tla` checks the proofs of a module `M`: `ProcessManagerProofs`,
`InstanceFilesProofs`, `VersionRegistryProofs`, `ClientSessionProofs`, `SettingsProofs`,
`ComponentsProofs`, `FileManagerProofs`, `LauncherProofs`.
