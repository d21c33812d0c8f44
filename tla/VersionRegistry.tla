-------------------------- MODULE VersionRegistry --------------------------
(***************************************************************************)
(* The manifest (config.rs), the version archives (download.rs), and the   *)
(* requests that read the one and move the other: download and removal of  *)
(* a version, creation, deletion, upgrade, restore and start of instances  *)
(* (instance/crud.rs, backup.rs, instance/deploy.rs), and the rebuild of   *)
(* the manifest from the disk (instance/rebuild.rs).                       *)
(*                                                                         *)
(* A change of the manifest is one transaction and one action.  Nothing    *)
(* locks the files, and what a request has checked in one transaction may  *)
(* be different in its next one.                                           *)
(***************************************************************************)
EXTENDS FiniteSets

CONSTANTS
  Ids,        \* instance ids that can be created
  Versions,   \* releases
  Requests,   \* requests that can be in flight at once
  NoVersion, NoId, NoRequest,
  OneClient   \* TRUE: the front end in one browser.  It downloads only what is
              \* not installed (Versions.tsx) and does one thing at a time to a
              \* version.  FALSE: any clients.

ASSUME NoneAssumption ==
  NoVersion \notin Versions /\ NoId \notin Ids /\ NoRequest \notin Requests
ASSUME ClientAssumption == OneClient \in BOOLEAN

VARIABLES
  versionOf,   \* AppManifest::instances: the version of each, or NoVersion
  installed,   \* AppManifest::installed_versions
  zip,         \* zip[v]: what versions/<v>.zip holds
  writer,      \* writer[v]: the download that created or truncated it last
  dirs,        \* ids that have an instance directory
  code,        \* code[i]: version in core/pyproject.toml, or NoVersion
  live,        \* instances that run
  pc, who, what,     \* per request: its next step, its instance, its version
  rbPc, rbZips, rbCode   \* the rebuild: its next step, what it has scanned

manifest == <<versionOf, installed>>
archives == <<zip, writer>>
tree     == <<dirs, code>>
calls    == <<pc, who, what>>
rebuild  == <<rbPc, rbZips, rbCode>>
vars == <<manifest, archives, tree, live, calls, rebuild>>

DownloadPcs == {"fetch", "stream", "register"}
GuardPcs    == {"rmdir", "wipe", "deploy", "record", "unpack", "adopt"}
Pcs == DownloadPcs \cup GuardPcs \cup {"idle", "unlink", "create", "start"}

TypeOK ==
  /\ versionOf \in [Ids -> Versions \cup {NoVersion}]
  /\ installed \in SUBSET Versions
  /\ zip \in [Versions -> {"none", "partial", "full"}]
  /\ writer \in [Versions -> Requests \cup {NoRequest}]
  /\ dirs \in SUBSET Ids
  /\ code \in [Ids -> Versions \cup {NoVersion}]
  /\ live \in SUBSET Ids
  /\ pc \in [Requests -> Pcs]
  /\ who \in [Requests -> Ids \cup {NoId}]
  /\ what \in [Requests -> Versions \cup {NoVersion}]
  /\ rbPc \in {"idle", "versions", "instances", "commit"}
  /\ rbZips \in SUBSET Versions
  /\ rbCode \in [Ids -> Versions \cup {NoVersion}]
  /\ \A r \in Requests :
       /\ (who[r] \in Ids) <=> (pc[r] \in GuardPcs \cup {"create", "start"})
       /\ (what[r] \in Versions) <=>
            (pc[r] \in Pcs \ {"idle", "rmdir", "start"})

\* A settled system: what the manifest says is on disk.  An instance that was
\* never started has no code yet.
Init ==
  /\ installed \in SUBSET Versions
  /\ versionOf \in [Ids -> installed \cup {NoVersion}]
  /\ zip = [v \in Versions |-> IF v \in installed THEN "full" ELSE "none"]
  /\ writer = [v \in Versions |-> NoRequest]
  /\ dirs = {i \in Ids : versionOf[i] # NoVersion}
  /\ code \in {c \in [Ids -> installed \cup {NoVersion}] :
                 \A i \in Ids : c[i] \in {versionOf[i], NoVersion}}
  /\ live = {}
  /\ pc = [r \in Requests |-> "idle"]
  /\ who = [r \in Requests |-> NoId]
  /\ what = [r \in Requests |-> NoVersion]
  /\ rbPc = "idle" /\ rbZips = {} /\ rbCode = [i \in Ids |-> NoVersion]

----------------------------------------------------------------------------
(***************************************************************************)
(* Requests.  A definition Name_Variant is a slip that the property of its *)
(* run must catch; no action uses it.                                      *)
(***************************************************************************)
Goto(r, k) == pc' = [pc EXCEPT ![r] = k] /\ UNCHANGED <<who, what>>

Begin(r, k, i, v) == /\ pc[r] = "idle"
                     /\ pc' = [pc EXCEPT ![r] = k]
                     /\ who' = [who EXCEPT ![r] = i]
                     /\ what' = [what EXCEPT ![r] = v]

Finish_KeepsVersion(r) == /\ pc' = [pc EXCEPT ![r] = "idle"]
                          /\ who' = [who EXCEPT ![r] = NoId]
                          /\ UNCHANGED what

Finish(r) == /\ pc' = [pc EXCEPT ![r] = "idle"]
             /\ who' = [who EXCEPT ![r] = NoId]
             /\ what' = [what EXCEPT ![r] = NoVersion]

\* A request changes or removes the archive of v.
Busy(v) == \E r \in Requests : pc[r] \in DownloadPcs \cup {"unlink"} /\ what[r] = v

\* The slot of i is taken: a guard, a launch or a process (ProcessManager).
Held(i) == i \in live \/ \E r \in Requests : pc[r] \in GuardPcs \cup {"start"} /\ who[r] = i

----------------------------------------------------------------------------
(***************************************************************************)
(* download_version and remove_version.                                    *)
(***************************************************************************)
\* A file that cannot be removed is only warned about.
Unlink(v) ==
  \/ zip' = [zip EXCEPT ![v] = "none"] /\ writer' = [writer EXCEPT ![v] = NoRequest]
  \/ UNCHANGED archives

\* An old archive is removed first.
DownloadBegin(r, v) ==
  /\ OneClient => v \notin installed /\ ~Busy(v)
  /\ Begin(r, "fetch", NoId, v)
  /\ Unlink(v)
  /\ UNCHANGED <<manifest, tree, live, rebuild>>

\* The server answers: the file is created, or truncated under another writer.
DownloadOpens(r) ==
  /\ pc[r] = "fetch" /\ Goto(r, "stream")
  /\ zip' = [zip EXCEPT ![what[r]] = "partial"]
  /\ writer' = [writer EXCEPT ![what[r]] = r]
  /\ UNCHANGED <<manifest, tree, live, rebuild>>

\* The body has ended.  It makes the file whole if no other download has
\* truncated or replaced it meanwhile.
DownloadWritten(r) ==
  LET v == what[r] IN
  /\ pc[r] = "stream" /\ Goto(r, "register")
  /\ zip' = [zip EXCEPT ![v] = IF writer[v] = r THEN "full" ELSE zip[v]]
  /\ UNCHANGED <<writer, manifest, tree, live, rebuild>>

DownloadFails_Registers(r) ==
  /\ pc[r] \in {"fetch", "stream"}
  /\ Goto(r, "register")
  /\ UNCHANGED <<manifest, archives, tree, live, rebuild>>

\* No answer, a bad status, or a stream that breaks: whatever is at the path is
\* removed; the next address is tried, if there is one.
DownloadFails(r) ==
  /\ pc[r] \in {"fetch", "stream"}
  /\ Unlink(what[r])
  /\ Goto(r, "fetch") \/ Finish(r)
  /\ UNCHANGED <<manifest, tree, live, rebuild>>

Register(r) ==
  /\ pc[r] = "register" /\ Finish(r)
  /\ installed' = installed \cup {what[r]}
  /\ UNCHANGED <<versionOf, archives, tree, live, rebuild>>

InUse == {versionOf[i] : i \in Ids} \ {NoVersion}

\* Refused while an instance of the manifest has this version.
RemoveBegin(r, v) ==
  /\ OneClient => v \in installed /\ ~Busy(v)
  /\ v \notin InUse
  /\ Begin(r, "unlink", NoId, v)
  /\ installed' = installed \ {v}
  /\ UNCHANGED <<versionOf, archives, tree, live, rebuild>>

RemoveUnlinks(r) ==
  /\ pc[r] = "unlink" /\ Finish(r)
  /\ Unlink(what[r])
  /\ UNCHANGED <<manifest, tree, live, rebuild>>

----------------------------------------------------------------------------
(***************************************************************************)
(* create_instance and delete_instance.                                    *)
(***************************************************************************)
\* Ids are random and never come back.
CreateBegin(r, i, v) ==
  /\ v \in installed
  /\ versionOf[i] = NoVersion /\ i \notin dirs /\ rbCode[i] = NoVersion
  /\ \A s \in Requests : who[s] # i
  /\ Begin(r, "create", i, v)
  /\ dirs' = dirs \cup {i}
  /\ UNCHANGED <<code, manifest, archives, live, rebuild>>

CreateCommit_Trusts(r) ==
  /\ pc[r] = "create" /\ Finish(r)
  /\ versionOf' = [versionOf EXCEPT ![who[r]] = what[r]]
  /\ UNCHANGED <<installed, archives, tree, live, rebuild>>

\* The transaction looks again.
CreateCommit(r) ==
  /\ pc[r] = "create" /\ Finish(r)
  /\ versionOf' = [versionOf EXCEPT ![who[r]] =
                     IF what[r] \in installed THEN what[r] ELSE @]
  /\ UNCHANGED <<installed, archives, tree, live, rebuild>>

DeleteBegin(r, i) ==
  /\ ~Held(i) /\ versionOf[i] # NoVersion
  /\ Begin(r, "rmdir", i, NoVersion)
  /\ versionOf' = [versionOf EXCEPT ![i] = NoVersion]
  /\ UNCHANGED <<installed, archives, tree, live, rebuild>>

\* A directory that cannot be removed is only warned about.
DeleteRemoves(r) ==
  /\ pc[r] = "rmdir" /\ Finish(r)
  /\ \/ dirs' = dirs \ {who[r]} /\ code' = [code EXCEPT ![who[r]] = NoVersion]
     \/ UNCHANGED tree
  /\ UNCHANGED <<manifest, archives, live, rebuild>>

----------------------------------------------------------------------------
(***************************************************************************)
(* update_instance with another version, restore_backup, start_instance.   *)
(* InstanceFiles has their steps in full; here they are what the manifest  *)
(* and the archives see of them.                                           *)
(***************************************************************************)
UpdateBegin(r, i, v) ==
  /\ ~Held(i) /\ versionOf[i] \notin {v, NoVersion} /\ v \in installed
  /\ Begin(r, "wipe", i, v)
  /\ UNCHANGED <<manifest, archives, tree, live, rebuild>>

UpdateWipes(r) ==
  /\ pc[r] = "wipe" /\ Goto(r, "deploy")
  /\ code' = [code EXCEPT ![who[r]] = NoVersion]
  /\ UNCHANGED <<dirs, manifest, archives, live, rebuild>>

\* A deployment looks the version up in the manifest and unpacks its archive.
Deployable(v) == v \in installed /\ zip[v] = "full"

\* The code is unpacked whole or not at all; InstanceFiles has what lies between.
UpdateDeploys(r) ==
  /\ pc[r] = "deploy"
  /\ \/ /\ Deployable(what[r])
        /\ code' = [code EXCEPT ![who[r]] = what[r]]
        /\ dirs' = dirs \cup {who[r]}
        /\ Goto(r, "record")
     \/ Finish(r) /\ UNCHANGED tree
  /\ UNCHANGED <<manifest, archives, live, rebuild>>

\* update_instance_config: an entry that is gone is an error.  So is a restore
\* of data or a WebUI that failed.
UpdateRecords(r) ==
  /\ pc[r] = "record" /\ Finish(r)
  /\ \/ /\ versionOf[who[r]] # NoVersion
        /\ versionOf' = [versionOf EXCEPT ![who[r]] = what[r]]
     \/ UNCHANGED versionOf
  /\ UNCHANGED <<installed, archives, tree, live, rebuild>>

\* A backup of i may be of any version i once had.
RestoreBegin(r, i, v) ==
  /\ ~Held(i) /\ versionOf[i] # NoVersion /\ v \in installed
  /\ Begin(r, "unpack", i, v)
  /\ UNCHANGED <<manifest, archives, tree, live, rebuild>>

RestoreUnpacks(r) ==
  /\ pc[r] = "unpack"
  /\ \/ Goto(r, "adopt") /\ dirs' = dirs \cup {who[r]}
     \/ Finish(r) /\ UNCHANGED dirs
  /\ UNCHANGED <<code, manifest, archives, live, rebuild>>

\* An entry that is gone is passed over.
RestoreAdopts(r) ==
  /\ pc[r] = "adopt" /\ Finish(r)
  /\ versionOf' = [versionOf EXCEPT ![who[r]] = IF @ = NoVersion THEN @ ELSE what[r]]
  /\ UNCHANGED <<installed, archives, tree, live, rebuild>>

StartBegin(r, i) ==
  /\ ~Held(i) /\ versionOf[i] # NoVersion
  /\ Begin(r, "start", i, NoVersion)
  /\ UNCHANGED <<manifest, archives, tree, live, rebuild>>

\* The deployment needs the version installed and its archive there, and unpacks
\* it when there is no code yet.
StartDeploys(r) ==
  LET i == who[r]  v == versionOf[i] IN
  /\ pc[r] = "start" /\ Finish(r)
  /\ \/ /\ v \in installed /\ zip[v] # "none"
        /\ code[i] # NoVersion \/ zip[v] = "full"
        /\ code' = [code EXCEPT ![i] = IF @ = NoVersion THEN v ELSE @]
        /\ dirs' = dirs \cup {i}
        /\ live' = live \cup {i}
     \/ UNCHANGED <<tree, live>>
  /\ UNCHANGED <<manifest, archives, rebuild>>

InstanceStops(i) ==
  /\ i \in live /\ live' = live \ {i}
  /\ UNCHANGED <<manifest, archives, tree, calls, rebuild>>

----------------------------------------------------------------------------
(***************************************************************************)
(* rebuild_instance_manifest: one look at the active instances, two scans, *)
(* one transaction.                                                        *)
(***************************************************************************)
Starting(i) == \E r \in Requests : pc[r] = "start" /\ who[r] = i

RebuildBegin ==
  /\ rbPc = "idle" /\ rbPc' = "versions"
  /\ live = {} /\ \A i \in Ids : ~Starting(i)
  /\ UNCHANGED <<rbZips, rbCode, manifest, archives, tree, live, calls>>

\* Any file that ends in .zip counts.
RebuildScansVersions ==
  /\ rbPc = "versions" /\ rbPc' = "instances"
  /\ rbZips' = {v \in Versions : zip[v] # "none"}
  /\ UNCHANGED <<rbCode, manifest, archives, tree, live, calls>>

\* An instance without core/pyproject.toml is passed over.
RebuildScansInstances ==
  /\ rbPc = "instances" /\ rbPc' = "commit"
  /\ rbCode' = code
  /\ UNCHANGED <<rbZips, manifest, archives, tree, live, calls>>

RebuildCommits ==
  /\ rbPc = "commit" /\ rbPc' = "idle"
  /\ installed' = rbZips /\ versionOf' = rbCode
  /\ rbZips' = {} /\ rbCode' = [i \in Ids |-> NoVersion]
  /\ UNCHANGED <<archives, tree, live, calls>>

----------------------------------------------------------------------------
\* The client disconnects: the handler is dropped where it awaits, a download or
\* an upgrade before its last step.  What it has written stays.
HangUp(r) ==
  /\ pc[r] \in {"fetch", "stream", "record"}
  /\ Finish(r)
  /\ UNCHANGED <<manifest, archives, tree, live, rebuild>>

\* The service goes down, with its processes, and comes up again.
Crash ==
  /\ pc' = [r \in Requests |-> "idle"]
  /\ who' = [r \in Requests |-> NoId]
  /\ what' = [r \in Requests |-> NoVersion]
  /\ rbPc' = "idle" /\ rbZips' = {} /\ rbCode' = [i \in Ids |-> NoVersion]
  /\ live' = {}
  /\ UNCHANGED <<manifest, archives, tree>>

----------------------------------------------------------------------------
Download(r) == DownloadOpens(r) \/ DownloadWritten(r) \/ DownloadFails(r) \/ Register(r)
Update(r)   == UpdateWipes(r) \/ UpdateDeploys(r) \/ UpdateRecords(r)
Restore(r)  == RestoreUnpacks(r) \/ RestoreAdopts(r)

Proceed(r) == \/ Download(r) \/ RemoveUnlinks(r) \/ CreateCommit(r) \/ DeleteRemoves(r)
              \/ Update(r) \/ Restore(r) \/ StartDeploys(r)

Call(r) == \/ \E v \in Versions : DownloadBegin(r, v) \/ RemoveBegin(r, v)
           \/ \E i \in Ids : DeleteBegin(r, i) \/ StartBegin(r, i)
           \/ \E i \in Ids, v \in Versions :
                CreateBegin(r, i, v) \/ UpdateBegin(r, i, v) \/ RestoreBegin(r, i, v)

Rebuild == RebuildBegin \/ RebuildScansVersions \/ RebuildScansInstances \/ RebuildCommits

Next == \/ \E r \in Requests : Proceed(r) \/ Call(r) \/ HangUp(r)
        \/ \E i \in Ids : InstanceStops(i)
        \/ Rebuild
        \/ Crash

Spec == Init /\ [][Next]_vars
-----------------------------------------------------------------------------
(***************************************************************************)
(* Properties.                                                             *)
(***************************************************************************)
\* The manifest is closed: it names no version that is not in its list.
Closed == InUse \subseteq installed

RebuildEnds == rbPc = "commit" /\ rbPc' = "idle"

\* The steps that write into the manifest what was checked long before.
WritesBlindly == \/ RebuildEnds
                 \/ \E r \in Requests : pc[r] \in {"record", "adopt"} /\ pc'[r] = "idle"

\* However creations, removals, downloads, deletions and starts interleave, a
\* closed manifest stays closed: a removal never takes a version that an instance
\* has got meanwhile, a creation never ends on one that was removed meanwhile.
\* Only the end of an upgrade, of a restore and of a rebuild can open it.
StaysClosed == [][Closed => Closed' \/ WritesBlindly]_vars

\* With one client, no failure, fallback, hang-up or crash of a download and no
\* removal leaves an installed version without its whole archive.  Only a rebuild
\* can, which takes any file for an archive and may bring a version back in the
\* middle of its download or removal.
StaysWhole ==
  [][\A v \in installed' : \/ zip'[v] = "full"
                           \/ v \in installed /\ (zip[v] # "full" \/ Busy(v))
                           \/ RebuildEnds]_vars

\* constants/errorCodes.ts:30, of the error VERSION_IN_USE: "version {version} is
\* in use by instance {instance} and cannot be deleted"; so what the manifest
\* names is installed.
InUseIsInstalled == Closed
=============================================================================
