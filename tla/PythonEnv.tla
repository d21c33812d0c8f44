----------------------------- MODULE PythonEnv -----------------------------
(***************************************************************************)
(* Which Python an instance runs: component/python.rs (the runtime a       *)
(* version needs, create_venv) under the deployments of instance/deploy.rs *)
(* and instance/crud.rs and the restoring of backup.rs.  One instance; its *)
(* guard admits one job at a time, but the runtimes may be installed and   *)
(* removed beside it, any step may fail and the launcher may be killed.    *)
(***************************************************************************)
CONSTANTS
  OldReleases, NewReleases   \* up to v4.14.6 and from v4.14.7 on

Releases == OldReleases \cup NewReleases
Runtimes == {"python310", "python312"}

\* requires_python310.
Needs(v) == IF v \in OldReleases THEN "python310" ELSE "python312"

NoMain == [of |-> "none", whole |-> FALSE]   \* no main.py
NoVenv == [of |-> "none", whole |-> FALSE]   \* no bin/python, of any runtime
NoEnvJob == [kind |-> "none", step |-> "idle", version |-> "none"]

VARIABLES
  recorded,    \* the version the manifest has for the instance
  coreOf,      \* the code in core: [of, whole], or NoMain
  venv,        \* the virtual environment: [of, whole], or NoVenv
  runtimes,    \* the runtimes whose python is there
  job,         \* what the holder of the guard does
  unrepaired   \* history: what a job left or adopted was not repaired since

envVars == <<recorded, coreOf, venv, runtimes, job, unrepaired>>

EnvInit ==
  /\ recorded \in Releases
  /\ coreOf = NoMain /\ venv = NoVenv
  /\ runtimes \in SUBSET Runtimes
  /\ job = NoEnvJob /\ unrepaired = FALSE

\* What a step that breaks off leaves: torn, or nothing if there was nothing.
Torn(x) == [of |-> x.of, whole |-> FALSE]

EnvAt(step) == job' = [job EXCEPT !.step = step]
GivesUp == job' = NoEnvJob

\* venv/bin/python is a link to the runtime's: it resolves while that is there.
VenvResolves == venv.of \in runtimes
-----------------------------------------------------------------------------
\* A component command, at any time.
RuntimesChange ==
  /\ runtimes' \in SUBSET Runtimes /\ runtimes' # runtimes
  /\ UNCHANGED <<recorded, coreOf, venv, job, unrepaired>>

\* start: the preflight deploys the recorded version over what is there.
BeginStart ==
  /\ job = NoEnvJob
  /\ job' = [kind |-> "start", step |-> "extract", version |-> recorded]
  /\ UNCHANGED <<recorded, coreOf, venv, runtimes, unrepaired>>

\* update_instance to another version, repair_instance to the recorded one:
\* core and venv are removed first.
BeginRedeployment ==
  /\ job = NoEnvJob
  /\ \/ \E v \in Releases \ {recorded} :
          job' = [kind |-> "update", step |-> "clear", version |-> v]
     \/ job' = [kind |-> "repair", step |-> "clear", version |-> recorded]
  /\ UNCHANGED <<recorded, coreOf, venv, runtimes, unrepaired>>

ClearBoth_KeepsVenv ==
  /\ job.step = "clear"
  /\ coreOf' = NoMain /\ EnvAt("extract")
  /\ unrepaired' = TRUE
  /\ UNCHANGED <<recorded, venv, runtimes>>

\* Two removals, in the order update_instance does them and repair_instance does
\* the other way round; one that fails ends the job in the middle.
ClearBoth ==
  /\ job.step = "clear"
  /\ \/ coreOf' = NoMain /\ venv' = NoVenv /\ EnvAt("extract")
     \/ /\ IF job.kind = "update"
           THEN coreOf' \in {coreOf, Torn(coreOf), NoMain}
                /\ venv' \in {venv, Torn(venv), NoVenv}
                /\ (coreOf' # NoMain => venv' = venv)
           ELSE venv' \in {venv, Torn(venv), NoVenv}
                /\ coreOf' \in {coreOf, Torn(coreOf)}
                /\ (venv' # NoVenv => coreOf' = coreOf)
        /\ GivesUp
  /\ unrepaired' = TRUE
  /\ UNCHANGED <<recorded, runtimes>>

\* deploy_instance_with_version_impl: extract unless main.py is there.
ExtractCode ==
  /\ job.step = "extract"
  /\ \/ coreOf # NoMain /\ EnvAt("venv") /\ UNCHANGED <<coreOf, unrepaired>>
     \/ /\ coreOf = NoMain
        /\ coreOf' = [of |-> job.version, whole |-> TRUE]
        /\ EnvAt("venv") /\ UNCHANGED unrepaired
     \/ /\ coreOf = NoMain
        /\ coreOf' \in {NoMain, [of |-> job.version, whole |-> FALSE]}
        /\ GivesUp
        /\ unrepaired' = (unrepaired \/ coreOf' # NoMain)
  /\ UNCHANGED <<recorded, venv, runtimes>>

\* create_venv, unless the python of the venv is there; a broken one is removed
\* before the runtime of the version makes another.
CreateVenv ==
  /\ job.step = "venv"
  /\ \/ VenvResolves /\ EnvAt("deps") /\ UNCHANGED <<venv, unrepaired>>
     \/ /\ ~VenvResolves /\ Needs(job.version) \in runtimes
        /\ venv' = [of |-> Needs(job.version), whole |-> TRUE]
        /\ EnvAt("deps") /\ UNCHANGED unrepaired
     \/ /\ ~VenvResolves /\ Needs(job.version) \in runtimes
        /\ venv' \in {venv, NoVenv, [of |-> Needs(job.version), whole |-> FALSE]}
        /\ GivesUp
        /\ unrepaired' = (unrepaired \/ ~venv'.whole)
     \/ /\ ~VenvResolves /\ Needs(job.version) \notin runtimes
        /\ GivesUp /\ UNCHANGED <<venv, unrepaired>>
  /\ UNCHANGED <<recorded, coreOf, runtimes>>

\* sync_dependencies runs pip or uv on the venv; without its runtime they fail,
\* on a torn one uv may not.
SyncDependencies ==
  /\ job.step = "deps"
  /\ \/ VenvResolves /\ EnvAt("end")
     \/ GivesUp
  /\ UNCHANGED <<recorded, coreOf, venv, runtimes, unrepaired>>

\* The data comes back, WebUI is fetched (or not: then the job fails); the
\* version is recorded, by an update.
EndJob ==
  /\ job.step = "end"
  /\ \/ /\ recorded' = job.version
        /\ unrepaired' = (job.kind = "start" /\ unrepaired)
     \/ UNCHANGED <<recorded, unrepaired>>
  /\ GivesUp
  /\ UNCHANGED <<coreOf, venv, runtimes>>

\* restore_backup: the data is unpacked, the version of the backup recorded.
RestoreBackup ==
  /\ job = NoEnvJob
  /\ \E v \in Releases \ {recorded} : recorded' = v
  /\ unrepaired' = TRUE
  /\ UNCHANGED <<coreOf, venv, runtimes, job>>

\* clear_instance_venv, in full or broken off.
ClearVenv ==
  /\ job = NoEnvJob
  /\ \/ venv' \in {venv, NoVenv} /\ UNCHANGED unrepaired
     \/ venv' = Torn(venv) /\ unrepaired' = TRUE
  /\ UNCHANGED <<recorded, coreOf, runtimes, job>>

\* The launcher is killed, or the client has disconnected; what a step left
\* behind is as if it had failed.  A child that outlives it is left out.
EnvKilled ==
  /\ job # NoEnvJob
  /\ GivesUp
  /\ UNCHANGED <<recorded, coreOf, venv, runtimes, unrepaired>>
-----------------------------------------------------------------------------
EnvNext ==
  \/ RuntimesChange \/ BeginStart \/ BeginRedeployment \/ ClearBoth \/ ExtractCode
  \/ CreateVenv \/ SyncDependencies \/ EndJob \/ RestoreBackup \/ ClearVenv
  \/ EnvKilled

EnvSpec == EnvInit /\ [][EnvNext]_envVars
-----------------------------------------------------------------------------
\* The types.
EnvTypeOK ==
  /\ recorded \in Releases /\ runtimes \subseteq Runtimes
  /\ coreOf \in {NoMain} \cup [of : Releases, whole : BOOLEAN]
  /\ venv \in {NoVenv} \cup [of : Runtimes, whole : BOOLEAN]
  /\ job \in {NoEnvJob} \cup [kind : {"start", "update", "repair"}, version : Releases,
                           step : {"clear", "extract", "venv", "deps", "end"}]
  /\ unrepaired \in BOOLEAN

\* An update or a repair that ends well leaves the whole code of the recorded
\* version in an environment of the Python it needs, whatever was there and
\* whatever failed before (a restored backup of the other Python's times, a torn
\* extraction); so does a start, if nothing of the kind is still unrepaired
\* (crud.rs:240-277, deploy.rs:175-214, python.rs:165-180).
RepairsHeal ==
  [][job.step = "end" /\ (job.kind = "start" => ~unrepaired) /\ recorded' = job.version =>
       /\ coreOf = [of |-> recorded', whole |-> TRUE]
       /\ venv = [of |-> Needs(recorded'), whole |-> TRUE]]_envVars
=============================================================================
