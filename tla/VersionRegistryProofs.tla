----------------------- MODULE VersionRegistryProofs -----------------------
(***************************************************************************)
(* Theorems about VersionRegistry, for any instances, versions and         *)
(* requests: the manifest stays closed except where a request writes what  *)
(* it checked long before, and with one client the archive of an installed *)
(* version stays whole except for a rebuild.                               *)
(***************************************************************************)
EXTENDS VersionRegistry, TLAPS

USE DEF DownloadPcs, GuardPcs, Pcs, archives

----------------------------------------------------------------------------
(***************************************************************************)
(* Types.                                                                  *)
(***************************************************************************)
LEMMA InitTypes == Init => TypeOK
BY NoneAssumption DEF Init, TypeOK

\* The steps of requests, one by one.
LEMMA ProceedTypes ==
  ASSUME TypeOK, NEW r \in Requests, Proceed(r)
  PROVE  TypeOK'
<1> USE NoneAssumption DEF TypeOK, Goto, Finish, Unlink
<1>1. CASE DownloadOpens(r)
  BY <1>1 DEF DownloadOpens, manifest, tree, rebuild
<1>2. CASE DownloadWritten(r)
  BY <1>2 DEF DownloadWritten, manifest, tree, rebuild
<1>3. CASE DownloadFails(r)
  BY <1>3 DEF DownloadFails, manifest, tree, rebuild
<1>4. CASE Register(r)
  BY <1>4 DEF Register, archives, tree, rebuild
<1>5. CASE RemoveUnlinks(r)
  BY <1>5 DEF RemoveUnlinks, manifest, tree, rebuild
<1>6. CASE CreateCommit(r)
  BY <1>6 DEF CreateCommit, archives, tree, rebuild
<1>7. CASE DeleteRemoves(r)
  BY <1>7 DEF DeleteRemoves, manifest, archives, tree, rebuild
<1>8. CASE UpdateWipes(r)
  BY <1>8 DEF UpdateWipes, manifest, archives, rebuild
<1>9. CASE UpdateDeploys(r)
  BY <1>9 DEF UpdateDeploys, manifest, archives, tree, rebuild
<1>10. CASE UpdateRecords(r)
  BY <1>10 DEF UpdateRecords, archives, tree, rebuild
<1>11. CASE RestoreUnpacks(r)
  BY <1>11 DEF RestoreUnpacks, manifest, archives, rebuild
<1>12. CASE RestoreAdopts(r)
  BY <1>12 DEF RestoreAdopts, archives, tree, rebuild
<1>13. CASE StartDeploys(r)
  BY <1>13 DEF StartDeploys, manifest, archives, tree, rebuild
<1> QED
  BY <1>1, <1>2, <1>3, <1>4, <1>5, <1>6, <1>7, <1>8, <1>9, <1>10, <1>11, <1>12, <1>13
  DEF Proceed, Download, Update, Restore

LEMMA CallTypes ==
  ASSUME TypeOK, NEW r \in Requests, Call(r)
  PROVE  TypeOK'
<1> USE NoneAssumption DEF TypeOK, Begin, Unlink
<1>1. ASSUME NEW v \in Versions, DownloadBegin(r, v) PROVE TypeOK'
  BY <1>1 DEF DownloadBegin, manifest, tree, rebuild
<1>2. ASSUME NEW v \in Versions, RemoveBegin(r, v) PROVE TypeOK'
  BY <1>2 DEF RemoveBegin, archives, tree, rebuild
<1>3. ASSUME NEW i \in Ids, DeleteBegin(r, i) PROVE TypeOK'
  BY <1>3 DEF DeleteBegin, archives, tree, rebuild
<1>4. ASSUME NEW i \in Ids, StartBegin(r, i) PROVE TypeOK'
  BY <1>4 DEF StartBegin, manifest, archives, tree, rebuild
<1>5. ASSUME NEW i \in Ids, NEW v \in Versions, CreateBegin(r, i, v) PROVE TypeOK'
  BY <1>5 DEF CreateBegin, manifest, archives, rebuild
<1>6. ASSUME NEW i \in Ids, NEW v \in Versions, UpdateBegin(r, i, v) PROVE TypeOK'
  BY <1>6 DEF UpdateBegin, manifest, archives, tree, rebuild
<1>7. ASSUME NEW i \in Ids, NEW v \in Versions, RestoreBegin(r, i, v) PROVE TypeOK'
  BY <1>7 DEF RestoreBegin, manifest, archives, tree, rebuild
<1> QED
  BY <1>1, <1>2, <1>3, <1>4, <1>5, <1>6, <1>7 DEF Call

LEMMA RebuildTypes == ASSUME TypeOK, Rebuild PROVE TypeOK'
<1> USE DEF TypeOK, manifest, archives, tree, calls
<1>1. CASE RebuildBegin          BY <1>1 DEF RebuildBegin
<1>2. CASE RebuildScansVersions  BY <1>2 DEF RebuildScansVersions
<1>3. CASE RebuildScansInstances BY <1>3 DEF RebuildScansInstances
<1>4. CASE RebuildCommits        BY <1>4 DEF RebuildCommits
<1> QED BY <1>1, <1>2, <1>3, <1>4 DEF Rebuild

LEMMA TypeStep == TypeOK /\ [Next]_vars => TypeOK'
<1> SUFFICES ASSUME TypeOK, [Next]_vars PROVE TypeOK'
  OBVIOUS
<1>1. ASSUME NEW r \in Requests, Proceed(r) PROVE TypeOK'
  BY <1>1, ProceedTypes
<1>2. ASSUME NEW r \in Requests, Call(r) PROVE TypeOK'
  BY <1>2, CallTypes
<1>3. ASSUME NEW r \in Requests, HangUp(r) PROVE TypeOK'
  BY <1>3, NoneAssumption DEF HangUp, Finish, TypeOK, manifest, archives, tree, rebuild
<1>4. ASSUME NEW i \in Ids, InstanceStops(i) PROVE TypeOK'
  BY <1>4 DEF InstanceStops, TypeOK, manifest, archives, tree, calls, rebuild
<1>5. CASE Rebuild
  BY <1>5, RebuildTypes
<1>6. CASE Crash
  BY <1>6, NoneAssumption DEF Crash, TypeOK, manifest, archives, tree
<1>7. CASE UNCHANGED vars
  BY <1>7 DEF TypeOK, vars, manifest, archives, tree, calls, rebuild
<1> QED
  BY <1>1, <1>2, <1>3, <1>4, <1>5, <1>6, <1>7 DEF Next

\* The variables of the manifest, the archives, the instances and the requests
\* keep their types; a request knows an instance and a version exactly while the
\* step it is at needs them.
THEOREM RegistryTypeCorrect == Spec => []TypeOK
<1>1. Init => TypeOK
  BY InitTypes
<1>2. TypeOK /\ [Next]_vars => TypeOK'
  BY TypeStep
<1> QED
  BY <1>1, <1>2, PTL DEF Spec

----------------------------------------------------------------------------
(***************************************************************************)
(* The manifest stays closed.                                              *)
(***************************************************************************)
\* Who writes into the manifest, and what.
LEMMA ManifestWriters ==
  ASSUME TypeOK, [Next]_vars
  PROVE  \/ UNCHANGED manifest
         \/ \E r \in Requests : \/ Register(r) \/ CreateCommit(r)
                                \/ UpdateRecords(r) \/ RestoreAdopts(r)
                                \/ \E v \in Versions : RemoveBegin(r, v)
                                \/ \E i \in Ids : DeleteBegin(r, i)
         \/ RebuildCommits
<1>1. ASSUME NEW r \in Requests, Proceed(r)
      PROVE  \/ UNCHANGED manifest \/ Register(r) \/ CreateCommit(r)
             \/ UpdateRecords(r) \/ RestoreAdopts(r)
  BY <1>1 DEF Proceed, Download, Update, Restore, DownloadOpens, DownloadWritten,
              DownloadFails, RemoveUnlinks, DeleteRemoves, UpdateWipes, UpdateDeploys,
              RestoreUnpacks, StartDeploys
<1>2. ASSUME NEW r \in Requests, Call(r)
      PROVE  \/ UNCHANGED manifest \/ \E v \in Versions : RemoveBegin(r, v)
             \/ \E i \in Ids : DeleteBegin(r, i)
  BY <1>2 DEF Call, DownloadBegin, StartBegin, CreateBegin, UpdateBegin, RestoreBegin
<1>3. CASE Rebuild
  BY <1>3 DEF Rebuild, RebuildBegin, RebuildScansVersions, RebuildScansInstances
<1>4. ASSUME \/ \E r \in Requests : HangUp(r)
             \/ \E i \in Ids : InstanceStops(i)
             \/ Crash \/ UNCHANGED vars
      PROVE  UNCHANGED manifest
  BY <1>4 DEF HangUp, InstanceStops, Crash, vars
<1> QED
  BY <1>1, <1>2, <1>3, <1>4 DEF Next

LEMMA ClosedStep ==
  ASSUME TypeOK, [Next]_vars, Closed
  PROVE  Closed' \/ WritesBlindly
<1> USE DEF Closed, InUse
<1>1. CASE UNCHANGED manifest
  BY <1>1 DEF manifest
<1>2. ASSUME NEW r \in Requests, Register(r) PROVE Closed'
  BY <1>2 DEF Register
<1>3. ASSUME NEW r \in Requests, CreateCommit(r) PROVE Closed'
  BY <1>3 DEF CreateCommit, TypeOK
<1>4. ASSUME NEW r \in Requests, UpdateRecords(r) \/ RestoreAdopts(r) PROVE WritesBlindly
  BY <1>4 DEF UpdateRecords, RestoreAdopts, Finish, WritesBlindly, TypeOK
<1>5. ASSUME NEW r \in Requests, NEW v \in Versions, RemoveBegin(r, v) PROVE Closed'
  BY <1>5 DEF RemoveBegin
<1>6. ASSUME NEW r \in Requests, NEW i \in Ids, DeleteBegin(r, i) PROVE Closed'
  BY <1>6 DEF DeleteBegin, TypeOK
<1>7. CASE RebuildCommits
  BY <1>7 DEF RebuildCommits, WritesBlindly, RebuildEnds
<1> QED
  BY <1>1, <1>2, <1>3, <1>4, <1>5, <1>6, <1>7, ManifestWriters

\* Whatever requests are in flight, only the end of an upgrade, a restore or a
\* rebuild can make the manifest name a version that it does not list.
THEOREM ManifestStaysClosed == Spec => StaysClosed
<1>1. TypeOK /\ [Next]_vars => [Closed => Closed' \/ WritesBlindly]_vars
  BY ClosedStep
<1> QED
  BY <1>1, RegistryTypeCorrect, PTL DEF Spec, StaysClosed

----------------------------------------------------------------------------
(***************************************************************************)
(* Archives stay whole.                                                    *)
(***************************************************************************)
OnArchive == DownloadPcs \cup {"unlink"}

\* At most one request works on an archive; a download that is being written is
\* the file's last writer, and what it registers is whole.
ArchiveInv ==
  /\ \A r, s \in Requests :
       (pc[r] \in OnArchive /\ pc[s] \in OnArchive /\ what[r] = what[s]) => r = s
  /\ \A r \in Requests : pc[r] = "stream" => writer[what[r]] = r
  /\ \A r \in Requests : pc[r] = "register" => zip[what[r]] = "full"

LEMMA ArchiveStep ==
  ASSUME OneClient, TypeOK, ArchiveInv, [Next]_vars
  PROVE  ArchiveInv'
<1> USE NoneAssumption DEF ArchiveInv, OnArchive, TypeOK
<1>1. ASSUME NEW r \in Requests, DownloadOpens(r) \/ DownloadWritten(r) PROVE ArchiveInv'
  BY <1>1 DEF DownloadOpens, DownloadWritten, Goto
<1>2. ASSUME NEW r \in Requests, DownloadFails(r) PROVE ArchiveInv'
  BY <1>2 DEF DownloadFails, Unlink, Goto, Finish
<1>3. ASSUME NEW r \in Requests, RemoveUnlinks(r) PROVE ArchiveInv'
  BY <1>3 DEF RemoveUnlinks, Unlink, Finish
<1>4. ASSUME NEW r \in Requests, NEW v \in Versions, DownloadBegin(r, v) PROVE ArchiveInv'
  BY <1>4 DEF DownloadBegin, Unlink, Begin, Busy
<1>5. ASSUME NEW r \in Requests, NEW v \in Versions, RemoveBegin(r, v) PROVE ArchiveInv'
  BY <1>5 DEF RemoveBegin, Begin, Busy, archives
\* The others leave the archives alone and work on none afterwards.
<1>6. ASSUME UNCHANGED archives,
             \A r \in Requests : pc'[r] \in OnArchive => pc'[r] = pc[r] /\ what'[r] = what[r]
      PROVE  ArchiveInv'
  BY <1>6 DEF archives
<1>7. ASSUME NEW r \in Requests,
             \/ Register(r) \/ CreateCommit(r) \/ DeleteRemoves(r) \/ Update(r)
             \/ Restore(r) \/ StartDeploys(r) \/ HangUp(r)
      PROVE  ArchiveInv'
  <2>1. UNCHANGED archives
    BY <1>7 DEF Register, CreateCommit, DeleteRemoves, Update, UpdateWipes, UpdateDeploys,
                UpdateRecords, Restore, RestoreUnpacks, RestoreAdopts, StartDeploys, HangUp
  <2>2. Finish(r) \/ (\E k \in {"deploy", "record", "adopt"} : Goto(r, k))
    BY <1>7 DEF Register, CreateCommit, DeleteRemoves, Update, UpdateWipes, UpdateDeploys,
                UpdateRecords, Restore, RestoreUnpacks, RestoreAdopts, StartDeploys, HangUp
  <2>3. \A s \in Requests : pc'[s] \in OnArchive => pc'[s] = pc[s] /\ what'[s] = what[s]
    BY <2>2 DEF Finish, Goto
  <2> QED
    BY <1>6, <2>1, <2>3
<1>8. ASSUME NEW r \in Requests, NEW i \in Ids, NEW v \in Versions \cup {NoVersion},
             \/ DeleteBegin(r, i) \/ StartBegin(r, i)
             \/ CreateBegin(r, i, v) \/ UpdateBegin(r, i, v) \/ RestoreBegin(r, i, v)
      PROVE  ArchiveInv'
  <2>1. UNCHANGED archives
    BY <1>8 DEF DeleteBegin, StartBegin, CreateBegin, UpdateBegin, RestoreBegin
  <2>2. \E k \in {"rmdir", "start", "create", "wipe", "unpack"},
           w \in Versions \cup {NoVersion} : Begin(r, k, i, w)
    BY <1>8 DEF DeleteBegin, StartBegin, CreateBegin, UpdateBegin, RestoreBegin
  <2>3. \A s \in Requests : pc'[s] \in OnArchive => pc'[s] = pc[s] /\ what'[s] = what[s]
    BY <2>2 DEF Begin
  <2> QED
    BY <1>6, <2>1, <2>3
<1>9. CASE Rebuild
  BY <1>9 DEF Rebuild, RebuildBegin, RebuildScansVersions, RebuildScansInstances,
              RebuildCommits, archives, calls
<1>10. ASSUME NEW i \in Ids, InstanceStops(i) PROVE ArchiveInv'
  BY <1>10 DEF InstanceStops, archives, calls
<1>11. CASE Crash
  BY <1>11 DEF Crash, archives
<1>12. CASE UNCHANGED vars
  BY <1>12 DEF vars, archives, calls
<1> QED
  BY <1>1, <1>2, <1>3, <1>4, <1>5, <1>7, <1>8, <1>9, <1>10, <1>11, <1>12
  DEF Next, Proceed, Download, Call

\* Who writes, truncates or removes archives.
LEMMA ArchiveWriters ==
  ASSUME [Next]_vars
  PROVE  \/ UNCHANGED archives
         \/ \E r \in Requests : \/ DownloadOpens(r) \/ DownloadWritten(r)
                                \/ DownloadFails(r) \/ RemoveUnlinks(r)
                                \/ \E v \in Versions : DownloadBegin(r, v)
<1>1. ASSUME NEW r \in Requests, Proceed(r)
      PROVE  \/ UNCHANGED archives \/ DownloadOpens(r) \/ DownloadWritten(r)
             \/ DownloadFails(r) \/ RemoveUnlinks(r)
  BY <1>1 DEF Proceed, Download, Update, Restore, Register, CreateCommit, DeleteRemoves,
              UpdateWipes, UpdateDeploys, UpdateRecords, RestoreUnpacks, RestoreAdopts,
              StartDeploys
<1>2. ASSUME NEW r \in Requests, Call(r)
      PROVE  UNCHANGED archives \/ \E v \in Versions : DownloadBegin(r, v)
  BY <1>2 DEF Call, RemoveBegin, DeleteBegin, StartBegin, CreateBegin, UpdateBegin,
              RestoreBegin
<1>3. ASSUME \/ Rebuild \/ Crash \/ UNCHANGED vars
             \/ \E r \in Requests : HangUp(r)
             \/ \E i \in Ids : InstanceStops(i)
      PROVE  UNCHANGED archives
  BY <1>3 DEF Rebuild, RebuildBegin, RebuildScansVersions, RebuildScansInstances,
              RebuildCommits, Crash, HangUp, InstanceStops, vars
<1> QED
  BY <1>1, <1>2, <1>3 DEF Next

LEMMA WholeStep ==
  ASSUME OneClient, TypeOK, ArchiveInv, [Next]_vars, NEW v \in installed'
  PROVE  \/ zip'[v] = "full"
         \/ v \in installed /\ (zip[v] # "full" \/ Busy(v))
         \/ RebuildEnds
<1>1. v \in Versions
  BY TypeStep DEF TypeOK
<1>2. CASE UNCHANGED archives
  <2>1. ASSUME NEW r \in Requests, Register(r), v \notin installed PROVE zip'[v] = "full"
    BY <2>1 DEF Register, ArchiveInv, archives
  <2>2. CASE v \in installed
    BY <1>2, <2>2 DEF archives
  <2>3. ASSUME v \notin installed, ~RebuildEnds
        PROVE  \E r \in Requests : Register(r)
    BY <2>3, ManifestWriters
    DEF manifest, CreateCommit, UpdateRecords, RestoreAdopts, RemoveBegin, DeleteBegin,
        RebuildCommits, RebuildEnds
  <2> QED
    BY <2>1, <2>2, <2>3
<1>3. ASSUME NEW r \in Requests,
             DownloadOpens(r) \/ DownloadWritten(r) \/ DownloadFails(r) \/ RemoveUnlinks(r)
      PROVE  v \in installed /\ (zip'[v] = zip[v] \/ Busy(v))
  BY <1>1, <1>3 DEF DownloadOpens, DownloadWritten, DownloadFails, RemoveUnlinks, Unlink,
                    manifest, Busy, TypeOK
<1>4. ASSUME NEW r \in Requests, NEW w \in Versions, DownloadBegin(r, w)
      PROVE  v \in installed /\ zip'[v] = zip[v]
  BY <1>1, <1>4 DEF DownloadBegin, Unlink, manifest, TypeOK
<1> QED
  BY <1>2, <1>3, <1>4, ArchiveWriters

\* With one client no download, however it fails, and no removal ever leaves an
\* installed version without its whole archive.
THEOREM ArchivesStayWhole == ASSUME OneClient PROVE Spec => StaysWhole
<1>1. Init => ArchiveInv
  BY DEF Init, ArchiveInv, OnArchive
<1>2. TypeOK /\ ArchiveInv /\ [Next]_vars => ArchiveInv'
  BY ArchiveStep
<1>3. TypeOK /\ ArchiveInv /\ [Next]_vars =>
        [\A v \in installed' : \/ zip'[v] = "full"
                               \/ v \in installed /\ (zip[v] # "full" \/ Busy(v))
                               \/ RebuildEnds]_vars
  BY WholeStep
<1> QED
  BY <1>1, <1>2, <1>3, RegistryTypeCorrect, PTL DEF Spec, StaysWhole
=============================================================================
