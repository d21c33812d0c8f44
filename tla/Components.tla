----------------------------- MODULE Components -----------------------------
(***************************************************************************)
(* component/*.rs: installing, reinstalling and removing Python, Node.js   *)
(* and uv.  A component is one directory, Python two.  Commands hold no    *)
(* lock, so those of several clients interleave at every step; any step    *)
(* may fail, and the launcher may be killed.  Of a directory's files three *)
(* matter: the program ("main"), what comes with it ("aux": npm and npx,   *)
(* uvx, Python's library) and the archive it is unpacked from.             *)
(***************************************************************************)
EXTENDS Naturals, Sequences

CONSTANT ComponentCalls   \* commands of a behaviour

ComponentIds == {"python", "nodejs", "uv"}
DirsOf(comp) == IF comp = "python" THEN <<"py310", "py312">> ELSE <<comp>>
Dirs == {"py310", "py312", "nodejs", "uv"}

Program == {"main", "aux"}
NoDir == {"no directory"}   \* the contents of a directory that is not there

Verified_ProgramOnly(d) == {"main"}

\* What the command looks for after unpacking, and what counts as installed.
Verified(d) == IF d \in {"nodejs", "uv"} THEN Program ELSE {"main"}
Checked(d) == IF d = "uv" THEN Program ELSE {"main"}

VARIABLES
  inDir,   \* [directory -> its files, or NoDir]
  cmd     \* [call -> command, where it is, its directory, what it unpacks]

componentsVars == <<inDir, cmd>>

ComponentCommands == [kind : {"install", "reinstall", "uninstall"}, comp : ComponentIds,
             pc : {"begin", "remove", "missing", "lookup", "prepare", "download",
                   "receive", "open", "unpack", "verify", "done"},
             at : 1..2, left : SUBSET Program,
             answer : {"none", "ok", "err", "killed"}]

ComponentsInit ==
  /\ inDir \in [Dirs -> {NoDir, Program}]
  /\ cmd \in [ComponentCalls -> [kind : {"install", "reinstall", "uninstall"},
                                 comp : ComponentIds, pc : {"begin"}, at : {1},
                                 left : {{}}, answer : {"none"}]]

DirIn(c) == DirsOf(cmd[c].comp)[cmd[c].at]

\* is_component_installed, is_nodejs_installed, is_uv_installed.
DirInstalled(d) == Checked(d) \subseteq inDir[d]
ComponentInstalled(comp) == \A i \in DOMAIN DirsOf(comp) : DirInstalled(DirsOf(comp)[i])

Goes(c, pc) == cmd' = [cmd EXCEPT ![c].pc = pc]
GoesAt(c, pc, i) == cmd' = [cmd EXCEPT ![c].pc = pc, ![c].at = i]
Answers(c, answer) == cmd' = [cmd EXCEPT ![c].pc = "done", ![c].answer = answer]

\* A removal that fails leaves any part of the directory.
RemoveTree(d) == inDir' = [inDir EXCEPT ![d] = NoDir]
RemoveTreeFails(d) ==
  /\ inDir[d] # NoDir
  /\ \E rest \in SUBSET inDir[d] : inDir' = [inDir EXCEPT ![d] = rest]

\* install_missing_runtimes, from the i-th runtime on.
InstallMissing(c, i) ==
  LET missing == {j \in DOMAIN DirsOf(cmd[c].comp) :
                    j >= i /\ ~DirInstalled(DirsOf(cmd[c].comp)[j])}
  IN  IF missing = {} THEN Answers(c, "ok")
      ELSE \E j \in missing : (\A k \in missing : j <= k) /\ GoesAt(c, "lookup", j)
-----------------------------------------------------------------------------
\* install_component: nothing to do for one that is installed.
BeginInstall(c) ==
  /\ cmd[c].pc = "begin" /\ cmd[c].kind = "install"
  /\ IF ComponentInstalled(cmd[c].comp) THEN Answers(c, "ok") ELSE InstallMissing(c, 1)
  /\ UNCHANGED inDir

\* reinstall_component: Python's runtimes are removed before anything else,
\* the others are looked up first.
BeginReinstall(c) ==
  /\ cmd[c].pc = "begin" /\ cmd[c].kind = "reinstall"
  /\ Goes(c, IF cmd[c].comp = "python" THEN "remove" ELSE "lookup")
  /\ UNCHANGED inDir

BeginUninstall(c) ==
  /\ cmd[c].pc = "begin" /\ cmd[c].kind = "uninstall"
  /\ Goes(c, "remove")
  /\ UNCHANGED inDir

\* The directories are removed one by one.
RemoveDir(c) ==
  /\ cmd[c].pc = "remove"
  /\ \/ /\ RemoveTree(DirIn(c))
        /\ IF cmd[c].at < Len(DirsOf(cmd[c].comp)) THEN GoesAt(c, "remove", cmd[c].at + 1)
           ELSE IF cmd[c].kind = "uninstall" THEN Answers(c, "ok")
           ELSE GoesAt(c, "missing", 1)
     \/ RemoveTreeFails(DirIn(c)) /\ Answers(c, "err")

\* A Python reinstallation goes on with the runtimes that are not there now.
AfterRemoval(c) ==
  /\ cmd[c].pc = "missing"
  /\ InstallMissing(c, 1)
  /\ UNCHANGED inDir

\* The release index: no network, no asset for this platform.
LookUpAsset(c) ==
  /\ cmd[c].pc = "lookup"
  /\ Goes(c, "prepare") \/ Answers(c, "err")
  /\ UNCHANGED inDir

\* install_from_archive_with_progress: the old directory goes, a new one comes.
MakeEmptyDir(c) ==
  /\ cmd[c].pc = "prepare"
  /\ \/ inDir' = [inDir EXCEPT ![DirIn(c)] = {}] /\ Goes(c, "download")
     \/ RemoveTreeFails(DirIn(c)) /\ Answers(c, "err")

\* download_file makes the directory if it has gone and creates the file.
CreateArchive(c) ==
  /\ cmd[c].pc = "download"
  /\ inDir' = [inDir EXCEPT ![DirIn(c)] = (@ \ NoDir) \cup {"archive"}]
  /\ Goes(c, "receive")

\* All of it has come; or what was written is removed.
ReceiveArchive(c) ==
  /\ cmd[c].pc = "receive"
  /\ \/ Goes(c, "open") /\ UNCHANGED inDir
     \/ inDir' = [inDir EXCEPT ![DirIn(c)] = @ \ {"archive"}] /\ Answers(c, "err")

\* No connection, no response: nothing was written, a file of that name goes.
DownloadFailsEarly(c) ==
  /\ cmd[c].pc = "download"
  /\ inDir' = [inDir EXCEPT ![DirIn(c)] = (@ \ NoDir) \ {"archive"}]
  /\ Answers(c, "err")

\* The client disconnects: the command ends at its await.
ComponentHangUp(c) ==
  /\ cmd[c].pc \in {"lookup", "download", "receive"}
  /\ Answers(c, "killed")
  /\ UNCHANGED inDir

\* The archive is opened; it may be of another layout than expected.
OpenArchive(c) ==
  /\ cmd[c].pc = "open"
  /\ \/ /\ "archive" \in inDir[DirIn(c)]
        /\ \E content \in {{}, Program} \cup (IF DirIn(c) \in {"nodejs", "uv"} THEN {{"main"}} ELSE {}) :
             cmd' = [cmd EXCEPT ![c].pc = "unpack", ![c].left = content]
     \/ Answers(c, "err")
  /\ UNCHANGED inDir

\* One of its files is written, in a directory that is made if it has gone.
UnpackFile(c) ==
  /\ cmd[c].pc = "unpack" /\ cmd[c].left # {}
  /\ \/ \E f \in cmd[c].left :
          /\ inDir' = [inDir EXCEPT ![DirIn(c)] = (@ \ NoDir) \cup {f}]
          /\ cmd' = [cmd EXCEPT ![c].left = @ \ {f}]
     \/ Answers(c, "err") /\ UNCHANGED inDir

\* All is written; the archive is removed, if it is still there.
RemoveArchive(c) ==
  /\ cmd[c].pc = "unpack" /\ cmd[c].left = {}
  /\ inDir' \in {inDir, [inDir EXCEPT ![DirIn(c)] = @ \ {"archive"}]}
  /\ Goes(c, "verify")

\* The programs are looked for; Python goes on with its next runtime.
FindPrograms(c) ==
  /\ cmd[c].pc = "verify"
  /\ IF ~(Verified(DirIn(c)) \subseteq inDir[DirIn(c)]) THEN Answers(c, "err")
     ELSE InstallMissing(c, cmd[c].at + 1)
  /\ UNCHANGED inDir

\* The launcher is killed; files stay as they are.
ComponentsKilled ==
  /\ \E c \in ComponentCalls : cmd[c].pc # "done"
  /\ cmd' = [c \in ComponentCalls |->
               IF cmd[c].pc \in {"begin", "done"} THEN cmd[c]
               ELSE [cmd[c] EXCEPT !.pc = "done", !.answer = "killed"]]
  /\ UNCHANGED inDir
-----------------------------------------------------------------------------
ComponentsNext ==
  \/ ComponentsKilled
  \/ \E c \in ComponentCalls :
       \/ BeginInstall(c) \/ BeginReinstall(c) \/ BeginUninstall(c)
       \/ RemoveDir(c) \/ AfterRemoval(c) \/ LookUpAsset(c) \/ MakeEmptyDir(c)
       \/ CreateArchive(c) \/ ReceiveArchive(c) \/ DownloadFailsEarly(c) \/ ComponentHangUp(c)
       \/ OpenArchive(c) \/ UnpackFile(c) \/ RemoveArchive(c) \/ FindPrograms(c)

ComponentsSpec == ComponentsInit /\ [][ComponentsNext]_componentsVars
-----------------------------------------------------------------------------
\* The types.
ComponentsTypeOK ==
  /\ inDir \in [Dirs -> {NoDir} \cup SUBSET (Program \cup {"archive"})]
  /\ cmd \in [ComponentCalls -> ComponentCommands]

CallsOn(comp) == {c \in ComponentCalls : cmd[c].comp = comp}
WholeComponent(comp) == \A i \in DOMAIN DirsOf(comp) : Program \subseteq inDir[DirsOf(comp)[i]]

\* When all commands on Node.js or uv are installations and all have answered
\* Ok, the component is there with all its files, however their removals,
\* downloads and unpackings interleaved: each looks for all of them at its end
\* (common.rs:10-59).  Python is looked for by its program alone, so for it this
\* holds of a command that is the only one.
AllOkMeansWhole ==
  \A comp \in ComponentIds :
    /\ CallsOn(comp) # {}
    /\ comp = "python" => \A c, d \in CallsOn(comp) : c = d
    /\ \A c \in CallsOn(comp) : cmd[c].kind # "uninstall" /\ cmd[c].answer = "ok"
    => WholeComponent(comp)
=============================================================================
