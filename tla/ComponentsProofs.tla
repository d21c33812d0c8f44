--------------------------- MODULE ComponentsProofs ---------------------------
(***************************************************************************)
(* Proofs about the runtimes and the programs run with them.               *)
(*                                                                         *)
(* Components, for any number of commands:                                 *)
(*   ComponentsTypeCorrect  the types,                                     *)
(*   OkMeansWhole           AllOkMeansWhole.                               *)
(* Node.js and uv are looked for whole at the end of a command, so it is   *)
(* enough to look at the moments when nothing is under way (QuietInv).     *)
(* Python is not, and a command that is alone is followed from step to     *)
(* step (LoneInv).                                                         *)
(*                                                                         *)
(* PythonEnv, for any releases:                                            *)
(*   EnvTypeCorrect  the types,                                            *)
(*   JobsHeal        RepairsHeal.                                          *)
(* HealInv follows a job: after its removals an update or a repair has     *)
(* nothing but what it has made itself; a start has what the last job      *)
(* left, which is whole unless the history variable says otherwise.        *)
(***************************************************************************)
EXTENDS Components, PythonEnv, TLAPS

\* A command is at a directory of its component.
AtItsDir == \A c \in ComponentCalls : cmd[c].at \in DOMAIN DirsOf(cmd[c].comp)

\* What a command's kind and component say of where it may be.
Course ==
  \A c \in ComponentCalls :
    /\ cmd[c].pc = "begin" => cmd[c].at = 1
    /\ cmd[c].pc = "remove" => cmd[c].kind = "uninstall" \/ cmd[c].comp = "python"
    /\ cmd[c].pc = "missing" => cmd[c].comp = "python"
    /\ cmd[c].answer = "ok" => cmd[c].pc = "done"

\* A command that has not begun, or has installed its component.
Rests(c) ==
  \/ cmd[c].pc = "begin"
  \/ cmd[c].pc = "done" /\ cmd[c].answer = "ok" /\ cmd[c].kind # "uninstall"

\* While every command on Node.js or uv rests, all of it is there, or nothing
\* and none has begun.
QuietInv ==
  \A comp \in {"nodejs", "uv"} :
    (\A c \in CallsOn(comp) : Rests(c)) =>
      \/ Program \subseteq inDir[comp]
      \/ inDir[comp] = NoDir /\ \A c \in CallsOn(comp) : cmd[c].pc = "begin"

Whole(i) == Program \subseteq inDir[DirsOf("python")[i]]
NoProgram(i) == inDir[DirsOf("python")[i]] \cap Program = {}
Clean(i) == inDir[DirsOf("python")[i]] = NoDir \/ Whole(i)

\* The only command on Python, and not a removal.
Lone(c) == CallsOn("python") = {c} /\ cmd[c].kind # "uninstall"

\* Where it is says what is in the two directories: those before the one it is
\* at are whole, the other is whole or not there, and its own has so much of the
\* program as it has unpacked.
LoneAt(c) ==
  LET at == cmd[c].at
      pc == cmd[c].pc
  IN  /\ pc \in {"begin", "remove", "missing", "lookup", "prepare"} => Clean(1) /\ Clean(2)
      /\ pc \in {"download", "receive", "open", "unpack", "verify"} => Clean(3 - at)
      /\ pc \in {"lookup", "prepare", "download", "receive", "open", "unpack", "verify"} /\ at = 2
           => Whole(1)
      /\ pc \in {"download", "receive", "open"} => NoProgram(at)
      /\ pc = "unpack" =>
           \/ \A f \in Program : f \in inDir[DirsOf("python")[at]] <=> f \notin cmd[c].left
           \/ cmd[c].left = {} /\ NoProgram(at)
      /\ pc = "verify" => Whole(at) \/ NoProgram(at)
      /\ cmd[c].answer = "ok" => Whole(1) /\ Whole(2)

LoneInv == \A c \in ComponentCalls : Lone(c) => LoneAt(c)
-----------------------------------------------------------------------------
(* Components: where a command goes.                                       *)

Pcs == {"begin", "remove", "missing", "lookup", "prepare", "download", "receive", "open",
        "unpack", "verify", "done"}
AnswersOf == {"none", "ok", "err", "killed"}
DirContents == {NoDir} \cup SUBSET (Program \cup {"archive"})

\* A command goes on as the same command.
MovesTo(c, pc, at, left, answer) ==
  /\ cmd' \in [ComponentCalls -> ComponentCommands]
  /\ \A d \in ComponentCalls \ {c} : cmd'[d] = cmd[d]
  /\ cmd'[c].kind = cmd[c].kind /\ cmd'[c].comp = cmd[c].comp
  /\ cmd'[c].pc = pc /\ cmd'[c].at = at /\ cmd'[c].left = left /\ cmd'[c].answer = answer

\* A component's directories.
LEMMA DirsOfComponents ==
  /\ DOMAIN DirsOf("python") = {1, 2} /\ Len(DirsOf("python")) = 2
  /\ DirsOf("python")[1] = "py310" /\ DirsOf("python")[2] = "py312"
  /\ \A comp \in {"nodejs", "uv"} :
       DOMAIN DirsOf(comp) = {1} /\ Len(DirsOf(comp)) = 1 /\ DirsOf(comp)[1] = comp
BY DEF DirsOf

\* What the ways of going on leave of a command.
LEMMA GoingOn ==
  ASSUME ComponentsTypeOK, NEW c \in ComponentCalls
  PROVE  /\ \A pc \in Pcs : Goes(c, pc) => MovesTo(c, pc, cmd[c].at, cmd[c].left, cmd[c].answer)
         /\ \A pc \in Pcs, i \in 1..2 :
              GoesAt(c, pc, i) => MovesTo(c, pc, i, cmd[c].left, cmd[c].answer)
         /\ \A answer \in AnswersOf :
              Answers(c, answer) => MovesTo(c, "done", cmd[c].at, cmd[c].left, answer)
<1>1. cmd \in [ComponentCalls -> ComponentCommands] /\ cmd[c] \in ComponentCommands
  BY DEF ComponentsTypeOK
<1>2. \A x : cmd' = [cmd EXCEPT ![c] = x] /\ x \in ComponentCommands =>
        /\ cmd' \in [ComponentCalls -> ComponentCommands]
        /\ cmd'[c] = x /\ \A d \in ComponentCalls \ {c} : cmd'[d] = cmd[d]
  BY <1>1
<1>3. \A pc \in Pcs : Goes(c, pc) => MovesTo(c, pc, cmd[c].at, cmd[c].left, cmd[c].answer)
  <2> SUFFICES ASSUME NEW pc \in Pcs, Goes(c, pc)
               PROVE  MovesTo(c, pc, cmd[c].at, cmd[c].left, cmd[c].answer)
    OBVIOUS
  <2>1. [cmd[c] EXCEPT !.pc = pc] \in ComponentCommands
    BY <1>1 DEF ComponentCommands, Pcs
  <2>2. cmd' = [cmd EXCEPT ![c] = [cmd[c] EXCEPT !.pc = pc]]
    BY DEF Goes
  <2> QED
    BY <1>1, <1>2, <2>1, <2>2 DEF MovesTo, ComponentCommands
<1>4. \A pc \in Pcs, i \in 1..2 :
        GoesAt(c, pc, i) => MovesTo(c, pc, i, cmd[c].left, cmd[c].answer)
  <2> SUFFICES ASSUME NEW pc \in Pcs, NEW i \in 1..2, GoesAt(c, pc, i)
               PROVE  MovesTo(c, pc, i, cmd[c].left, cmd[c].answer)
    OBVIOUS
  <2>1. [cmd[c] EXCEPT !.pc = pc, !.at = i] \in ComponentCommands
    BY <1>1 DEF ComponentCommands, Pcs
  <2>2. cmd' = [cmd EXCEPT ![c] = [cmd[c] EXCEPT !.pc = pc, !.at = i]]
    BY <1>1 DEF GoesAt
  <2> QED
    BY <1>1, <1>2, <2>1, <2>2 DEF MovesTo, ComponentCommands
<1>5. \A answer \in AnswersOf :
        Answers(c, answer) => MovesTo(c, "done", cmd[c].at, cmd[c].left, answer)
  <2> SUFFICES ASSUME NEW answer \in AnswersOf, Answers(c, answer)
               PROVE  MovesTo(c, "done", cmd[c].at, cmd[c].left, answer)
    OBVIOUS
  <2>1. [cmd[c] EXCEPT !.pc = "done", !.answer = answer] \in ComponentCommands
    BY <1>1 DEF ComponentCommands, AnswersOf
  <2>2. cmd' = [cmd EXCEPT ![c] = [cmd[c] EXCEPT !.pc = "done", !.answer = answer]]
    BY <1>1 DEF Answers
  <2> QED
    BY <1>1, <1>2, <2>1, <2>2 DEF MovesTo, ComponentCommands
<1> QED
  BY <1>3, <1>4, <1>5

\* The files it has yet to unpack, when it begins to and as it does.
LEMMA GoingOnUnpacking ==
  ASSUME ComponentsTypeOK, NEW c \in ComponentCalls, NEW left \in SUBSET Program
  PROVE  /\ cmd' = [cmd EXCEPT ![c].pc = "unpack", ![c].left = left]
              => MovesTo(c, "unpack", cmd[c].at, left, cmd[c].answer)
         /\ cmd' = [cmd EXCEPT ![c].left = left]
              => MovesTo(c, cmd[c].pc, cmd[c].at, left, cmd[c].answer)
<1>1. cmd \in [ComponentCalls -> ComponentCommands] /\ cmd[c] \in ComponentCommands
  BY DEF ComponentsTypeOK
<1>2. \A x : cmd' = [cmd EXCEPT ![c] = x] /\ x \in ComponentCommands =>
        /\ cmd' \in [ComponentCalls -> ComponentCommands]
        /\ cmd'[c] = x /\ \A d \in ComponentCalls \ {c} : cmd'[d] = cmd[d]
  BY <1>1
<1>3. /\ [cmd[c] EXCEPT !.pc = "unpack", !.left = left] \in ComponentCommands
      /\ [cmd[c] EXCEPT !.left = left] \in ComponentCommands
  BY <1>1 DEF ComponentCommands
<1>4. ASSUME cmd' = [cmd EXCEPT ![c].pc = "unpack", ![c].left = left]
      PROVE  MovesTo(c, "unpack", cmd[c].at, left, cmd[c].answer)
  <2>1. cmd' = [cmd EXCEPT ![c] = [cmd[c] EXCEPT !.pc = "unpack", !.left = left]]
    BY <1>1, <1>4
  <2> QED
    BY <1>1, <1>2, <1>3, <2>1 DEF MovesTo, ComponentCommands
<1>5. ASSUME cmd' = [cmd EXCEPT ![c].left = left]
      PROVE  MovesTo(c, cmd[c].pc, cmd[c].at, left, cmd[c].answer)
  BY <1>1, <1>2, <1>3, <1>5 DEF MovesTo, ComponentCommands
<1> QED
  BY <1>4, <1>5

\* Python's next runtime that is not there, if there is one.
LEMMA NextMissing ==
  ASSUME ComponentsTypeOK, NEW c \in ComponentCalls, NEW i \in 1..3, InstallMissing(c, i)
  PROVE  LET there(j) == DirInstalled(DirsOf(cmd[c].comp)[j])
         IN  \/ /\ MovesTo(c, "done", cmd[c].at, cmd[c].left, "ok")
                /\ \A j \in DOMAIN DirsOf(cmd[c].comp) : j >= i => there(j)
             \/ \E j \in DOMAIN DirsOf(cmd[c].comp) :
                  /\ MovesTo(c, "lookup", j, cmd[c].left, cmd[c].answer)
                  /\ j >= i
                  /\ \A k \in DOMAIN DirsOf(cmd[c].comp) : k >= i /\ k < j => there(k)
<1> DEFINE dirs == DOMAIN DirsOf(cmd[c].comp)
           there(j) == DirInstalled(DirsOf(cmd[c].comp)[j])
           missing == {j \in dirs : j >= i /\ ~there(j)}
<1>1. dirs \subseteq 1..2
  BY DirsOfComponents DEF ComponentsTypeOK, ComponentCommands, ComponentIds
<1>2. CASE missing = {}
  BY <1>2, GoingOn DEF InstallMissing, AnswersOf
<1>3. CASE missing # {}
  <2>1. PICK j \in missing : (\A k \in missing : j <= k) /\ GoesAt(c, "lookup", j)
    BY <1>3 DEF InstallMissing
  <2>2. MovesTo(c, "lookup", j, cmd[c].left, cmd[c].answer)
    BY <1>1, <2>1, GoingOn DEF Pcs
  <2>3. \A k \in dirs : k >= i /\ k < j => there(k)
    BY <1>1, <2>1
  <2> QED
    BY <2>1, <2>2, <2>3
<1> QED
  BY <1>2, <1>3

\* A command at a directory of its component is at one of the four.
LEMMA DirInDirs ==
  ASSUME ComponentsTypeOK, AtItsDir, NEW c \in ComponentCalls
  PROVE  /\ DirIn(c) \in Dirs
         /\ cmd[c].comp \in {"nodejs", "uv"} => DirIn(c) = cmd[c].comp
         /\ cmd[c].comp = "python" => DirIn(c) \in {"py310", "py312"}
BY DirsOfComponents
   DEF ComponentsTypeOK, ComponentCommands, ComponentIds, AtItsDir, DirIn, Dirs

\* What an action of a command does to the command.
CommandStep(c) ==
  \/ BeginInstall(c) \/ BeginReinstall(c) \/ BeginUninstall(c)
  \/ RemoveDir(c) \/ AfterRemoval(c) \/ LookUpAsset(c) \/ MakeEmptyDir(c)
  \/ CreateArchive(c) \/ ReceiveArchive(c) \/ DownloadFailsEarly(c) \/ ComponentHangUp(c)
  \/ OpenArchive(c) \/ UnpackFile(c) \/ RemoveArchive(c) \/ FindPrograms(c)

\* What an action of a command may change: the command, and one directory.
CommandChanges(c) ==
  \E pc \in Pcs \ {"begin"}, at \in DOMAIN DirsOf(cmd[c].comp), left \in SUBSET Program,
     answer \in AnswersOf :
    /\ MovesTo(c, pc, at, left, answer)
    /\ pc = "remove" => cmd[c].kind = "uninstall" \/ cmd[c].comp = "python"
    /\ pc = "missing" => cmd[c].comp = "python"
    /\ answer = "ok" => pc = "done"

DirChanges(c) == \E files \in DirContents : inDir' \in {inDir, [inDir EXCEPT ![DirIn(c)] = files]}

LEMMA StepChanges ==
  ASSUME ComponentsTypeOK, AtItsDir, Course, NEW c \in ComponentCalls, CommandStep(c)
  PROVE  CommandChanges(c) /\ DirChanges(c)
<1>0. /\ cmd[c] \in ComponentCommands /\ cmd[c].at \in DOMAIN DirsOf(cmd[c].comp)
      /\ cmd[c].left \in SUBSET Program /\ cmd[c].answer \in AnswersOf
      /\ cmd[c].comp \in ComponentIds /\ DOMAIN DirsOf(cmd[c].comp) \subseteq 1..2
      /\ 1 \in DOMAIN DirsOf(cmd[c].comp)
      /\ \A i \in DOMAIN DirsOf(cmd[c].comp) :
            i < Len(DirsOf(cmd[c].comp)) => i + 1 \in DOMAIN DirsOf(cmd[c].comp)
  BY DirsOfComponents DEF ComponentsTypeOK, AtItsDir, ComponentCommands, AnswersOf, ComponentIds
<1>1. inDir[DirIn(c)] \in DirContents /\ inDir \in [Dirs -> DirContents]
  BY DirInDirs DEF ComponentsTypeOK, DirContents
<1>2. cmd[c].pc # "done" => cmd[c].answer # "ok"
  BY DEF Course
<1> USE <1>0, <1>1, <1>2, GoingOn DEF CommandChanges, DirChanges, Pcs, AnswersOf
<1>a. ASSUME NEW rest \in SUBSET inDir[DirIn(c)], inDir[DirIn(c)] # NoDir PROVE rest \in DirContents
  BY <1>a DEF DirContents
<1>b. inDir[DirIn(c)] \ {"archive"} \in DirContents
  BY DEF DirContents, NoDir, Program
<1>3. CASE BeginInstall(c)
  BY <1>3, NextMissing DEF BeginInstall
<1>4. CASE BeginReinstall(c)
  BY <1>4 DEF BeginReinstall
<1>5. CASE BeginUninstall(c)
  BY <1>5 DEF BeginUninstall
<1>6. CASE RemoveDir(c)
  <2>1. CommandChanges(c)
    BY <1>6 DEF RemoveDir, Course
  <2>2. DirChanges(c)
    BY <1>6, <1>a DEF RemoveDir, RemoveTree, RemoveTreeFails, DirContents
  <2> QED
    BY <2>1, <2>2
<1>7. CASE AfterRemoval(c)
  BY <1>7, NextMissing DEF AfterRemoval
<1>8. CASE LookUpAsset(c)
  BY <1>8 DEF LookUpAsset
<1>9. CASE MakeEmptyDir(c)
  <2>1. CommandChanges(c)
    BY <1>9 DEF MakeEmptyDir
  <2>2. DirChanges(c)
    BY <1>9, <1>a DEF MakeEmptyDir, RemoveTreeFails, DirContents
  <2> QED
    BY <2>1, <2>2
<1>10. CASE CreateArchive(c)
  <2>1. CommandChanges(c)
    BY <1>10 DEF CreateArchive
  <2>2. DirChanges(c)
    BY <1>10, <1>a DEF CreateArchive, DirContents
  <2> QED
    BY <2>1, <2>2
<1>11. CASE ReceiveArchive(c)
  <2>1. CommandChanges(c)
    BY <1>11 DEF ReceiveArchive
  <2>2. DirChanges(c)
    BY <1>11, <1>b DEF ReceiveArchive
  <2> QED
    BY <2>1, <2>2
<1>12. CASE DownloadFailsEarly(c)
  BY <1>12 DEF DownloadFailsEarly, DirContents
<1>13. CASE ComponentHangUp(c)
  BY <1>13 DEF ComponentHangUp
<1>14. CASE OpenArchive(c)
  <2>1. CommandChanges(c)
    <3>1. CASE Answers(c, "err")
      BY <3>1
    <3>2. CASE \E content \in SUBSET Program :
                 cmd' = [cmd EXCEPT ![c].pc = "unpack", ![c].left = content]
      <4>1. \E content \in SUBSET Program :
              MovesTo(c, "unpack", cmd[c].at, content, cmd[c].answer)
        BY <3>2, GoingOnUnpacking
      <4> QED
        BY <1>14, <4>1 DEF OpenArchive
    <3> QED
      BY <1>14, <3>1, <3>2 DEF OpenArchive, Program
  <2>2. DirChanges(c)
    BY <1>14 DEF OpenArchive
  <2> QED
    BY <2>1, <2>2
<1>15. CASE UnpackFile(c)
  <2>1. CommandChanges(c)
    <3>1. CASE Answers(c, "err")
      BY <3>1
    <3>2. CASE \E f \in cmd[c].left : cmd' = [cmd EXCEPT ![c].left = @ \ {f}]
      <4>1. PICK f \in cmd[c].left : cmd' = [cmd EXCEPT ![c].left = cmd[c].left \ {f}]
        BY <3>2
      <4>2. MovesTo(c, cmd[c].pc, cmd[c].at, cmd[c].left \ {f}, cmd[c].answer)
        BY <4>1, GoingOnUnpacking
      <4> QED
        BY <1>15, <4>2 DEF UnpackFile
    <3> QED
      BY <1>15, <3>1, <3>2 DEF UnpackFile
  <2>2. DirChanges(c)
    BY <1>15, <1>a DEF UnpackFile, DirContents
  <2> QED
    BY <2>1, <2>2
<1>16. CASE RemoveArchive(c)
  <2>1. CommandChanges(c)
    BY <1>16 DEF RemoveArchive
  <2>2. DirChanges(c)
    BY <1>16, <1>b DEF RemoveArchive
  <2> QED
    BY <2>1, <2>2
<1>17. CASE FindPrograms(c)
  BY <1>17, NextMissing DEF FindPrograms
<1> QED
  BY <1>3, <1>4, <1>5, <1>6, <1>7, <1>8, <1>9, <1>10, <1>11, <1>12, <1>13, <1>14, <1>15, <1>16,
     <1>17 DEF CommandStep

\* A launcher that is killed ends what has begun and touches no directory.
LEMMA KilledChanges ==
  ASSUME ComponentsTypeOK, ComponentsKilled
  PROVE  /\ cmd' \in [ComponentCalls -> ComponentCommands] /\ inDir' = inDir
         /\ \A c \in ComponentCalls :
              \/ cmd'[c] = cmd[c] /\ cmd[c].pc \in {"begin", "done"}
              \/ /\ cmd'[c].kind = cmd[c].kind /\ cmd'[c].comp = cmd[c].comp
                 /\ cmd'[c].at = cmd[c].at /\ cmd'[c].pc = "done" /\ cmd'[c].answer = "killed"
<1>1. \A c \in ComponentCalls :
        [cmd[c] EXCEPT !.pc = "done", !.answer = "killed"] \in ComponentCommands
  BY DEF ComponentsTypeOK, ComponentCommands
<1>2. \A c \in ComponentCalls : cmd[c] \in ComponentCommands
  BY DEF ComponentsTypeOK
<1> QED
  BY <1>1, <1>2 DEF ComponentsKilled, ComponentCommands

\* Every step keeps the types, and commands on their course.
LEMMA ComponentsTypeStep ==
  ComponentsTypeOK /\ AtItsDir /\ Course /\ [ComponentsNext]_componentsVars =>
    ComponentsTypeOK' /\ AtItsDir' /\ Course'
<1> SUFFICES ASSUME ComponentsTypeOK, AtItsDir, Course, [ComponentsNext]_componentsVars
             PROVE  ComponentsTypeOK' /\ AtItsDir' /\ Course'
  OBVIOUS
<1>1. CASE ComponentsKilled
  BY <1>1, KilledChanges DEF ComponentsTypeOK, AtItsDir, Course
<1>2. ASSUME NEW c \in ComponentCalls, CommandStep(c)
      PROVE  ComponentsTypeOK' /\ AtItsDir' /\ Course'
  <2>1. PICK pc \in Pcs \ {"begin"}, at \in DOMAIN DirsOf(cmd[c].comp),
             left \in SUBSET Program, answer \in AnswersOf :
          /\ MovesTo(c, pc, at, left, answer)
          /\ pc = "remove" => cmd[c].kind = "uninstall" \/ cmd[c].comp = "python"
          /\ pc = "missing" => cmd[c].comp = "python"
          /\ answer = "ok" => pc = "done"
    BY <1>2, StepChanges DEF CommandChanges
  <2>2. DirChanges(c)
    BY <1>2, StepChanges
  <2>3. ComponentsTypeOK'
    BY <2>1, <2>2, DirInDirs DEF ComponentsTypeOK, MovesTo, DirChanges, DirContents
  <2>4. AtItsDir' /\ Course'
    BY <2>1 DEF AtItsDir, Course, MovesTo
  <2> QED
    BY <2>3, <2>4
<1>3. CASE UNCHANGED componentsVars
  BY <1>3 DEF componentsVars, ComponentsTypeOK, AtItsDir, Course
<1> QED
  BY <1>1, <1>2, <1>3 DEF ComponentsNext, CommandStep

LEMMA ComponentsInvariant == ComponentsSpec => [](ComponentsTypeOK /\ AtItsDir /\ Course)
<1>1. ComponentsInit => ComponentsTypeOK /\ AtItsDir /\ Course
  <2> SUFFICES ASSUME ComponentsInit PROVE ComponentsTypeOK /\ AtItsDir /\ Course
    OBVIOUS
  <2>1. \A c \in ComponentCalls :
          /\ cmd[c] \in ComponentCommands
          /\ cmd[c].pc = "begin" /\ cmd[c].at = 1 /\ cmd[c].answer = "none"
          /\ cmd[c].comp \in ComponentIds
    BY DEF ComponentsInit, ComponentCommands
  <2>2. ComponentsTypeOK
    BY <2>1 DEF ComponentsInit, ComponentsTypeOK
  <2>3. AtItsDir /\ Course
    BY <2>1, DirsOfComponents DEF AtItsDir, Course, ComponentIds
  <2> QED
    BY <2>2, <2>3
<1> QED
  BY <1>1, ComponentsTypeStep, PTL DEF ComponentsSpec

\* For any number of commands, the variables keep their types.
THEOREM ComponentsTypeCorrect == ComponentsSpec => []ComponentsTypeOK
BY ComponentsInvariant, PTL
-----------------------------------------------------------------------------
(* Components: Node.js and uv.                                             *)

\* What is there of a component that is installed, or that was looked for whole.
LEMMA LookedFor ==
  /\ \A d \in Dirs : DirInstalled(d) => "main" \in inDir[d]
  /\ \A d \in {"nodejs", "uv"} : Verified(d) = Program
  /\ \A d \in {"py310", "py312"} : Verified(d) = {"main"}
  /\ "main" \in Program /\ "main" \notin NoDir
BY DEF DirInstalled, Checked, Verified, Dirs, Program, NoDir

\* Only by an answer of Ok does a command on Node.js or uv come to rest, and then
\* all of it is there, or was when all rested.
LEMMA RestedWell ==
  ASSUME ComponentsTypeOK, AtItsDir, Course, NEW c \in ComponentCalls,
         cmd[c].comp \in {"nodejs", "uv"}, CommandStep(c), Rests(c)'
  PROVE  /\ UNCHANGED inDir
         /\ \/ Rests(c) /\ "main" \in inDir[cmd[c].comp]
            \/ Program \subseteq inDir[cmd[c].comp]
<1> DEFINE comp == cmd[c].comp
<1>0. /\ DirIn(c) = comp /\ DOMAIN DirsOf(comp) = {1} /\ DirsOf(comp)[1] = comp /\ comp \in Dirs
      /\ cmd[c].at = 1
  BY DirInDirs, DirsOfComponents DEF AtItsDir, Dirs
<1>1. cmd'[c].pc = "done" /\ cmd'[c].answer = "ok" /\ cmd[c].kind # "uninstall"
  BY StepChanges DEF CommandChanges, MovesTo, Rests
<1>2. CASE BeginInstall(c)
  <2>1. ComponentInstalled(comp) \/ InstallMissing(c, 1)
    BY <1>2 DEF BeginInstall
  <2>2. DirInstalled(comp)
    BY <1>0, <1>1, <2>1, NextMissing DEF ComponentInstalled, MovesTo
  <2> QED
    BY <1>0, <1>2, <2>2, LookedFor DEF BeginInstall, Rests
<1>3. CASE FindPrograms(c)
  <2>1. ~(Verified(comp) \subseteq inDir[comp]) => FALSE
    BY <1>0, <1>1, <1>3, GoingOn DEF FindPrograms, MovesTo, AnswersOf
  <2> QED
    BY <1>3, <2>1, LookedFor DEF FindPrograms
<1>4. cmd[c].pc # "done" => cmd[c].answer # "ok"
  BY DEF Course
<1>5. ~BeginReinstall(c) /\ ~BeginUninstall(c) /\ ~AfterRemoval(c) /\ ~RemoveDir(c)
  <2>1. cmd[c].pc \notin {"missing", "remove"}
    BY <1>1 DEF Course
  <2> QED
    BY <1>0, <1>1, <2>1, GoingOn DEF BeginReinstall, BeginUninstall, AfterRemoval, RemoveDir, MovesTo, Pcs
<1>6. ~LookUpAsset(c) /\ ~MakeEmptyDir(c) /\ ~CreateArchive(c) /\ ~ReceiveArchive(c)
  BY <1>1, GoingOn
     DEF LookUpAsset, MakeEmptyDir, CreateArchive, ReceiveArchive, MovesTo, Pcs, AnswersOf
<1>7. ~DownloadFailsEarly(c) /\ ~ComponentHangUp(c) /\ ~RemoveArchive(c)
  BY <1>1, GoingOn DEF DownloadFailsEarly, ComponentHangUp, RemoveArchive, MovesTo, Pcs, AnswersOf
<1>8. ~OpenArchive(c) /\ ~UnpackFile(c)
  <2>1. ~Answers(c, "err")
    BY <1>1, GoingOn DEF MovesTo, AnswersOf
  <2>2. ~OpenArchive(c)
    <3>1. \A content \in SUBSET Program :
            cmd' # [cmd EXCEPT ![c].pc = "unpack", ![c].left = content]
      BY <1>1, GoingOnUnpacking DEF MovesTo
    <3> QED
      BY <2>1, <3>1 DEF OpenArchive, Program
  <2>3. ~UnpackFile(c)
    <3>1. cmd[c].left \in SUBSET Program
      BY DEF ComponentsTypeOK, ComponentCommands
    <3>2. \A left \in SUBSET Program :
            cmd[c].pc = "unpack" => cmd' # [cmd EXCEPT ![c].left = left]
      BY <1>1, GoingOnUnpacking DEF MovesTo
    <3> QED
      BY <2>1, <3>1, <3>2 DEF UnpackFile
  <2> QED
    BY <2>2, <2>3
<1> QED
  BY <1>2, <1>3, <1>5, <1>6, <1>7, <1>8 DEF CommandStep

LEMMA QuietStep ==
  ASSUME ComponentsTypeOK, AtItsDir, Course, QuietInv, [ComponentsNext]_componentsVars
  PROVE  QuietInv'
<1> SUFFICES ASSUME NEW comp \in {"nodejs", "uv"}, (\A c \in CallsOn(comp) : Rests(c))'
             PROVE  \/ Program \subseteq inDir'[comp]
                    \/ inDir'[comp] = NoDir /\ (\A c \in CallsOn(comp) : cmd[c].pc = "begin")'
  BY DEF QuietInv
<1> DEFINE quiet == \A c \in CallsOn(comp) : Rests(c)
           good == \/ Program \subseteq inDir[comp]
                   \/ inDir[comp] = NoDir /\ \A c \in CallsOn(comp) : cmd[c].pc = "begin"
<1>0. quiet => good
  BY DEF QuietInv
<1>1. CASE ComponentsKilled
  <2>1. \A c \in CallsOn(comp) : c \in CallsOn(comp)' /\ cmd'[c] = cmd[c]
    BY <1>1, KilledChanges DEF CallsOn, Rests
  <2>2. CallsOn(comp)' = CallsOn(comp)
    BY <1>1, KilledChanges DEF CallsOn
  <2>3. quiet
    BY <2>1 DEF Rests
  <2> QED
    BY <1>0, <1>1, <2>1, <2>2, <2>3, KilledChanges
<1>2. ASSUME NEW c \in ComponentCalls, CommandStep(c)
      PROVE  \/ Program \subseteq inDir'[comp]
             \/ inDir'[comp] = NoDir /\ (\A d \in CallsOn(comp) : cmd[d].pc = "begin")'
  <2>1. /\ \A d \in ComponentCalls \ {c} : cmd'[d] = cmd[d]
        /\ cmd'[c].comp = cmd[c].comp
    BY <1>2, StepChanges DEF CommandChanges, MovesTo
  <2>2. CallsOn(comp)' = CallsOn(comp)
    BY <2>1 DEF CallsOn
  <2>3. CASE cmd[c].comp = comp
    <3>1. c \in CallsOn(comp)'
      BY <2>1, <2>3 DEF CallsOn
    <3>2. /\ UNCHANGED inDir
          /\ \/ Rests(c) /\ "main" \in inDir[comp]
             \/ Program \subseteq inDir[comp]
      BY <1>2, <2>3, <3>1, RestedWell
    <3>3. Rests(c) => quiet
      BY <2>1, <2>2 DEF Rests, CallsOn
    <3> QED
      BY <1>0, <3>2, <3>3, LookedFor
  <2>4. CASE cmd[c].comp # comp
    <3>1. c \notin CallsOn(comp)
      BY <2>4 DEF CallsOn
    <3>2. quiet
      BY <2>1, <2>2, <3>1 DEF Rests, CallsOn
    <3>3. DirIn(c) # comp
      BY <2>4, DirInDirs DEF ComponentsTypeOK, ComponentCommands, ComponentIds
    <3>4. inDir'[comp] = inDir[comp]
      BY <1>2, <3>3, StepChanges DEF DirChanges, ComponentsTypeOK, Dirs
    <3> QED
      BY <1>0, <2>1, <2>2, <3>1, <3>2, <3>4 DEF CallsOn
  <2> QED
    BY <2>3, <2>4
<1>3. CASE UNCHANGED componentsVars
  BY <1>0, <1>3 DEF componentsVars, CallsOn, Rests
<1> QED
  BY <1>1, <1>2, <1>3 DEF ComponentsNext, CommandStep
-----------------------------------------------------------------------------
(* Components: Python.                                                     *)

\* A directory that is whole or not there is whole once its program is there.
LEMMA CleanIsWhole ==
  ASSUME NEW i \in {1, 2}, Clean(i), DirInstalled(DirsOf("python")[i]) PROVE Whole(i)
BY LookedFor, DirsOfComponents DEF Clean, Dirs

\* Where a command that goes on to Python's next runtime, or answers, has come to.
LEMMA LoneMissing ==
  ASSUME ComponentsTypeOK, NEW c \in ComponentCalls, cmd[c].comp = "python",
         UNCHANGED inDir, NEW i \in 1..3, InstallMissing(c, i), cmd[c].answer # "ok",
         \A j \in {1, 2} : j < i => Whole(j), \A j \in {1, 2} : j >= i => Clean(j)
  PROVE  LoneAt(c)'
<1>1. /\ \A j \in {1, 2} : (Whole(j)' <=> Whole(j)) /\ (Clean(j)' <=> Clean(j))
      /\ \A j \in {1, 2} : Whole(j) => Clean(j)
  BY DEF Whole, Clean
<1>2. CASE /\ MovesTo(c, "done", cmd[c].at, cmd[c].left, "ok")
           /\ \A j \in {1, 2} : j >= i => DirInstalled(DirsOf("python")[j])
  <2>1. Whole(1) /\ Whole(2)
    BY <1>2, CleanIsWhole
  <2> QED
    BY <1>1, <1>2, <2>1 DEF LoneAt, MovesTo
<1>3. ASSUME NEW j \in {1, 2}, MovesTo(c, "lookup", j, cmd[c].left, cmd[c].answer), j >= i,
             \A k \in {1, 2} : k >= i /\ k < j => DirInstalled(DirsOf("python")[k])
      PROVE  LoneAt(c)'
  <2>1. \A k \in {1, 2} : k < j => Whole(k)
    BY <1>3, CleanIsWhole
  <2> QED
    BY <1>1, <1>3, <2>1 DEF LoneAt, MovesTo
<1> QED
  BY <1>2, <1>3, NextMissing, DirsOfComponents

\* A command that is alone on Python takes a step.
LEMMA LoneCommandStep ==
  ASSUME ComponentsTypeOK, AtItsDir, Course, NEW c \in ComponentCalls, cmd[c].comp = "python",
         cmd[c].kind # "uninstall", LoneAt(c), CommandStep(c)
  PROVE  LoneAt(c)'
<1> DEFINE dir(k) == DirsOf("python")[k]
<1> PICK i \in {1, 2}, o \in {1, 2} : cmd[c].at = i /\ o = 3 - i
  BY DirsOfComponents DEF AtItsDir
<1>0. /\ cmd[c].at = i /\ o = 3 - i /\ DirIn(c) = dir(i) /\ dir(1) = "py310" /\ dir(2) = "py312"
      /\ DOMAIN DirsOf(cmd[c].comp) = {1, 2} /\ Len(DirsOf(cmd[c].comp)) = 2
      /\ inDir \in [Dirs -> DirContents] /\ {dir(1), dir(2)} \subseteq Dirs
  BY DirsOfComponents DEF AtItsDir, DirIn, ComponentsTypeOK, DirContents, Dirs
<1>a. cmd[c].pc # "done" => cmd[c].answer # "ok"
  BY DEF Course
<1>b. ASSUME UNCHANGED inDir
      PROVE  /\ Whole(1)' = Whole(1) /\ Whole(2)' = Whole(2)
             /\ NoProgram(1)' = NoProgram(1) /\ NoProgram(2)' = NoProgram(2)
             /\ Clean(1)' = Clean(1) /\ Clean(2)' = Clean(2)
  BY <1>b DEF Whole, NoProgram, Clean
<1>c. \A files : inDir' = [inDir EXCEPT ![DirIn(c)] = files] =>
        /\ Clean(o) => Clean(o)'
        /\ i = 2 /\ Whole(1) => Whole(1)'
        /\ files \cap Program = {} => NoProgram(i)'
        /\ Program \subseteq files => Whole(i)'
        /\ files = NoDir /\ Clean(o) => Clean(1)' /\ Clean(2)'
  <2> SUFFICES ASSUME NEW files, inDir' = [inDir EXCEPT ![DirIn(c)] = files]
               PROVE  /\ Clean(o) => Clean(o)'
                      /\ i = 2 /\ Whole(1) => Whole(1)'
                      /\ files \cap Program = {} => NoProgram(i)'
                      /\ Program \subseteq files => Whole(i)'
                      /\ files = NoDir /\ Clean(o) => Clean(1)' /\ Clean(2)'
    OBVIOUS
  <2>1. inDir'[dir(i)] = files /\ inDir'[dir(o)] = inDir[dir(o)]
    BY <1>0
  <2> QED
    BY <1>0, <2>1 DEF Whole, NoProgram, Clean
<1>d. ASSUME NEW answer \in {"err", "killed"}, Answers(c, answer) PROVE LoneAt(c)'
  BY <1>d, GoingOn DEF LoneAt, MovesTo, AnswersOf
<1>1. CASE BeginInstall(c)
  <2>1. Clean(1) /\ Clean(2) /\ UNCHANGED inDir
    BY <1>1 DEF BeginInstall, LoneAt
  <2>2. CASE ComponentInstalled(cmd[c].comp) /\ Answers(c, "ok")
    <3>1. Whole(1) /\ Whole(2)
      BY <1>0, <2>1, <2>2, CleanIsWhole DEF ComponentInstalled
    <3> QED
      BY <1>b, <2>1, <2>2, <3>1, GoingOn DEF LoneAt, MovesTo, AnswersOf
  <2>3. CASE InstallMissing(c, 1)
    BY <1>a, <1>1, <2>1, <2>3, LoneMissing DEF BeginInstall
  <2> QED
    BY <1>1, <2>2, <2>3 DEF BeginInstall
<1>2. CASE BeginReinstall(c)
  BY <1>a, <1>b, <1>2, GoingOn DEF BeginReinstall, LoneAt, MovesTo, Pcs
<1>3. CASE BeginUninstall(c)
  BY <1>3 DEF BeginUninstall
<1>4. CASE RemoveDir(c)
  <2>1. Clean(1) /\ Clean(2) /\ cmd[c].answer # "ok"
    BY <1>a, <1>4 DEF RemoveDir, LoneAt
  <2>2. CASE Answers(c, "err")
    BY <1>d, <2>2
  <2>3. CASE RemoveTree(DirIn(c)) /\ \E pc \in {"remove", "missing"}, j \in 1..2 : GoesAt(c, pc, j)
    <3>1. Clean(1)' /\ Clean(2)'
      BY <1>0, <1>c, <2>1, <2>3 DEF RemoveTree
    <3>2. PICK pc \in {"remove", "missing"}, j \in 1..2 :
            MovesTo(c, pc, j, cmd[c].left, cmd[c].answer)
      BY <2>3, GoingOn DEF Pcs
    <3> QED
      BY <2>1, <3>1, <3>2 DEF LoneAt, MovesTo
  <2>4. \/ Answers(c, "err")
        \/ RemoveTree(DirIn(c)) /\ cmd[c].at < 2 /\ GoesAt(c, "remove", cmd[c].at + 1)
        \/ RemoveTree(DirIn(c)) /\ GoesAt(c, "missing", 1)
    BY <1>0, <1>4 DEF RemoveDir
  <2> QED
    BY <1>0, <2>2, <2>3, <2>4
<1>5. CASE AfterRemoval(c)
  BY <1>0, <1>a, <1>5, LoneMissing DEF AfterRemoval, LoneAt
<1>6. CASE LookUpAsset(c)
  BY <1>0, <1>a, <1>b, <1>6, GoingOn DEF LookUpAsset, LoneAt, MovesTo, Pcs, AnswersOf
<1>7. CASE MakeEmptyDir(c)
  <2>1. CASE Answers(c, "err")
    BY <1>d, <2>1
  <2>2. CASE inDir' = [inDir EXCEPT ![DirIn(c)] = {}] /\ Goes(c, "download")
    <3>1. Clean(o) /\ (i = 2 => Whole(1)) /\ cmd[c].answer # "ok"
      BY <1>0, <1>a, <1>7 DEF MakeEmptyDir, LoneAt
    <3>2. NoProgram(i)' /\ Clean(o)' /\ (i = 2 => Whole(1)')
      <4>1. {} \cap Program = {}
        OBVIOUS
      <4> QED
        BY <1>c, <2>2, <3>1, <4>1
    <3>3. MovesTo(c, "download", i, cmd[c].left, cmd[c].answer)
      BY <2>2, GoingOn DEF Pcs
    <3> QED
      BY <3>1, <3>2, <3>3 DEF LoneAt, MovesTo
  <2> QED
    BY <1>7, <2>1, <2>2 DEF MakeEmptyDir
<1>8. CASE CreateArchive(c)
  <2>1. Clean(o) /\ (i = 2 => Whole(1)) /\ NoProgram(i) /\ cmd[c].answer # "ok"
    BY <1>0, <1>a, <1>8 DEF CreateArchive, LoneAt
  <2>2. ((inDir[dir(i)] \ NoDir) \cup {"archive"}) \cap Program = {}
    BY <2>1 DEF NoProgram, Program
  <2>3. NoProgram(i)' /\ Clean(o)' /\ (i = 2 => Whole(1)')
    BY <1>0, <1>c, <1>8, <2>1, <2>2 DEF CreateArchive
  <2>4. MovesTo(c, "receive", i, cmd[c].left, cmd[c].answer)
    BY <1>8, GoingOn DEF CreateArchive, Pcs
  <2> QED
    BY <2>1, <2>3, <2>4 DEF LoneAt, MovesTo
<1>9. CASE ReceiveArchive(c)
  <2>1. CASE Answers(c, "err")
    BY <1>d, <2>1
  <2>2. CASE Goes(c, "open") /\ UNCHANGED inDir
    BY <1>0, <1>a, <1>b, <1>9, <2>2, GoingOn DEF ReceiveArchive, LoneAt, MovesTo, Pcs
  <2> QED
    BY <1>9, <2>1, <2>2 DEF ReceiveArchive
<1>10. CASE DownloadFailsEarly(c)
  BY <1>d, <1>10 DEF DownloadFailsEarly
<1>11. CASE ComponentHangUp(c)
  BY <1>0, <1>a, <1>b, <1>11, GoingOn DEF ComponentHangUp, LoneAt, MovesTo, Pcs, AnswersOf
<1>12. CASE OpenArchive(c)
  <2>1. CASE Answers(c, "err")
    BY <1>d, <2>1
  <2>2. ASSUME NEW content \in {{}, Program},
               cmd' = [cmd EXCEPT ![c].pc = "unpack", ![c].left = content]
        PROVE  LoneAt(c)'
    <3>1. Clean(o) /\ (i = 2 => Whole(1)) /\ NoProgram(i) /\ cmd[c].answer # "ok"
          /\ UNCHANGED inDir
      BY <1>0, <1>a, <1>12 DEF OpenArchive, LoneAt
    <3>2. MovesTo(c, "unpack", i, content, cmd[c].answer)
      BY <2>2, GoingOnUnpacking
    <3>3. NoProgram(i)' /\ Clean(o)' /\ (i = 2 => Whole(1)')
      BY <1>0, <1>b, <3>1
    <3>4. content = {} \/ \A f \in Program : f \in inDir'[dir(i)] <=> f \notin content
      BY <2>2, <3>3 DEF NoProgram
    <3> QED
      BY <3>1, <3>2, <3>3, <3>4 DEF LoneAt, MovesTo
  <2> QED
    BY <1>0, <1>12, <2>1, <2>2 DEF OpenArchive
<1>13. CASE UnpackFile(c)
  <2>1. CASE Answers(c, "err")
    BY <1>d, <2>1
  <2>2. ASSUME NEW f \in cmd[c].left,
               inDir' = [inDir EXCEPT ![DirIn(c)] = (inDir[DirIn(c)] \ NoDir) \cup {f}],
               cmd' = [cmd EXCEPT ![c].left = cmd[c].left \ {f}]
        PROVE  LoneAt(c)'
    <3>1. /\ Clean(o) /\ (i = 2 => Whole(1)) /\ cmd[c].answer # "ok"
          /\ cmd[c].pc = "unpack" /\ cmd[c].left \subseteq Program
          /\ \A g \in Program : g \in inDir[dir(i)] <=> g \notin cmd[c].left
      BY <1>0, <1>a, <1>13 DEF UnpackFile, LoneAt, ComponentsTypeOK, ComponentCommands
    <3>2. MovesTo(c, "unpack", i, cmd[c].left \ {f}, cmd[c].answer)
      BY <2>2, <3>1, GoingOnUnpacking
    <3>3. Clean(o)' /\ (i = 2 => Whole(1)')
      BY <1>0, <1>c, <2>2, <3>1
    <3>4. inDir'[dir(i)] = (inDir[dir(i)] \ NoDir) \cup {f}
      BY <1>0, <2>2
    <3>5. \A g \in Program : g \in inDir'[dir(i)] <=> g \notin cmd[c].left \ {f}
      BY <3>1, <3>4 DEF Program, NoDir
    <3> QED
      BY <3>1, <3>2, <3>3, <3>5 DEF LoneAt, MovesTo
  <2> QED
    BY <1>13, <2>1, <2>2 DEF UnpackFile
<1>14. CASE RemoveArchive(c)
  <2>1. /\ Clean(o) /\ (i = 2 => Whole(1)) /\ cmd[c].answer # "ok"
        /\ Whole(i) \/ NoProgram(i)
    BY <1>0, <1>a, <1>14 DEF RemoveArchive, LoneAt, Whole
  <2>2. PICK files \in {inDir[DirIn(c)], inDir[DirIn(c)] \ {"archive"}} :
          inDir' = [inDir EXCEPT ![DirIn(c)] = files]
    BY <1>0, <1>14 DEF RemoveArchive
  <2>3. /\ Clean(o)' /\ (i = 2 => Whole(1)')
        /\ Whole(i)' \/ NoProgram(i)'
    <3>1. (Program \subseteq files) \/ files \cap Program = {}
      BY <1>0, <2>1, <2>2 DEF Whole, NoProgram, Program
    <3> QED
      BY <1>0, <1>c, <2>1, <2>2, <3>1
  <2>4. MovesTo(c, "verify", i, cmd[c].left, cmd[c].answer)
    BY <1>14, GoingOn DEF RemoveArchive, Pcs
  <2> QED
    BY <2>1, <2>3, <2>4 DEF LoneAt, MovesTo
<1>15. CASE FindPrograms(c)
  <2>1. CASE Answers(c, "err")
    BY <1>d, <2>1
  <2>2. CASE Verified(DirIn(c)) \subseteq inDir[DirIn(c)] /\ InstallMissing(c, i + 1)
    <3>1. /\ Clean(o) /\ (i = 2 => Whole(1)) /\ UNCHANGED inDir
          /\ Whole(i) \/ NoProgram(i)
      BY <1>0, <1>15 DEF FindPrograms, LoneAt
    <3>2. Whole(i)
      BY <1>0, <2>2, <3>1, LookedFor DEF NoProgram
    <3>3. /\ \A j \in {1, 2} : j < i + 1 => Whole(j)
          /\ \A j \in {1, 2} : j >= i + 1 => Clean(j)
      BY <1>0, <3>1, <3>2
    <3> QED
      BY <1>0, <1>a, <1>15, <2>2, <3>1, <3>3, LoneMissing DEF FindPrograms
  <2> QED
    BY <1>15, <2>1, <2>2 DEF FindPrograms
<1> QED
  BY <1>1, <1>2, <1>3, <1>4, <1>5, <1>6, <1>7, <1>8, <1>9, <1>10, <1>11, <1>12, <1>13, <1>14, <1>15
     DEF CommandStep

\* Which command is alone does not change; the others' steps leave it and Python's
\* directories alone.
LEMMA LoneStep ==
  ASSUME ComponentsTypeOK, AtItsDir, Course, LoneInv, [ComponentsNext]_componentsVars
  PROVE  LoneInv'
<1> SUFFICES ASSUME NEW c \in ComponentCalls, Lone(c)' PROVE LoneAt(c)'
  BY DEF LoneInv
<1>1. CASE ComponentsKilled
  <2>1. /\ Lone(c) /\ inDir' = inDir
        /\ \/ cmd'[c] = cmd[c]
           \/ cmd'[c].pc = "done" /\ cmd'[c].answer = "killed"
    BY <1>1, KilledChanges DEF Lone, CallsOn
  <2>2. LoneAt(c)
    BY <2>1 DEF LoneInv
  <2> QED
    BY <2>1, <2>2 DEF LoneAt, Clean, Whole, NoProgram
<1>2. ASSUME NEW d \in ComponentCalls, CommandStep(d) PROVE LoneAt(c)'
  <2>1. /\ \A e \in ComponentCalls \ {d} : cmd'[e] = cmd[e]
        /\ cmd'[d].comp = cmd[d].comp /\ cmd'[d].kind = cmd[d].kind
    BY <1>2, StepChanges DEF CommandChanges, MovesTo
  <2>2. Lone(c)
    BY <2>1 DEF Lone, CallsOn
  <2>3. LoneAt(c) /\ cmd[c].comp = "python" /\ cmd[c].kind # "uninstall"
    BY <2>2 DEF LoneInv, Lone, CallsOn
  <2>4. CASE d = c
    BY <1>2, <2>3, <2>4, LoneCommandStep
  <2>5. CASE d # c
    <3>1. cmd[d].comp \in {"nodejs", "uv"}
      BY <2>2, <2>5 DEF Lone, CallsOn, ComponentsTypeOK, ComponentCommands, ComponentIds
    <3>2. inDir'["py310"] = inDir["py310"] /\ inDir'["py312"] = inDir["py312"]
      BY <1>2, <3>1, StepChanges, DirInDirs DEF DirChanges, ComponentsTypeOK, Dirs
    <3>3. cmd'[c] = cmd[c] /\ cmd[c].at \in {1, 2}
      BY <2>1, <2>3, <2>5, DirsOfComponents DEF AtItsDir
    <3>4. \A i \in {1, 2} : inDir'[DirsOf("python")[i]] = inDir[DirsOf("python")[i]]
      BY <3>2, DirsOfComponents
    <3> QED
      BY <2>3, <3>3, <3>4 DEF LoneAt, Clean, Whole, NoProgram
  <2> QED
    BY <2>4, <2>5
<1>3. CASE UNCHANGED componentsVars
  <2>1. Lone(c)
    BY <1>3 DEF componentsVars, Lone, CallsOn
  <2>2. LoneAt(c)
    BY <2>1 DEF LoneInv
  <2> QED
    BY <1>3, <2>2 DEF componentsVars, LoneAt, Clean, Whole, NoProgram
<1> QED
  BY <1>1, <1>2, <1>3 DEF ComponentsNext, CommandStep

\* For any number of commands on one component or several, with failures,
\* disconnections and kills at any step: when all commands on Node.js or uv, or
\* the only one on Python, are installations that answered Ok, all of the
\* component's files are there (common.rs:10-59).
THEOREM OkMeansWhole == ComponentsSpec => []AllOkMeansWhole
<1>1. ComponentsInit => QuietInv /\ LoneInv
  <2> SUFFICES ASSUME ComponentsInit PROVE QuietInv /\ LoneInv
    OBVIOUS
  <2>1. /\ \A c \in ComponentCalls : cmd[c].pc = "begin" /\ cmd[c].answer = "none"
        /\ \A d \in Dirs : inDir[d] = NoDir \/ inDir[d] = Program
    BY DEF ComponentsInit
  <2>2. QuietInv
    BY <2>1 DEF QuietInv, CallsOn, Dirs
  <2>3. LoneInv
    BY <2>1, DirsOfComponents DEF LoneInv, LoneAt, Clean, Whole, Dirs
  <2> QED
    BY <2>2, <2>3
<1>2. QuietInv /\ LoneInv /\ ComponentsTypeOK /\ AtItsDir /\ Course => AllOkMeansWhole
  <2> SUFFICES ASSUME QuietInv, LoneInv, ComponentsTypeOK, Course, NEW comp \in ComponentIds,
                      CallsOn(comp) # {}, comp = "python" => \A c, d \in CallsOn(comp) : c = d,
                      \A c \in CallsOn(comp) : cmd[c].kind # "uninstall" /\ cmd[c].answer = "ok"
               PROVE  WholeComponent(comp)
    BY DEF AllOkMeansWhole
  <2>1. CASE comp \in {"nodejs", "uv"}
    <3>1. \A c \in CallsOn(comp) : Rests(c) /\ cmd[c].pc = "done"
      BY DEF CallsOn, Course, Rests
    <3>2. Program \subseteq inDir[comp]
      BY <2>1, <3>1 DEF QuietInv
    <3> QED
      BY <2>1, <3>2, DirsOfComponents DEF WholeComponent
  <2>2. CASE comp = "python"
    <3>1. PICK c \in CallsOn(comp) : Lone(c)
      BY <2>2 DEF Lone
    <3>2. Whole(1) /\ Whole(2)
      BY <3>1 DEF LoneInv, LoneAt, CallsOn
    <3> QED
      BY <2>2, <3>2, DirsOfComponents DEF WholeComponent, Whole
  <2> QED
    BY <2>1, <2>2 DEF ComponentIds
<1>3. ComponentsTypeOK /\ AtItsDir /\ Course /\ QuietInv /\ LoneInv
        /\ [ComponentsNext]_componentsVars => QuietInv' /\ LoneInv'
  BY QuietStep, LoneStep
<1> QED
  BY <1>1, <1>2, <1>3, ComponentsInvariant, PTL DEF ComponentsSpec
-----------------------------------------------------------------------------
(* PythonEnv.                                                              *)

\* The code and the environment a version calls for.
CodeOf(v) == [of |-> v, whole |-> TRUE]
VenvFor(v) == [of |-> Needs(v), whole |-> TRUE]

\* What the recorded version left, unless something is still unrepaired.
LeftWhole ==
  ~unrepaired => coreOf \in {NoMain, CodeOf(recorded)} /\ venv \in {NoVenv, VenvFor(recorded)}

\* Where an update or a repair is.
Redeployed ==
  job.kind \in {"update", "repair"} =>
    /\ job.step # "clear" => unrepaired
    /\ job.step = "extract" => coreOf = NoMain
    /\ job.step \in {"venv", "deps", "end"} => coreOf = CodeOf(job.version)
    /\ job.step \in {"extract", "venv"} => venv = NoVenv
    /\ job.step \in {"deps", "end"} => venv = VenvFor(job.version)

\* Where a start is.
Started ==
  job.kind = "start" =>
    /\ job.version = recorded /\ job.step # "clear"
    /\ ~unrepaired /\ job.step \in {"venv", "deps", "end"} => coreOf # NoMain
    /\ ~unrepaired /\ job.step \in {"deps", "end"} => venv # NoVenv

HealInv == LeftWhole /\ Redeployed /\ Started

JobSteps == {"clear", "extract", "venv", "deps", "end"}
EnvJobs == [kind : {"start", "update", "repair"}, version : Releases, step : JobSteps]
-----------------------------------------------------------------------------
\* A job that is at a step is one, and remains the same job at the next step.
LEMMA JobGoesOn ==
  ASSUME EnvTypeOK, job.step \in JobSteps, NEW s \in JobSteps, EnvAt(s)
  PROVE  /\ job \in EnvJobs /\ job' \in EnvJobs
         /\ job'.kind = job.kind /\ job'.version = job.version /\ job'.step = s
<1>1. job \in EnvJobs
  BY DEF EnvTypeOK, NoEnvJob, EnvJobs, JobSteps
<1> QED
  BY <1>1 DEF EnvAt, EnvJobs

\* So much of the code or the environment as a failing step leaves.
LEMMA TornTypes ==
  ASSUME EnvTypeOK
  PROVE  /\ Torn(coreOf) \in {NoMain} \cup [of : Releases, whole : BOOLEAN]
         /\ Torn(venv) \in {NoVenv} \cup [of : Runtimes, whole : BOOLEAN]
<1>1. Torn(NoMain) = NoMain /\ Torn(NoVenv) = NoVenv
  BY DEF Torn, NoMain, NoVenv
<1>2. ASSUME NEW S, NEW x \in [of : S, whole : BOOLEAN]
      PROVE  Torn(x) \in [of : S, whole : BOOLEAN]
  BY <1>2 DEF Torn
<1>3. /\ coreOf = NoMain \/ coreOf \in [of : Releases, whole : BOOLEAN]
      /\ venv = NoVenv \/ venv \in [of : Runtimes, whole : BOOLEAN]
  BY Zenon DEF EnvTypeOK
<1> QED
  BY <1>1, <1>2, <1>3, Zenon

\* Every step keeps the types.
LEMMA EnvTypeStep == EnvTypeOK /\ [EnvNext]_envVars => EnvTypeOK'
<1> SUFFICES ASSUME EnvTypeOK, [EnvNext]_envVars PROVE EnvTypeOK'
  OBVIOUS
<1> USE DEF EnvTypeOK, GivesUp, EnvJobs, JobSteps
<1>1. CASE RuntimesChange
  BY <1>1 DEF RuntimesChange
<1>2. CASE BeginStart
  BY <1>2 DEF BeginStart
<1>3. CASE BeginRedeployment
  BY <1>3 DEF BeginRedeployment
<1>4. CASE ClearBoth
  BY <1>4, JobGoesOn, TornTypes DEF ClearBoth
<1>5. CASE ExtractCode
  <2>1. job.version \in Releases
    BY <1>5 DEF ExtractCode, NoEnvJob
  <2>2. unrepaired' \in BOOLEAN
    BY <1>5, Zenon DEF ExtractCode
  <2>3. /\ coreOf' \in {coreOf, NoMain, [of |-> job.version, whole |-> TRUE],
                        [of |-> job.version, whole |-> FALSE]}
        /\ EnvAt("venv") \/ job' = NoEnvJob
        /\ UNCHANGED <<recorded, venv, runtimes>>
    BY <1>5, Zenon DEF ExtractCode
  <2>4. job.step = "extract"
    BY <1>5 DEF ExtractCode
  <2>5. coreOf' \in {NoMain} \cup [of : Releases, whole : BOOLEAN]
    <3>1. /\ [of |-> job.version, whole |-> TRUE] \in [of : Releases, whole : BOOLEAN]
          /\ [of |-> job.version, whole |-> FALSE] \in [of : Releases, whole : BOOLEAN]
      BY <2>1
    <3>2. coreOf \in {NoMain} \cup [of : Releases, whole : BOOLEAN]
      OBVIOUS
    <3> QED
      BY <2>3, <3>1, <3>2, Zenon
  <2>6. job' \in {NoEnvJob} \cup EnvJobs
    BY <2>3, <2>4, JobGoesOn
  <2> QED
    BY <2>2, <2>3, <2>5, <2>6
<1>6. CASE CreateVenv
  <2>1. Needs(job.version) \in Runtimes
    BY DEF Needs, Runtimes
  <2>2. unrepaired' \in BOOLEAN
    BY <1>6, Zenon DEF CreateVenv
  <2>3. /\ venv' \in {venv, NoVenv, [of |-> Needs(job.version), whole |-> TRUE],
                      [of |-> Needs(job.version), whole |-> FALSE]}
        /\ EnvAt("deps") \/ job' = NoEnvJob
        /\ UNCHANGED <<recorded, coreOf, runtimes>>
    BY <1>6, Zenon DEF CreateVenv
  <2>4. job.step = "venv"
    BY <1>6 DEF CreateVenv
  <2>5. venv' \in {NoVenv} \cup [of : Runtimes, whole : BOOLEAN]
    <3>1. /\ [of |-> Needs(job.version), whole |-> TRUE] \in [of : Runtimes, whole : BOOLEAN]
          /\ [of |-> Needs(job.version), whole |-> FALSE] \in [of : Runtimes, whole : BOOLEAN]
      BY <2>1
    <3>2. venv \in {NoVenv} \cup [of : Runtimes, whole : BOOLEAN]
      OBVIOUS
    <3> QED
      BY <2>3, <3>1, <3>2, Zenon
  <2>6. job' \in {NoEnvJob} \cup EnvJobs
    BY <2>3, <2>4, JobGoesOn
  <2> QED
    BY <2>2, <2>3, <2>5, <2>6
<1>7. CASE SyncDependencies
  BY <1>7, JobGoesOn DEF SyncDependencies
<1>8. CASE EndJob
  <2>1. unrepaired' \in BOOLEAN
    BY <1>8, Zenon DEF EndJob
  <2> QED
    BY <1>8, <2>1 DEF EndJob, NoEnvJob
<1>9. CASE RestoreBackup
  BY <1>9 DEF RestoreBackup
<1>10. CASE EnvKilled
  BY <1>10 DEF EnvKilled
<1>11. CASE UNCHANGED envVars
  BY <1>11 DEF envVars
<1>12. CASE ClearVenv
  BY <1>12, TornTypes DEF ClearVenv
<1> QED
  BY <1>1, <1>2, <1>3, <1>4, <1>5, <1>6, <1>7, <1>8, <1>9, <1>10, <1>11, <1>12 DEF EnvNext

\* For any releases of either Python, the variables keep their types.
THEOREM EnvTypeCorrect == EnvSpec => []EnvTypeOK
<1>1. EnvInit => EnvTypeOK
  BY DEF EnvInit, EnvTypeOK
<1> QED
  BY <1>1, EnvTypeStep, PTL DEF EnvSpec

-----------------------------------------------------------------------------
\* No environment is one of no Python, no code one that is not there.
LEMMA WholeIsThere ==
  ASSUME NEW v PROVE CodeOf(v) # NoMain /\ VenvFor(v) # NoVenv /\ NoVenv.of \notin Runtimes
  BY DEF CodeOf, VenvFor, NoMain, NoVenv, Runtimes

\* A step that records the version of its job finds the whole of it.
LEMMA HealedAtEnd ==
  ASSUME EnvTypeOK, HealInv, [EnvNext]_envVars, job.step = "end",
         job.kind = "start" => ~unrepaired, recorded' = job.version
  PROVE  coreOf = CodeOf(recorded') /\ venv = VenvFor(recorded')
<1>1. job.kind \in {"start", "update", "repair"}
  BY DEF EnvTypeOK, NoEnvJob
<1>2. CASE job.kind = "start"
  BY <1>2 DEF HealInv, LeftWhole, Started
<1>3. CASE job.kind \in {"update", "repair"}
  BY <1>3 DEF HealInv, Redeployed
<1> QED
  BY <1>1, <1>2, <1>3

\* Every step keeps what a job has to do with what is there.
LEMMA HealStep == EnvTypeOK /\ HealInv /\ [EnvNext]_envVars => HealInv'
<1> SUFFICES ASSUME EnvTypeOK, HealInv, [EnvNext]_envVars PROVE HealInv'
  OBVIOUS
<1> USE WholeIsThere DEF HealInv, LeftWhole, Redeployed, Started, GivesUp, NoEnvJob
<1>0. job = NoEnvJob \/ job \in EnvJobs
  BY DEF EnvTypeOK, EnvJobs, JobSteps
<1>1. CASE RuntimesChange
  BY <1>1 DEF RuntimesChange
<1>2. CASE BeginStart
  BY <1>0, <1>2 DEF BeginStart
<1>3. CASE BeginRedeployment
  BY <1>0, <1>3 DEF BeginRedeployment
<1>4. CASE ClearBoth
  BY <1>0, <1>4, JobGoesOn DEF ClearBoth, EnvJobs, JobSteps
<1>5. CASE ExtractCode
  <2>1. CASE EnvAt("venv")
    BY <1>0, <1>5, <2>1, JobGoesOn DEF ExtractCode, EnvJobs, JobSteps, CodeOf
  <2>2. CASE ~EnvAt("venv") /\ GivesUp
    <3>1. coreOf = NoMain /\ unrepaired' = (unrepaired \/ coreOf' # NoMain)
      BY <1>5, <2>2, Zenon DEF ExtractCode
    <3>2. \/ unrepaired'
          \/ coreOf' = coreOf /\ UNCHANGED unrepaired
      <4>1. CASE coreOf' # NoMain
        BY <3>1, <4>1, Zenon
      <4>2. CASE coreOf' = NoMain
        <5>1. unrepaired \in BOOLEAN
          BY DEF EnvTypeOK
        <5>2. unrepaired' = unrepaired
          BY <3>1, <4>2, <5>1, Zenon
        <5> QED
          BY <3>1, <4>2, <5>2
      <4> QED
        BY <4>1, <4>2
    <3>3. UNCHANGED <<recorded, venv>>
      BY <1>5 DEF ExtractCode
    <3> QED
      BY <2>2, <3>2, <3>3
  <2> QED
    BY <1>5, <2>1, <2>2 DEF ExtractCode
<1>6. CASE CreateVenv
  <2>1. CASE EnvAt("deps")
    BY <1>0, <1>6, <2>1, JobGoesOn DEF CreateVenv, EnvJobs, JobSteps, VenvResolves, VenvFor, EnvTypeOK
  <2>2. CASE ~EnvAt("deps") /\ GivesUp
    <3>1. \/ /\ venv' \in {venv, NoVenv, [of |-> Needs(job.version), whole |-> FALSE]}
             /\ unrepaired' = (unrepaired \/ ~venv'.whole)
          \/ UNCHANGED <<venv, unrepaired>>
      BY <1>6, <2>2, Zenon DEF CreateVenv
    <3>2. ~NoVenv.whole /\ ~[of |-> Needs(job.version), whole |-> FALSE].whole
      BY DEF NoVenv
    <3>3. \/ unrepaired'
          \/ venv' = venv /\ UNCHANGED unrepaired
      <4>1. CASE UNCHANGED <<venv, unrepaired>>
        BY <4>1
      <4>2. CASE ~venv'.whole /\ unrepaired' = (unrepaired \/ ~venv'.whole)
        BY <4>2, Zenon
      <4>3. CASE venv'.whole /\ unrepaired' = (unrepaired \/ ~venv'.whole)
        <5>1. unrepaired \in BOOLEAN
          BY DEF EnvTypeOK
        <5>2. unrepaired' = unrepaired
          BY <4>3, <5>1, Zenon
        <5>3. venv' = venv
          BY <3>1, <3>2, <4>3, Zenon
        <5> QED
          BY <5>2, <5>3
      <4> QED
        BY <3>1, <4>1, <4>2, <4>3, Zenon
    <3>4. UNCHANGED <<recorded, coreOf>>
      BY <1>6 DEF CreateVenv
    <3> QED
      BY <2>2, <3>3, <3>4
  <2> QED
    BY <1>6, <2>1, <2>2 DEF CreateVenv
<1>7. CASE SyncDependencies
  BY <1>0, <1>7, JobGoesOn DEF SyncDependencies, EnvJobs, JobSteps
<1>8. CASE EndJob
  BY <1>0, <1>8, HealedAtEnd DEF EndJob, EnvJobs
<1>9. CASE RestoreBackup
  BY <1>9 DEF RestoreBackup
<1>10. CASE EnvKilled
  BY <1>10 DEF EnvKilled
<1>11. CASE UNCHANGED envVars
  BY <1>11 DEF envVars
<1>12. CASE ClearVenv
  BY <1>12 DEF ClearVenv
<1> QED
  BY <1>1, <1>2, <1>3, <1>4, <1>5, <1>6, <1>7, <1>8, <1>9, <1>10, <1>11, <1>12 DEF EnvNext

\* For any releases, runtimes that come and go, failures and kills: an update or
\* a repair that ends well leaves the recorded version's whole code in the Python
\* it needs, and so does a start over what is not unrepaired (crud.rs:240-277,
\* deploy.rs:175-214, python.rs:165-180).
THEOREM JobsHeal == EnvSpec => RepairsHeal
<1>1. EnvInit => HealInv
  BY DEF EnvInit, HealInv, LeftWhole, Redeployed, Started, NoEnvJob
<1>2. EnvTypeOK /\ HealInv /\ [EnvNext]_envVars =>
        [job.step = "end" /\ (job.kind = "start" => ~unrepaired) /\ recorded' = job.version =>
           /\ coreOf = [of |-> recorded', whole |-> TRUE]
           /\ venv = [of |-> Needs(recorded'), whole |-> TRUE]]_envVars
  BY HealedAtEnd DEF CodeOf, VenvFor
<1> QED
  BY <1>1, <1>2, HealStep, EnvTypeCorrect, PTL DEF EnvSpec, RepairsHeal
=============================================================================
