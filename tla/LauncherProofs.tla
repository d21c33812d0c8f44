---------------------------- MODULE LauncherProofs ----------------------------
(***************************************************************************)
(* Proofs about ProcessControl for any PIDs, however often they are reused *)
(* and however many reads a child's path is given:                         *)
(*   ControlTypeCorrect  the types,                                        *)
(*   OkMeansGone         StopMeansGone,                                    *)
(*   AllTargetsEnd       NoneEscapes,                                      *)
(*   StrangersStand      StrangersSpared.                                  *)
(* A process never comes back: under one PID it only moves towards its     *)
(* end, or another takes its place (Follows).  The rest is what a pass has *)
(* still to look at, and what the aimed-at process was when it was aimed   *)
(* at.                                                                     *)
(*                                                                         *)
(* And about MCLauncher, which composes it with the modules the other      *)
(* proofs extended here are about:                                         *)
(*   LauncherImplements    a behaviour of it is one of each of the seven,  *)
(*   LauncherTypesCorrect  LauncherTypeOK.                                 *)
(***************************************************************************)
EXTENDS MCLauncher, SettingsProofs, ComponentsProofs, FileManagerProofs, ClientSessionProofs,
        TLAPS

States == {"running", "ending", "killed", "zombie", "gone"}
Struck(p) == ~Original(p) \/ proc[p].st \in {"killed", "zombie", "gone"}

\* What every step does to the process of a PID.
Follows(p) ==
  \/ proc'[p].gen > proc[p].gen /\ proc'[p].st = "running"
  \/ /\ proc'[p].gen = proc[p].gen /\ proc'[p].exe = proc[p].exe
     /\ proc'[p].st \in {"running", "ending"} => proc[p].st \in {"running", "ending"}
     /\ proc[p].st = "gone" => proc'[p].st = "gone"

\* Where a call is says what kind it is, and a child has been read by then.
CallInv ==
  /\ call # "exit" => \E p \in Pids : targets = {p}
  /\ pc \in {"signal", "force_failed", "first", "poll", "force_rest", "answer"} => call # "launch"
  /\ pc \in {"resolve", "startup", "cancel"} => call = "launch"
  /\ pc \in {"startup", "cancel"} => tries < MaxTry
  /\ verdict # "none" => pc = "done"

\* Whoever is aimed at ran the instance's executable when it was looked at.
AimInv ==
  /\ \A p \in Pids : Original(p) => proc[p].exe = "own"
  /\ pc = "cancel" => aim # NoAim
  /\ aim # NoAim =>
       /\ pc \in {"signal", "force_failed", "force_rest", "cancel"}
       /\ aim.pid \in targets /\ aim.gen =< proc[aim.pid].gen
       /\ aim.gen = proc[aim.pid].gen => proc[aim.pid].exe = "own"

\* What the passes have done by now.
PassInv ==
  /\ pc \in {"first", "poll", "force_rest"} => todo \cap failed = {}
  /\ pc = "force_failed" =>
       \A p \in failed \ dark : p \notin todo /\ p # aim.pid => Struck(p)
  /\ call # "launch" /\ pc \in {"first", "poll", "force_rest", "answer", "done"} =>
       \A p \in targets \ dark : p \notin todo /\ p # aim.pid => Struck(p)
  /\ call # "launch" /\ pc \in {"answer", "done"} => todo = {}

ControlInv == CallInv /\ AimInv /\ PassInv
-----------------------------------------------------------------------------
\* Every step keeps the types; what is aimed at is a target.
LEMMA ControlTypeStep ==
  ControlTypeOK /\ AimInv /\ [ControlNext]_controlVars => ControlTypeOK'
<1> SUFFICES ASSUME ControlTypeOK, AimInv, [ControlNext]_controlVars PROVE ControlTypeOK'
  OBVIOUS
<1> USE ControlAssumption DEF ControlTypeOK, callVars
<1> DEFINE Procs == [Pids -> [gen : 0..MaxGen, exe : Paths, st : States]]
<1>0. /\ proc \in Procs
      /\ \A p \in Pids : \A s \in States : SetState(p, s) => proc' \in Procs
  BY DEF SetState, States
<1>1. CASE BeginCall
  BY <1>1 DEF BeginCall
<1>2. CASE EndPass
  BY <1>2 DEF EndPass, GoTo, AfterSignal, AfterForceFailed, AfterPoll
<1>3. ASSUME NEW p \in Pids, Verify(p) PROVE ControlTypeOK'
  <2>1. [pid |-> p, gen |-> proc[p].gen] \in Aims
    BY DEF Aims
  <2>2. aim' \in Aims
    BY <1>3, <2>1 DEF Verify, Aims
  <2> QED
    BY <1>3, <2>2 DEF Verify
<1>4. CASE GracefulSignal \/ ForceKill \/ CancelKill
  <2>0. NoAim \in Aims
    BY DEF Aims
  <2>1. aim.pid \in Pids /\ aim.pid \in targets
    BY <1>4 DEF AimInv, GracefulSignal, ForceKill, CancelKill
  <2>2. proc' \in Procs
    BY <1>0, <1>4, <2>1 DEF GracefulSignal, ForceKill, CancelKill, Interrupt, Kill, States
  <2>3. failed' \subseteq targets
    BY <1>4, <2>1 DEF GracefulSignal, ForceKill, CancelKill
  <2>4. /\ UNCHANGED <<stubborn, dark, call, targets, todo, late, tries>>
        /\ aim' = NoAim /\ pc' \in {pc, "done"} /\ verdict' \in {verdict, "err"}
    BY <1>4 DEF GracefulSignal, ForceKill, CancelKill
  <2> QED
    BY <2>0, <2>2, <2>3, <2>4 DEF States
<1>5. ASSUME NEW p \in Pids, Poll(p) PROVE ControlTypeOK'
  BY <1>5 DEF Poll
<1>6. CASE Deadline
  BY <1>6 DEF Deadline
<1>7. CASE GiveUpWaiting
  BY <1>7 DEF GiveUpWaiting
<1>8. CASE Answer
  BY <1>8 DEF Answer
<1>9. ASSUME NEW p \in Pids, ResolvePath(p) PROVE ControlTypeOK'
  BY <1>9 DEF ResolvePath
<1>10. ASSUME NEW p \in Pids, KillUnresolved(p) PROVE ControlTypeOK'
  <2>1. proc' \in Procs
    BY <1>0, <1>10 DEF KillUnresolved, States
  <2> QED
    BY <1>10, <2>1 DEF KillUnresolved, States
<1>11. ASSUME NEW p \in Pids, StartupEnds(p) PROVE ControlTypeOK'
  BY <1>11 DEF StartupEnds
<1>12. ASSUME NEW p \in Pids, CancelCheck(p) PROVE ControlTypeOK'
  <2>1. [pid |-> p, gen |-> proc[p].gen] \in Aims
    BY DEF Aims
  <2>2. aim' \in Aims
    BY <1>12, <2>1 DEF CancelCheck, Aims
  <2> QED
    BY <1>12, <2>2 DEF CancelCheck
<1>13. ASSUME NEW p \in Pids, Exit(p) \/ Reap(p) \/ Reuse(p) PROVE ControlTypeOK'
  <2>1. proc' \in Procs
    <3>1. CASE Exit(p) \/ Reap(p)
      BY <1>0, <3>1 DEF Exit, Reap, States
    <3>2. CASE Reuse(p)
      BY <3>2 DEF Reuse, States
    <3> QED
      BY <1>13, <3>1, <3>2
  <2> QED
    BY <1>13, <2>1 DEF Exit, Reap, Reuse, OsOnly, States
<1>14. CASE UNCHANGED controlVars
  BY <1>14 DEF controlVars
<1> QED
  BY <1>1, <1>2, <1>3, <1>4, <1>5, <1>6, <1>7, <1>8, <1>9, <1>10, <1>11, <1>12, <1>13, <1>14
     DEF ControlNext, CallStep

\* No process comes back.
LEMMA NoneComesBack ==
  ASSUME ControlTypeOK, AimInv, [ControlNext]_controlVars, NEW p \in Pids
  PROVE  Follows(p)
<1> USE ControlAssumption DEF ControlTypeOK, Follows
<1>1. CASE proc' = proc
  BY <1>1
<1>2. ASSUME NEW q \in Pids, NEW s \in {"zombie", "gone", "ending", "killed"}, SetState(q, s),
             proc[q].st = "gone" => s = "gone",
             s = "ending" => proc[q].st = "running"
      PROVE  Follows(p)
  <2>1. CASE p = q
    BY <1>2, <2>1 DEF SetState
  <2>2. CASE p # q
    BY <1>2, <2>2 DEF SetState
  <2> QED
    BY <2>1, <2>2
<1>3. ASSUME NEW q \in Pids, Exit(q) \/ Reap(q) PROVE Follows(p)
  BY <1>2, <1>3 DEF Exit, Reap
<1>4. ASSUME NEW q \in Pids, Reuse(q) PROVE Follows(p)
  <2>1. CASE p = q
    BY <1>4, <2>1 DEF Reuse
  <2>2. CASE p # q
    BY <1>4, <2>2 DEF Reuse
  <2> QED
    BY <2>1, <2>2
<1>5. CASE GracefulSignal \/ ForceKill \/ CancelKill
  <2>1. aim.pid \in Pids
    BY <1>5 DEF AimInv, GracefulSignal, ForceKill, CancelKill
  <2>2. \/ proc' = proc
        \/ SetState(aim.pid, "ending") /\ proc[aim.pid].st = "running"
        \/ SetState(aim.pid, "killed") /\ proc[aim.pid].st \in {"running", "ending"}
    BY <1>5 DEF GracefulSignal, ForceKill, CancelKill, Interrupt, Kill
  <2> QED
    BY <1>1, <1>2, <2>1, <2>2
<1>6. ASSUME NEW q \in Pids, KillUnresolved(q) PROVE Follows(p)
  BY <1>2, <1>6 DEF KillUnresolved
<1>7. CASE BeginCall \/ EndPass \/ GiveUpWaiting \/ Answer \/ Deadline \/ UNCHANGED controlVars
  BY <1>1, <1>7 DEF BeginCall, EndPass, GiveUpWaiting, Answer, Deadline, controlVars
<1>8. ASSUME NEW q \in Pids,
             Verify(q) \/ Poll(q) \/ ResolvePath(q) \/ StartupEnds(q) \/ CancelCheck(q)
      PROVE  Follows(p)
  BY <1>1, <1>8 DEF Verify, Poll, ResolvePath, StartupEnds, CancelCheck
<1> QED
  BY <1>3, <1>4, <1>5, <1>6, <1>7, <1>8 DEF ControlNext, CallStep

\* So one that is struck, or gone, remains so.
LEMMA StruckForGood ==
  ASSUME ControlTypeOK, ControlTypeOK', AimInv, [ControlNext]_controlVars, NEW p \in Pids
  PROVE  /\ Struck(p) => Struck(p)'
         /\ ~Original(p) => ~Original(p)'
         /\ ~Original(p) \/ proc[p].st = "gone" => (~Original(p) \/ proc[p].st = "gone")'
<1>1. Follows(p)
  BY NoneComesBack
<1>2. proc[p].gen \in Nat /\ proc'[p].gen \in Nat /\ proc'[p].st \in States
  BY ControlAssumption DEF ControlTypeOK, States
<1> QED
  BY <1>1, <1>2 DEF Follows, Struck, Original, States

-----------------------------------------------------------------------------
\* Every step keeps what a call's place says of it.
LEMMA CallStepKeeps == ControlTypeOK /\ CallInv /\ [ControlNext]_controlVars => CallInv'
<1> SUFFICES ASSUME ControlTypeOK, CallInv, [ControlNext]_controlVars PROVE CallInv'
  OBVIOUS
<1> USE DEF CallInv, callVars
<1>1. CASE BeginCall \/ EndPass
  BY <1>1 DEF BeginCall, EndPass, GoTo, AfterSignal, AfterForceFailed, AfterPoll, ControlTypeOK
<1>2. ASSUME NEW p \in Pids, Verify(p) \/ Poll(p) PROVE CallInv'
  BY <1>2 DEF Verify, Poll
<1>3. CASE GracefulSignal \/ ForceKill \/ CancelKill
  BY <1>3 DEF GracefulSignal, ForceKill, CancelKill
<1>4. CASE Deadline \/ GiveUpWaiting \/ Answer
  BY <1>4 DEF Deadline, GiveUpWaiting, Answer
<1>5. ASSUME NEW p \in Pids, ResolvePath(p) PROVE CallInv'
  BY <1>5 DEF ResolvePath
<1>6. ASSUME NEW p \in Pids, KillUnresolved(p) \/ StartupEnds(p) \/ CancelCheck(p) PROVE CallInv'
  BY <1>6 DEF KillUnresolved, StartupEnds, CancelCheck
<1>7. ASSUME NEW p \in Pids, Exit(p) \/ Reap(p) \/ Reuse(p) PROVE CallInv'
  BY <1>7 DEF Exit, Reap, Reuse, OsOnly
<1>8. CASE UNCHANGED controlVars
  BY <1>8 DEF controlVars
<1> QED
  BY <1>1, <1>2, <1>3, <1>4, <1>5, <1>6, <1>7, <1>8 DEF ControlNext, CallStep

\* Every step keeps what the aimed-at process was.
LEMMA AimStepKeeps ==
  ControlTypeOK /\ ControlTypeOK' /\ CallInv /\ AimInv /\ [ControlNext]_controlVars => AimInv'
<1> SUFFICES ASSUME ControlTypeOK, ControlTypeOK', CallInv, AimInv, [ControlNext]_controlVars
             PROVE  AimInv'
  OBVIOUS
<1>0. /\ \A p \in Pids : Follows(p)
      /\ \A p \in Pids : proc[p].gen \in Nat /\ proc'[p].gen \in Nat
      /\ aim \in Aims /\ aim.gen \in Nat /\ targets \subseteq Pids
      /\ aim # NoAim => aim.pid \in Pids
  BY NoneComesBack, ControlAssumption DEF ControlTypeOK, Aims, NoAim
<1>1. \A p \in Pids : Original(p)' => proc'[p].exe = "own"
  BY <1>0 DEF Follows, Original, AimInv
<1>2. CASE UNCHANGED <<aim, targets>> /\ pc' = pc
  BY <1>0, <1>1, <1>2 DEF Follows, AimInv
<1>3. CASE aim = NoAim /\ aim' = NoAim /\ pc' # "cancel"
  BY <1>1, <1>3 DEF AimInv
<1>4. CASE BeginCall \/ EndPass \/ GiveUpWaiting \/ Answer
  BY <1>3, <1>4 DEF BeginCall, EndPass, GiveUpWaiting, Answer, GoTo, AfterSignal, AfterForceFailed,
     AfterPoll, AimInv
<1>5. ASSUME NEW p \in Pids, Verify(p) PROVE AimInv'
  <2>1. p \in targets /\ targets' = targets /\ proc' = proc /\ pc' = pc
    BY <1>5 DEF Verify, callVars, ControlTypeOK
  <2>2. pc \in {"signal", "force_failed", "force_rest"}
    BY <1>5 DEF Verify
  <2>3. \/ aim' = NoAim
        \/ aim' = [pid |-> p, gen |-> proc[p].gen] /\ proc[p].exe = "own"
    BY <1>5 DEF Verify, CanSignal, Verdicts
  <2> QED
    BY <1>0, <1>1, <2>1, <2>2, <2>3 DEF AimInv
<1>6. CASE GracefulSignal \/ ForceKill \/ CancelKill
  BY <1>1, <1>6 DEF GracefulSignal, ForceKill, CancelKill, AimInv
<1>7. ASSUME NEW p \in Pids, Poll(p) PROVE AimInv'
  BY <1>3, <1>7 DEF Poll, AimInv
<1>8. CASE Deadline
  BY <1>2, <1>8 DEF Deadline, callVars
<1>9. ASSUME NEW p \in Pids, ResolvePath(p) \/ KillUnresolved(p) \/ StartupEnds(p) PROVE AimInv'
  BY <1>3, <1>9 DEF ResolvePath, KillUnresolved, StartupEnds, AimInv
<1>10. ASSUME NEW p \in Pids, CancelCheck(p) PROVE AimInv'
  <2>1. p \in targets /\ targets' = targets /\ proc' = proc
    BY <1>10 DEF CancelCheck, callVars
  <2>2. \/ aim' = NoAim /\ pc' = "done"
        \/ aim' = [pid |-> p, gen |-> proc[p].gen] /\ proc[p].exe = "own" /\ pc' = "cancel"
    BY <1>10 DEF CancelCheck, CanSignal, Verdicts
  <2>3. [pid |-> p, gen |-> proc[p].gen] # NoAim
    BY ControlAssumption DEF NoAim
  <2> QED
    BY <1>0, <1>1, <2>1, <2>2, <2>3 DEF AimInv
<1>11. ASSUME NEW p \in Pids, Exit(p) \/ Reap(p) \/ Reuse(p) PROVE AimInv'
  BY <1>2, <1>11 DEF Exit, Reap, Reuse, OsOnly, callVars
<1>12. CASE UNCHANGED controlVars
  BY <1>2, <1>12 DEF controlVars
<1> QED
  BY <1>4, <1>5, <1>6, <1>7, <1>8, <1>9, <1>10, <1>11, <1>12 DEF ControlNext, CallStep

\* A target the path of which can be read, and that is not the instance's own
\* process alive, is struck already.
LEMMA NotAliveIsStruck ==
  ASSUME ControlTypeOK, AimInv, NEW p \in Pids \ dark,
         FALSE \in CanSignal(p) \/ FALSE \in ExpectedAlive(p)
  PROVE  Struck(p)
<1>1. proc[p].st \in {"zombie", "gone"} \/ proc[p].exe # "own"
  BY DEF CanSignal, ExpectedAlive, Verdicts, IsProcessAlive
<1> QED
  BY <1>1 DEF AimInv, Struck

\* Every step keeps what the passes have done.
LEMMA PassStepKeeps ==
  /\ ControlTypeOK /\ ControlTypeOK' /\ CallInv /\ AimInv /\ PassInv /\ [ControlNext]_controlVars
  => PassInv'
<1> SUFFICES ASSUME ControlTypeOK, ControlTypeOK', CallInv, AimInv, PassInv,
                    [ControlNext]_controlVars
             PROVE  PassInv'
  OBVIOUS
<1>0. /\ \A p \in Pids : Struck(p) => Struck(p)'
      /\ targets \subseteq Pids /\ todo \subseteq targets /\ failed \subseteq targets
      /\ NoAim.pid \notin Pids
  BY StruckForGood, ControlAssumption DEF ControlTypeOK, NoAim
<1>1. CASE UNCHANGED <<dark, call, targets, todo, failed, aim>> /\ pc' = pc
  BY <1>0, <1>1 DEF PassInv
<1>2. CASE BeginCall
  BY <1>2 DEF BeginCall, CallInv, PassInv, callVars
<1>3. CASE EndPass
  <2>0. aim = NoAim /\ todo = {} /\ UNCHANGED <<dark, call, targets, failed, aim>>
    BY <1>3 DEF EndPass, callVars
  <2>1. CASE pc = "signal"
    BY <1>0, <1>3, <2>0, <2>1 DEF EndPass, GoTo, AfterSignal, PassInv
  <2>2. CASE pc = "force_failed"
    <3>1. \A p \in failed \ dark : Struck(p)'
      BY <1>0, <2>0, <2>2 DEF PassInv
    <3> QED
      BY <1>0, <1>3, <2>0, <2>2, <3>1 DEF EndPass, GoTo, AfterForceFailed, PassInv
  <2>3. CASE pc \in {"first", "poll", "force_rest"}
    <3>1. call # "launch" => \A p \in targets \ dark : Struck(p)'
      BY <1>0, <2>0, <2>3 DEF PassInv
    <3> QED
      BY <1>0, <1>3, <2>0, <2>3, <3>1 DEF EndPass, GoTo, AfterPoll, PassInv
  <2> QED
    BY <1>3, <2>1, <2>2, <2>3 DEF EndPass
<1>4. ASSUME NEW p \in Pids, Verify(p) PROVE PassInv'
  <2>1. /\ UNCHANGED <<dark, call, targets, failed>> /\ pc' = pc /\ todo' = todo \ {p}
        /\ aim = NoAim /\ pc \in {"signal", "force_failed", "force_rest"}
    BY <1>4 DEF Verify, callVars
  <2>2. aim'.pid = p \/ (FALSE \in CanSignal(p) /\ aim' = NoAim)
    <3>1. PICK ok \in CanSignal(p) :
            aim' = IF ok THEN [pid |-> p, gen |-> proc[p].gen] ELSE NoAim
      BY <1>4, Zenon DEF Verify
    <3>2. ok \in BOOLEAN
      BY <3>1, Zenon DEF CanSignal
    <3> QED
      BY <3>1, <3>2
  <2>3. p \notin dark => aim'.pid = p \/ Struck(p)'
    BY <1>0, <2>2, NotAliveIsStruck
  <2> QED
    BY <1>0, <2>1, <2>3 DEF PassInv
<1>5. CASE GracefulSignal
  BY <1>5 DEF GracefulSignal, PassInv, callVars
<1>6. CASE ForceKill
  <2>1. /\ UNCHANGED <<dark, call, targets, failed, todo>> /\ pc' = pc
        /\ aim # NoAim /\ aim' = NoAim /\ pc \in {"force_failed", "force_rest"}
    BY <1>6 DEF ForceKill, callVars
  <2>2. PICK q \in Pids : q = aim.pid
    BY <1>0, <2>1 DEF AimInv
  <2>3. Struck(q)'
    <3>1. CASE ~Original(q) /\ proc' = proc
      BY <3>1 DEF Struck, Original
    <3>2. CASE Kill(q)
      BY <3>2 DEF Kill, SetState, Struck, ControlTypeOK
    <3> QED
      BY <1>6, <2>2, <3>1, <3>2 DEF ForceKill
  <2>4. \A p \in targets : Struck(p) \/ p = q => Struck(p)'
    BY <1>0, <2>3
  <2> QED
    BY <1>0, <2>1, <2>2, <2>4 DEF PassInv
<1>7. ASSUME NEW p \in Pids, Poll(p) PROVE PassInv'
  <2>1. /\ UNCHANGED <<dark, call, targets, failed, aim>> /\ pc \in {"first", "poll"} /\ aim = NoAim
    BY <1>7 DEF Poll, callVars, AimInv
  <2>2. CASE pc' = "poll" /\ todo' = targets \ failed
    BY <1>0, <2>1, <2>2 DEF PassInv
  <2>3. CASE pc' = pc /\ todo' = todo \ {p} /\ FALSE \in ExpectedAlive(p)
    <3>1. p \notin dark => Struck(p)'
      BY <1>0, <2>3, NotAliveIsStruck
    <3> QED
      BY <1>0, <2>1, <2>3, <3>1 DEF PassInv
  <2> QED
    BY <1>7, <2>2, <2>3 DEF Poll, ExpectedAlive
<1>8. CASE Deadline
  BY <1>1, <1>8 DEF Deadline, callVars
<1>9. CASE GiveUpWaiting
  <2>1. /\ UNCHANGED <<dark, call, targets, todo, failed, aim>>
        /\ pc = "poll" /\ pc' = "force_rest"
    BY <1>9 DEF GiveUpWaiting, callVars
  <2> QED
    BY <1>0, <2>1 DEF PassInv
<1>10. CASE Answer
  <2>1. /\ UNCHANGED <<dark, call, targets, todo, failed, aim>>
        /\ pc = "answer" /\ pc' = "done"
    BY <1>10 DEF Answer, callVars
  <2> QED
    BY <1>0, <2>1 DEF PassInv
<1>11. ASSUME NEW p \in Pids,
              ResolvePath(p) \/ KillUnresolved(p) \/ StartupEnds(p) \/ CancelCheck(p)
       PROVE  PassInv'
  BY <1>11 DEF ResolvePath, KillUnresolved, StartupEnds, CancelCheck, CallInv, PassInv, callVars
<1>12. CASE CancelKill
  BY <1>12 DEF CancelKill, CallInv, PassInv, callVars
<1>13. ASSUME NEW p \in Pids, Exit(p) \/ Reap(p) \/ Reuse(p) PROVE PassInv'
  BY <1>1, <1>13 DEF Exit, Reap, Reuse, OsOnly, callVars
<1>14. CASE UNCHANGED controlVars
  BY <1>1, <1>14 DEF controlVars
<1> QED
  BY <1>2, <1>3, <1>4, <1>5, <1>6, <1>7, <1>8, <1>9, <1>10, <1>11, <1>12, <1>13, <1>14
     DEF ControlNext, CallStep

\* All of it together.
LEMMA ControlInvariant == ControlSpec => [](ControlTypeOK /\ ControlInv)
<1>1. ControlInit => ControlTypeOK /\ ControlInv
  <2> SUFFICES ASSUME ControlInit PROVE ControlTypeOK /\ ControlInv
    OBVIOUS
  <2>1. ControlTypeOK
    <3>1. proc \in [Pids -> [gen : 0..MaxGen, exe : Paths, st : States]] /\ 0 \in 0..MaxTry
      BY ControlAssumption DEF ControlInit, Paths, States
    <3>2. NoAim \in Aims
      BY DEF Aims
    <3> QED
      BY <3>1, <3>2 DEF ControlInit, ControlTypeOK, States
  <2>2. CallInv /\ PassInv
    BY DEF ControlInit, CallInv, PassInv
  <2>3. AimInv
    BY DEF ControlInit, AimInv
  <2> QED
    BY <2>1, <2>2, <2>3 DEF ControlInv
<1>2. ControlTypeOK /\ ControlInv /\ [ControlNext]_controlVars => (ControlTypeOK /\ ControlInv)'
  BY ControlTypeStep, CallStepKeeps, AimStepKeeps, PassStepKeeps DEF ControlInv
<1> QED
  BY <1>1, <1>2, PTL DEF ControlSpec

\* For any PIDs and any reuse of them, the variables keep their types.
THEOREM ControlTypeCorrect == ControlSpec => []ControlTypeOK
BY ControlInvariant, PTL

-----------------------------------------------------------------------------
\* For any PIDs: shutdown_instance answers Ok only when the instance's own
\* process is gone (lifecycle.rs:461-479).
THEOREM OkMeansGone == ControlSpec => []StopMeansGone
<1>1. ControlInit => StopMeansGone
  BY DEF ControlInit, StopMeansGone
<1>2. ASSUME ControlTypeOK, ControlTypeOK', ControlInv, StopMeansGone, [ControlNext]_controlVars
      PROVE  StopMeansGone'
  <2>1. \A p \in Pids : ~Original(p) \/ proc[p].st = "gone"
                          => (~Original(p) \/ proc[p].st = "gone")'
    BY <1>2, StruckForGood DEF ControlInv
  <2>2. call' = call /\ targets' = targets /\ targets \subseteq Pids
    BY <1>2 DEF ControlTypeOK, ControlNext, CallStep, BeginCall, EndPass, GracefulSignal, ForceKill,
       GiveUpWaiting, Answer, CancelKill, Verify, Poll, ResolvePath, KillUnresolved, StartupEnds,
       CancelCheck, Deadline, Exit, Reap, Reuse, OsOnly, callVars, controlVars
  <2>3. CASE Answer
    <3> SUFFICES ASSUME call = "stop", verdict' = "ok" PROVE StopMeansGone'
      BY <2>2 DEF StopMeansGone
    <3>1. PICK p \in targets : FALSE \in ExpectedAlive(p)
      <4>1. PICK p \in targets : \E alive \in ExpectedAlive(p) :
              verdict' = IF alive THEN "err" ELSE "ok"
        <5>1. call # "exit"
          OBVIOUS
        <5> QED
          BY <2>3, <5>1, Zenon DEF Answer
      <4>2. PICK alive \in ExpectedAlive(p) : verdict' = IF alive THEN "err" ELSE "ok"
        BY <4>1
      <4>3. alive \in BOOLEAN
        BY <4>2, Zenon DEF ExpectedAlive
      <4> QED
        BY <4>2, <4>3
    <3>2. targets = {p}
      BY <1>2, <3>1 DEF ControlInv, CallInv
    <3>3. ~Original(p) \/ proc[p].st = "gone"
      BY <1>2, <2>2, <3>1 DEF ControlInv, AimInv, ExpectedAlive, Verdicts, IsProcessAlive
    <3> QED
      BY <2>1, <2>2, <3>1, <3>2, <3>3 DEF StopMeansGone
  <2>4. CASE ~Answer
    <3>1. call = "stop" /\ verdict' = "ok" => verdict = "ok"
      BY <1>2, <2>4 DEF ControlInv, CallInv, ControlNext, CallStep, BeginCall, EndPass,
         GracefulSignal, ForceKill, GiveUpWaiting, CancelKill, Verify, Poll, ResolvePath,
         KillUnresolved, StartupEnds, CancelCheck, Deadline, Exit, Reap, Reuse, OsOnly, controlVars
    <3> QED
      BY <1>2, <2>1, <2>2, <3>1 DEF StopMeansGone
  <2> QED
    BY <2>3, <2>4
<1> QED
  BY <1>1, <1>2, ControlInvariant, PTL DEF ControlSpec

\* For any PIDs: when a stop or an exit is over, every target whose path could be
\* read has exited or was sent SIGKILL (control.rs:272-330).
THEOREM AllTargetsEnd == ControlSpec => []NoneEscapes
<1>1. ControlTypeOK /\ ControlInv => NoneEscapes
  <2> SUFFICES ASSUME ControlTypeOK, ControlInv, call # "launch", pc \in {"answer", "done"},
                      NEW p \in targets \ dark
               PROVE  Struck(p)
    BY DEF NoneEscapes, Struck
  <2>1. todo = {} /\ aim = NoAim /\ p # aim.pid
    BY ControlAssumption DEF ControlTypeOK, ControlInv, AimInv, PassInv, NoAim
  <2> QED
    BY <2>1 DEF ControlInv, PassInv
<1> QED
  BY <1>1, ControlInvariant, PTL

\* For any PIDs: whoever is struck and does not run the instance's executable
\* took the PID after the check (control.rs:136-155).
THEOREM StrangersStand == ControlSpec => StrangersSpared
<1>1. ASSUME ControlTypeOK, ControlTypeOK', ControlInv, ControlNext, NEW p \in Pids,
             proc[p].exe = "other", proc'[p].st \in {"ending", "killed"},
             proc'[p].st # proc[p].st
      PROVE  aim.pid = p /\ aim.gen < proc[p].gen
  <2>1. GracefulSignal \/ ForceKill \/ CancelKill
    BY <1>1 DEF ControlTypeOK, ControlNext, CallStep, BeginCall, EndPass, GiveUpWaiting, Answer,
       Verify, Poll, ResolvePath, KillUnresolved, StartupEnds, CancelCheck, Deadline, Exit, Reap,
       Reuse, SetState
  <2>2. aim # NoAim /\ aim.pid \in Pids /\ aim.gen \in Nat /\ proc[p].gen \in Nat
    BY <1>1, <2>1, ControlAssumption DEF ControlTypeOK, ControlInv, AimInv, Aims, GracefulSignal,
       ForceKill, CancelKill
  <2>3. aim.pid = p
    BY <1>1, <2>1, <2>2 DEF GracefulSignal, ForceKill, CancelKill, Interrupt, Kill, SetState,
       ControlTypeOK
  <2> QED
    BY <1>1, <2>2, <2>3 DEF ControlInv, AimInv
<1>2. ControlTypeOK /\ ControlTypeOK' /\ ControlInv /\ [ControlNext]_controlVars =>
        [\A p \in Pids :
           proc[p].exe = "other" /\ proc'[p].st \in {"ending", "killed"}
             /\ proc'[p].st # proc[p].st
           => aim.pid = p /\ aim.gen < proc[p].gen]_controlVars
  BY <1>1
<1> QED
  BY <1>2, ControlInvariant, PTL DEF ControlSpec, StrangersSpared
-----------------------------------------------------------------------------
(* The composition.                                                        *)

launcherVars ==
  <<controlVars, settingsVars, componentsVars, envVars, filesVars, migrationVars, sessionVars,
    part>>

LEMMA PartsMove ==
  ASSUME [LauncherNext]_launcherVars
  PROVE  /\ [ControlNext]_controlVars /\ [SettingsNext]_settingsVars
         /\ [ComponentsNext]_componentsVars /\ [EnvNext]_envVars
         /\ [FilesNext]_filesVars /\ [MigrationNext]_migrationVars
         /\ [SessionNext]_sessionVars
<1>1. CASE LauncherNext
  BY <1>1 DEF LauncherNext
<1>2. CASE UNCHANGED launcherVars
  BY <1>2 DEF launcherVars
<1> QED
  BY <1>1, <1>2

\* A behaviour of the composition is one of each of the modules: what is proved
\* of one holds in the runs of the seven.
THEOREM LauncherImplements ==
  LauncherSpec => /\ ControlSpec /\ SettingsSpec /\ ComponentsSpec
                  /\ EnvSpec /\ FilesSpec /\ MigrationSpec /\ SessionSpec
<1>1. LauncherInit => /\ ControlInit /\ SettingsInit /\ ComponentsInit
                      /\ EnvInit /\ FilesInit /\ MigrationInit /\ SessionInit
  BY DEF LauncherInit
<1>2. LauncherSpec => LauncherInit /\ [][LauncherNext]_launcherVars
  BY DEF LauncherSpec, launcherVars
<1> QED
  BY <1>1, <1>2, PartsMove, PTL
     DEF ControlSpec, SettingsSpec, ComponentsSpec, EnvSpec, FilesSpec, MigrationSpec,
         SessionSpec

\* The types of the seven modules (LauncherTypeOK) always hold.
THEOREM LauncherTypesCorrect == LauncherSpec => []LauncherTypeOK
BY LauncherImplements, ControlTypeCorrect, SettingsTypeCorrect, ComponentsTypeCorrect,
   EnvTypeCorrect, FilesTypeCorrect, MigrationTypeCorrect, SessionTypeCorrect, PTL
   DEF LauncherTypeOK
=============================================================================
