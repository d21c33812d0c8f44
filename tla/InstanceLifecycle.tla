------------------------- MODULE InstanceLifecycle -------------------------
(***************************************************************************)
(* What ProcessManager promises about one instance, without saying how:    *)
(* the slot of an instance is a lock that at most one operation holds.     *)
(* While an operation holds it, nobody but the holder moves the slot, and  *)
(* the holder moves it only along Starting -> Live, Live -> Stopping and   *)
(* so on.  When the application goes down every slot is emptied once and   *)
(* for all; operations still in flight may only let go.                    *)
(*                                                                         *)
(* An operation whose HTTP client hangs up abandons the slot: it no longer *)
(* holds it, and unless it was a guard (which is released by its           *)
(* destructor) the slot keeps its transient phase.                         *)
(***************************************************************************)
CONSTANTS Instances,   \* ids of the managed instances
          Operations   \* operations that may hold a slot

VARIABLES phase,     \* phase[i]: what the slot of i shows
          holders,   \* holders[i]: the operations working on i
          down       \* the application is shutting down

vars == <<phase, holders, down>>

Transient == {"guarded", "starting", "stopping"}
Phases    == Transient \cup {"vacant", "live"}

TypeOK == /\ phase \in [Instances -> Phases]
          /\ holders \in [Instances -> SUBSET Operations]
          /\ down \in BOOLEAN

Init == /\ phase = [i \in Instances |-> "vacant"]
        /\ holders = [i \in Instances |-> {}]
        /\ down = FALSE

----------------------------------------------------------------------------
\* The phases an operation may move a slot to when it takes it, ...
MayTake == {<<"vacant", "guarded">>, <<"vacant", "starting">>, <<"live", "stopping">>}

\* ... and when it gives it back.
MayLeave == {<<"guarded", "vacant">>,
             <<"starting", "live">>, <<"starting", "vacant">>,
             <<"stopping", "live">>, <<"stopping", "vacant">>}

Move(i, edges) == \E p \in Phases : /\ <<phase[i], p>> \in edges
                                    /\ phase' = [phase EXCEPT ![i] = p]

\* o starts working on i, which nobody is working on.
Take(i, o) == /\ ~down
              /\ holders[i] = {}
              /\ Move(i, MayTake)
              /\ holders' = [holders EXCEPT ![i] = {o}]
              /\ UNCHANGED down

\* A restart keeps the slot between its two halves.
Relaunch(i, o) == /\ ~down
                  /\ holders[i] = {o}
                  /\ Move(i, {<<"stopping", "starting">>})
                  /\ UNCHANGED <<holders, down>>

\* o is done with i.
Leave(i, o) == /\ ~down
               /\ holders[i] = {o}
               /\ Move(i, MayLeave)
               /\ holders' = [holders EXCEPT ![i] = {}]
               /\ UNCHANGED down

\* o is dropped in the middle of its work.
Abandon(i, o) == /\ holders[i] = {o}
                 /\ holders' = [holders EXCEPT ![i] = {}]
                 /\ UNCHANGED <<phase, down>>

\* Instances found dead are forgotten, unless an operation is working on them.
Forget(S) == /\ \A i \in S : phase[i] = "live"
             /\ phase' = [i \in Instances |-> IF i \in S THEN "vacant" ELSE phase[i]]
             /\ UNCHANGED <<holders, down>>

\* The application goes down: every slot is emptied, whoever holds it.
GoDown == /\ down' = TRUE
          /\ phase' = [i \in Instances |-> "vacant"]
          /\ UNCHANGED holders

Next == \/ \E i \in Instances, o \in Operations :
              Take(i, o) \/ Relaunch(i, o) \/ Leave(i, o) \/ Abandon(i, o)
        \/ \E S \in SUBSET Instances : Forget(S)
        \/ GoDown

Spec == Init /\ [][Next]_vars
============================================================================
