------------------------------ MODULE FleetTasks ------------------------------
(***************************************************************************)
(* What the registry and the tasks of a pass agree on, proved for every    *)
(* set of relays, scopes and hosts, every sharing of projects and          *)
(* platforms, and every allowance of faults: a hold is a task's and is     *)
(* given back, what a task read before discovery still holds at its        *)
(* verdict, and a deploy is of the incarnation the registry stands for.    *)
(*                                                                         *)
(* A step of a task is summarised once (Local): it may change its own      *)
(* relay, announces what it changes, and leaves the others alone.  Module  *)
(* FleetProofs builds the barrier and the drain upon that summary.         *)
(***************************************************************************)
EXTENDS Fleet, RegistryLemmas

-----------------------------------------------------------------------------
(***************************************************************************)
(* The inductive invariant, one clause per thing a task, the registry and  *)
(* the applier must agree on.                                              *)
(***************************************************************************)

Working(k) == task[k].pc \notin {"idle", "todo", "done"}

\* What is admitted was verified for an endpoint.
VerifiedInv(k) == reg.entries[k].serving => reg.entries[k].url \in Endpoints

DeletePCs == {"idle", "todo", "settle", "drain", "purge", "done"}
EnsurePCs == PCs \ {"purge"}

\* A task is where its phase of the pass can have taken it, and the relays a
\* pass ensures stay desired by the registry until the pass ends.
PhaseInv(k) ==
  /\ pass.phase \in {"idle", "stopped"} => At(k, "idle")
  /\ pass.phase = "deletes" => task[k].pc \in DeletePCs
  /\ pass.phase = "ensures" => task[k].pc \in EnsurePCs
  /\ pass.phase = "ensures" /\ ~At(k, "idle") => pass.cfg[k] # Gone
  /\ pass.phase \in {"deletes", "ensures"} /\ pass.cfg[k] # Gone =>
       Exists(reg, k) /\ reg.entries[k].state # "removing"

\* A working task holds the relay, on the object and in the incarnation it
\* captured; a relay nobody works on is not held.
HoldInv(k) ==
  /\ Working(k) <=> Exists(reg, k) /\ reg.entries[k].busy
  /\ Working(k) => /\ reg.entries[k].obj = task[k].obj
                   /\ reg.entries[k].gen = task[k].gen
  /\ Working(k) /\ pass.phase = "deletes" => reg.entries[k].state = "removing"

\* What the task read before discovery is still so at the verdict.
VerdictInv(k) ==
  At(k, "examine") => /\ task[k].wasReady <=> reg.entries[k].serving
                      /\ task[k].owed <=> reg.entries[k].drainPending

\* From the barrier on the relay is not admitted; past it no drain is owed.
LabelInv(k) ==
  /\ task[k].pc \in {"settle", "drain", "lock", "deploy", "verify", "purge"}
       => ~reg.entries[k].serving
  /\ task[k].pc \in {"lock", "deploy", "verify"} => ~reg.entries[k].drainPending
  /\ task[k].pc \in {"lock", "deploy"} => reg.entries[k].state = "deploying"

\* The registry's incarnation stands for the scope last resolved, if for any.
ScopeInv(k) ==
  /\ Exists(reg, k) => reg.entries[k].scope \in {memo[k], Unknown}
  /\ At(k, "purge") => memo[k] \in Scopes

KeyInv(k) == /\ VerifiedInv(k) /\ PhaseInv(k) /\ HoldInv(k)
             /\ VerdictInv(k) /\ LabelInv(k) /\ ScopeInv(k)

TasksInv == /\ TypeOK
            /\ Sound(reg)
            /\ \A k \in Keys : KeyInv(k)

-----------------------------------------------------------------------------
(* How a task's step is summarised. *)

\* Everything but the registry, the task of k and the cause of k stays, and
\* the registry is left sound, its changes announced, its other entries alone.
Local(k) ==
  /\ Sound(reg')
  /\ Told(reg, reg', 2)
  /\ \A j \in Keys \ {k} : /\ reg'.entries[j] = reg.entries[j]
                           /\ task'[j] = task[j]
                           /\ cause'[j] = cause[j]
  /\ UNCHANGED <<pass, memo, serving, inflight>>

\* What a registry may be when k's task is about to return its hold.
Fits(k, R) ==
  \/ Lands(reg, R, k, 2)
  \/ /\ Sound(R) /\ Told(reg, R, 2)
     /\ \A j \in Keys \ {k} : R.entries[j] = reg.entries[j]
     /\ reg.entries[k].state = "removing"
     /\ R.entries[k] = Absent(reg.entries[k].obj)

\* The task moves on: nothing of the others' changes.
LEMMA GotoMoves ==
  ASSUME TypeOK, NEW k \in Keys, NEW pc \in PCs, Goto(k, pc)
  PROVE  /\ task'[k].pc = pc
         /\ task'[k].gen = task[k].gen /\ task'[k].obj = task[k].obj
         /\ task'[k].target = task[k].target
         /\ \A j \in Keys \ {k} : task'[j] = task[j]
         /\ task' \in [Keys -> Tasks]
BY DEF TypeOK, Tasks, Goto

\* A landed call keeps what is verified.
LEMMA LandedVerified ==
  ASSUME NEW k \in Keys, NEW R, NEW n, VerifiedInv(k), Lands(reg, R, k, n)
  PROVE  R.entries[k].serving => R.entries[k].url \in Endpoints
BY DEF Lands, VerifiedInv

\* The task of k returns: its hold goes with it, whatever its last call did.
LEMMA ReturnStep ==
  ASSUME TasksInv, NEW k \in Keys, Working(k), NEW R, Fits(k, R), Return(k, R),
         UNCHANGED <<serving, inflight>>
  PROVE  /\ Local(k) /\ KeyInv(k)'
         /\ task'[k].pc = "done"
         /\ Served(reg') = Served(R) /\ reg'.seq = R.seq
         /\ reg'.entries[k].present = R.entries[k].present
         /\ reg'.entries[k].state = R.entries[k].state
         /\ reg'.entries[k].drainPending = R.entries[k].drainPending
<1> DEFINE e == reg.entries[k]
           f == R.entries[k]
           h == reg'.entries[k]
<1>1. /\ Sound(reg) /\ reg \in Registries /\ e \in Entry /\ TypeOK /\ KeyInv(k)
  BY DEF TasksInv, Sound, Registries
<1>2. /\ e.present /\ e.busy /\ e.obj = task[k].obj
      /\ pass.phase \in {"deletes", "ensures"}
      /\ pass.phase = "ensures" => pass.cfg[k] # Gone
      /\ pass.cfg[k] # Gone => e.state # "removing"
      /\ Exists(reg, k) => e.scope \in {memo[k], Unknown}
  <2>1. pass.phase \in {"idle", "deletes", "ensures", "stopped"}
    BY <1>1 DEF TypeOK
  <2>2. pass.phase \in {"deletes", "ensures"}
    BY <1>1, <2>1 DEF KeyInv, PhaseInv, Working, At
  <2> QED
    BY <1>1, <2>2 DEF KeyInv, HoldInv, PhaseInv, ScopeInv, Working, At, Exists
<1>3. /\ Sound(R) /\ Told(reg, R, 2) /\ R \in Registries /\ f \in Entry
      /\ \A j \in Keys \ {k} : R.entries[j] = reg.entries[j]
  BY DEF Fits, Lands, Kept, Frame, Sound, Registries
<1>4. /\ f.serving => f.url \in Endpoints
      /\ f.present => /\ f.obj = e.obj /\ (f.state = "removing") = (e.state = "removing")
                      /\ f.scope = e.scope
      /\ e.state # "removing" => f.present
  <2>1. CASE Lands(reg, R, k, 2)
    <3>1. f.serving => f.url \in Endpoints
      BY <1>1, <2>1, LandedVerified DEF KeyInv
    <3> QED
      BY <1>2, <2>1, <3>1 DEF Lands, Kept, Frame, Identity
  <2>2. CASE e.state = "removing" /\ f = Absent(e.obj)
    BY <2>2 DEF Absent, Fresh
  <2> QED
    BY <2>1, <2>2 DEF Fits
<1>5. reg' = Release(R, k, task[k].obj)
  BY DEF Return
<1>6. /\ Sound(reg') /\ \A j \in Keys \ {k} : reg'.entries[j] = R.entries[j]
      /\ f.present => ~h.busy
  BY <1>2, <1>3, <1>4, <1>5, ReleaseSound, HoldsTold DEF Exists
<1>7. /\ reg'.seq = R.seq /\ reg'.changes = R.changes /\ Served(reg') = Served(R)
      /\ Facts(h) = Facts(f)
  BY <1>3, <1>5, HoldsTold DEF Exists
<1>8. /\ h.present = f.present /\ h.obj = f.obj /\ h.state = f.state
      /\ h.serving = f.serving /\ h.scope = f.scope /\ h.url = f.url
      /\ h.drainPending = f.drainPending
  BY <1>7 DEF Facts, Terms
<1>9. /\ task'[k].pc = "done" /\ \A j \in Keys \ {k} : task'[j] = task[j]
      /\ \A j \in Keys \ {k} : cause'[j] = cause[j]
      /\ UNCHANGED <<pass, memo>>
  BY <1>1 DEF Return, Blame, TypeOK, NoTask
<1>10. Local(k)
  <2>1. Told(reg, reg', 2)
    BY <1>3, <1>7 DEF Told
  <2> QED
    BY <1>3, <1>6, <1>9, <2>1 DEF Local
<1>11. KeyInv(k)'
  <2>1. VerifiedInv(k)'
    BY <1>4, <1>8 DEF VerifiedInv
  <2>2. PhaseInv(k)'
    BY <1>2, <1>4, <1>8, <1>9 DEF PhaseInv, At, DeletePCs, EnsurePCs, PCs, Exists
  <2>3. HoldInv(k)'
    BY <1>6, <1>8, <1>9 DEF HoldInv, Working, Exists
  <2>4. VerdictInv(k)' /\ LabelInv(k)'
    BY <1>9 DEF VerdictInv, LabelInv, At
  <2>5. ScopeInv(k)'
    BY <1>2, <1>4, <1>8, <1>9 DEF ScopeInv, At, Exists
  <2> QED
    BY <2>1, <2>2, <2>3, <2>4, <2>5 DEF KeyInv
<1> QED
  BY <1>7, <1>8, <1>9, <1>10, <1>11

-----------------------------------------------------------------------------
(* Typing of the variables a task's step assigns. *)

\* A disturbance is spent, or not.
LEMMA SpendType ==
  ASSUME TypeOK, NEW d \in {"edits", "faults", "drifts", "timeouts", "stops"},
         Spend(d) \/ UNCHANGED budget
  PROVE  budget' \in Allowances
<1>1. CASE UNCHANGED budget
  BY <1>1 DEF TypeOK
<1>2. CASE Spend(d)
  <2>1. budget \in Allowances /\ budget[d] > 0 /\ budget' = [budget EXCEPT ![d] = @ - 1]
    BY <1>2 DEF TypeOK, Spend
  <2>2. budget[d] - 1 \in Nat
    BY <2>1 DEF Allowances
  <2> QED
    BY <2>1, <2>2 DEF Allowances
<1> QED
  BY <1>1, <1>2

\* What took the admission is one of the causes.
LEMMA BlameType ==
  ASSUME TypeOK, NEW R, NEW k \in Keys, NEW who \in Causes,
         cause' = Blame(R, k, who)
  PROVE  /\ cause' \in [Keys -> Causes]
         /\ \A j \in Keys \ {k} : cause'[j] = cause[j]
         /\ cause'[k] = IF IsReady(R, k) THEN "none"
                        ELSE IF IsReady(reg, k) THEN who ELSE cause[k]
BY DEF TypeOK, Blame, Causes

\* A deployment's life changes.
LEMMA RemoteType ==
  ASSUME TypeOK, NEW k \in Keys, NEW s \in Scopes, NEW life \in Lives,
         remote' = [remote EXCEPT ![Project(k)][s].live = life]
  PROVE  remote' \in [Keys -> [Scopes -> [live : Lives, host : Hosts]]]
<1> DEFINE p == Project(k)
           here == [remote[p][s] EXCEPT !.live = life]
<1>1. p \in Keys /\ remote \in [Keys -> [Scopes -> [live : Lives, host : Hosts]]]
  BY ProjectsAreNamed DEF TypeOK
<1>2. here \in [live : Lives, host : Hosts]
  <2>1. remote[p][s] \in [live : Lives, host : Hosts]
    BY <1>1
  <2> QED
    BY <2>1
<1>3. [remote[p] EXCEPT ![s] = here] \in [Scopes -> [live : Lives, host : Hosts]]
  BY <1>1, <1>2
<1>4. remote' = [remote EXCEPT ![p] = [remote[p] EXCEPT ![s] = here]]
  OBVIOUS
<1> QED
  BY <1>1, <1>3, <1>4

\* The four ways a task's variables are assigned.
LEMMA TaskType ==
  ASSUME TypeOK, NEW k \in Keys
  PROVE  /\ [task EXCEPT ![k] = [NoTask EXCEPT !.pc = "done"]] \in [Keys -> Tasks]
         /\ \A pc \in PCs : [task EXCEPT ![k].pc = pc] \in [Keys -> Tasks]
         /\ \A pc \in PCs, n \in Nat :
              [task EXCEPT ![k].pc = pc, ![k].target = n] \in [Keys -> Tasks]
         /\ \A pc \in PCs, R \in Registries :
              [task EXCEPT ![k] = Held(k, pc, R)] \in [Keys -> Tasks]
<1>1. task \in [Keys -> Tasks]
  BY DEF TypeOK
<1>2. [NoTask EXCEPT !.pc = "done"] \in Tasks
  BY DEF NoTask, Tasks, PCs
<1>3. ASSUME NEW pc \in PCs
      PROVE  [task EXCEPT ![k].pc = pc] \in [Keys -> Tasks]
  BY <1>1 DEF Tasks
<1>4. ASSUME NEW pc \in PCs, NEW n \in Nat
      PROVE  [task EXCEPT ![k].pc = pc, ![k].target = n] \in [Keys -> Tasks]
  BY <1>1 DEF Tasks
<1>5. ASSUME NEW pc \in PCs, NEW R \in Registries
      PROVE  Held(k, pc, R) \in Tasks
  <2>1. R.seq \in Nat /\ R.entries[k] \in Entry
    BY DEF Registries
  <2>2. /\ R.entries[k].gen \in Nat /\ R.entries[k].obj \in Nat
        /\ R.entries[k].drainPending \in BOOLEAN
    BY <2>1 DEF Entry
  <2>3. IsReady(R, k) \in BOOLEAN
    BY DEF IsReady, Exists
  <2> QED
    BY <2>1, <2>2, <2>3 DEF Held, Tasks
<1> QED
  BY <1>1, <1>2, <1>3, <1>4, <1>5

-----------------------------------------------------------------------------
(* The steps of one task. *)

\* What a task that works in the ensure phase knows of its relay.
LEMMA EnsureKnows ==
  ASSUME TasksInv, NEW k \in Keys, Working(k), pass.phase = "ensures"
  PROVE  /\ Sound(reg) /\ Exists(reg, k) /\ pass.cfg[k] \in Scopes
         /\ Current(reg, k, task[k].gen)
         /\ reg.entries[k].state # "removing"
<1>1. Sound(reg) /\ TypeOK /\ KeyInv(k)
  BY DEF TasksInv
<1>2. pass.cfg[k] \in Scopes \cup {Gone}
  BY <1>1 DEF TypeOK, Members
<1> QED
  BY <1>1, <1>2 DEF KeyInv, PhaseInv, HoldInv, Working, At, Current, Exists

\* What a task that works in the delete phase knows of its relay.
LEMMA DeleteKnows ==
  ASSUME TasksInv, NEW k \in Keys, Working(k), pass.phase # "ensures"
  PROVE  /\ Sound(reg) /\ Exists(reg, k) /\ pass.phase = "deletes"
         /\ Current(reg, k, task[k].gen)
         /\ reg.entries[k].state = "removing" /\ pass.cfg[k] = Gone
<1>1. Sound(reg) /\ TypeOK /\ KeyInv(k)
  BY DEF TasksInv
<1>2. pass.phase \in {"idle", "deletes", "ensures", "stopped"}
  BY <1>1 DEF TypeOK
<1> QED
  BY <1>1, <1>2 DEF KeyInv, PhaseInv, HoldInv, Working, At, Current, Exists

\* The places that belong to one phase.
LEMMA PlacePhase ==
  ASSUME TasksInv, NEW k \in Keys
  PROVE  /\ task[k].pc \in {"examine", "lock", "deploy", "verify"}
              => pass.phase = "ensures"
         /\ At(k, "purge") => pass.phase = "deletes"
<1>1. pass.phase \in {"idle", "deletes", "ensures", "stopped"} /\ KeyInv(k)
  BY DEF TasksInv, TypeOK
<1> QED
  BY <1>1 DEF KeyInv, PhaseInv, At, DeletePCs, EnsurePCs

\* One call or none is little enough.
LEMMA LandsFits ==
  ASSUME TasksInv, NEW k \in Keys, NEW R, NEW n \in {0, 1, 2},
         Lands(reg, R, k, n)
  PROVE  Fits(k, R) /\ Lands(reg, R, k, 2)
<1>1. reg \in Registries /\ R \in Registries
  BY DEF TasksInv, Lands, Kept, Sound
<1>2. Told(reg, R, 2)
  BY <1>1, ToldWeaker DEF Lands
<1> QED
  BY <1>2 DEF Lands, Fits

\* The endpoints a relay of a pass can be verified for.
LEMMA PlacedEndpoint ==
  ASSUME TypeOK, NEW k \in Keys, NEW s \in Scopes
  PROVE  /\ <<s, remote[Project(k)][s].host>> \in Endpoints
         /\ remote[Project(k)][s].live \in Lives
<1>1. Project(k) \in Keys
  BY ProjectsAreNamed
<1>2. remote[Project(k)][s] \in [live : Lives, host : Hosts]
  BY <1>1 DEF TypeOK
<1> QED
  BY <1>2, EndpointsArePlaced

\* The completions of an ensure task, as they are before it returns.
LEMMA CompletionsFit ==
  ASSUME TasksInv, NEW k \in Keys, Working(k), pass.phase = "ensures",
         NEW reason \in Reasons, NEW url \in Endpoints
  PROVE  LET g == task[k].gen IN
         /\ Fits(k, Failing(reg, k, g, reason))
         /\ Fits(k, Demote(reg, k, g, reason))
         /\ Fits(k, Pause(reg, k, g, reason))
         /\ Fits(k, Ready(reg, k, g, url))
         /\ Fits(k, DeferDrain(reg, k, g))
<1> DEFINE g == task[k].gen
<1>1. /\ Sound(reg)
      /\ Current(reg, k, g) => reg.entries[k].state # "removing"
  BY EnsureKnows
<1>2. /\ Lands(reg, Failing(reg, k, g, reason), k, 1)
      /\ Lands(reg, Demote(reg, k, g, reason), k, 1)
      /\ Lands(reg, Pause(reg, k, g, reason), k, 1)
  BY <1>1, FailingSoftens, DemoteSoftens, PauseSoftens, SoftensLands
<1>3. Lands(reg, Ready(reg, k, g, url), k, 1)
  BY <1>1, ReadyLands
<1>4. Lands(reg, DeferDrain(reg, k, g), k, 0)
  BY <1>1, MarksLand
<1> QED
  BY <1>2, <1>3, <1>4, LandsFits

\* ensureRelay returns before it takes the hold.
LEMMA SkipStep ==
  ASSUME TasksInv, NEW k \in Keys, Skip(k)
  PROVE  Local(k) /\ KeyInv(k)'
<1>1. /\ reg' = reg /\ task' = [task EXCEPT ![k] = [NoTask EXCEPT !.pc = "done"]]
      /\ UNCHANGED <<pass, memo, cause, serving, inflight>> /\ At(k, "todo")
  BY DEF Skip, Quietly, outside
<1>2. Sound(reg) /\ TypeOK /\ KeyInv(k)
  BY DEF TasksInv
<1>3. task'[k].pc = "done" /\ \A j \in Keys \ {k} : task'[j] = task[j]
  BY <1>1, <1>2 DEF TypeOK, NoTask
<1>4. Told(reg, reg, 2)
  BY <1>2, ToldNothing DEF Sound
<1>5. Local(k)
  BY <1>1, <1>2, <1>3, <1>4 DEF Local
<1>6. KeyInv(k)'
  BY <1>1, <1>2, <1>3 DEF KeyInv, VerifiedInv, PhaseInv, HoldInv, VerdictInv,
     LabelInv, ScopeInv, Working, At, DeletePCs, EnsurePCs, PCs, Exists
<1> QED
  BY <1>5, <1>6

\* A step that leaves the registry and moves the task from one working place
\* to another of the same phase, before or past the barrier.
LEMMA MoveStep ==
  ASSUME TasksInv, NEW k \in Keys, NEW pc \in PCs \ {"idle", "todo", "done", "examine"},
         Working(k), Goto(k, pc),
         UNCHANGED <<reg, pass, memo, cause, serving, inflight>>,
         /\ pass.phase = "deletes" => pc \in DeletePCs
         /\ pass.phase = "ensures" => pc \in EnsurePCs,
         ~reg.entries[k].serving,
         pc \in {"lock", "deploy", "verify"} => ~reg.entries[k].drainPending,
         pc \in {"lock", "deploy"} => reg.entries[k].state = "deploying",
         pc = "purge" => memo[k] \in Scopes
  PROVE  Local(k) /\ KeyInv(k)'
<1>1. Sound(reg) /\ TypeOK /\ KeyInv(k)
  BY DEF TasksInv
<1>2. /\ task'[k].pc = pc /\ task'[k].gen = task[k].gen
      /\ task'[k].obj = task[k].obj
      /\ \A j \in Keys \ {k} : task'[j] = task[j]
  BY <1>1, GotoMoves
<1>3. Told(reg, reg, 2)
  BY <1>1, ToldNothing DEF Sound
<1>4. Local(k)
  BY <1>1, <1>2, <1>3 DEF Local
<1>5. VerifiedInv(k)' /\ VerdictInv(k)' /\ LabelInv(k)' /\ ScopeInv(k)'
  BY <1>1, <1>2 DEF KeyInv, VerifiedInv, VerdictInv, LabelInv, ScopeInv, At, Exists
<1>6. PhaseInv(k)'
  BY <1>1, <1>2 DEF KeyInv, PhaseInv, Working, At, Exists
<1>7. HoldInv(k)'
  BY <1>1, <1>2 DEF KeyInv, HoldInv, Working, Exists
<1> QED
  BY <1>4, <1>5, <1>6, <1>7 DEF KeyInv

\* The hold is taken: the relay is otherwise as it was.
LEMMA BegunKnows ==
  ASSUME TasksInv, NEW k \in Keys, Exists(reg, k), CanBegin(reg, k)
  PROVE  LET R == Begin(reg, k) IN
         /\ Sound(R) /\ R.seq = reg.seq /\ R.changes = reg.changes
         /\ Served(R) = Served(reg) /\ Told(reg, R, 0)
         /\ \A j \in Keys \ {k} : R.entries[j] = reg.entries[j]
         /\ Facts(R.entries[k]) = Facts(reg.entries[k])
         /\ R.entries[k].busy
<1>1. Sound(reg)
  BY DEF TasksInv
<1>2. reg.seq \in Nat
  BY <1>1 DEF Sound, Registries
<1> QED
  BY <1>1, <1>2, BeginSound, HoldsTold DEF Told

\* Facts, one by one.
LEMMA FactsEach ==
  ASSUME NEW e, NEW f, Facts(f) = Facts(e)
  PROVE  /\ f.present = e.present /\ f.obj = e.obj /\ f.gen = e.gen
         /\ f.state = e.state /\ f.serving = e.serving
         /\ f.scope = e.scope /\ f.url = e.url
         /\ f.drainPending = e.drainPending
BY DEF Facts, Terms

\* An ensure task takes the hold and goes on to discovery.
LEMMA BeginEnsureStep ==
  ASSUME TasksInv, NEW k \in Keys, BeginEnsure(k)
  PROVE  /\ Local(k) /\ KeyInv(k)'
         /\ task'[k].pc \in {"done", "examine"}
         /\ reg'.entries[k].present /\ reg'.entries[k].state # "removing"
         /\ reg'.entries[k].drainPending = reg.entries[k].drainPending
         /\ reg'.entries[k].serving => reg.entries[k].serving
         /\ cause'[k] = "rollout" => cause[k] = "rollout"
<1> DEFINE R == Begin(reg, k)
           g == R.entries[k].gen
           o == R.entries[k].obj
           failed == Failing(R, k, g, "credential_failed")
           entered == Enter(R, k, g, "discovering", "")
<1>1. Sound(reg) /\ TypeOK /\ KeyInv(k)
  BY DEF TasksInv
<1>2. /\ At(k, "todo") /\ pass.phase = "ensures" /\ Exists(reg, k)
      /\ k \notin Removing(reg) /\ CanBegin(reg, k)
      /\ UNCHANGED <<pass, memo, serving, inflight>>
  BY DEF BeginEnsure, Quietly
<1>3. /\ Sound(R) /\ Told(reg, R, 0) /\ R.entries[k].busy
      /\ \A j \in Keys \ {k} : R.entries[j] = reg.entries[j]
      /\ Facts(R.entries[k]) = Facts(reg.entries[k])
  BY <1>2, BegunKnows
<1>4. reg.entries[k].state # "removing"
  BY <1>2 DEF Removing
<1> HIDE DEF R
<1>5. /\ R.entries[k].present = reg.entries[k].present
      /\ R.entries[k].obj = reg.entries[k].obj
      /\ R.entries[k].state = reg.entries[k].state
      /\ R.entries[k].serving = reg.entries[k].serving
      /\ R.entries[k].scope = reg.entries[k].scope
      /\ R.entries[k].url = reg.entries[k].url
      /\ R.entries[k].drainPending = reg.entries[k].drainPending
  BY <1>3, FactsEach
<1>6. /\ "credential_failed" \in Reasons /\ "" \in Reasons
      /\ "discovering" \in States \ {"removing"} /\ "discovering" \notin Out
  BY DEF Reasons, States, Out
<1>7. Softens(R, failed, k) /\ Softens(R, entered, k)
      /\ entered.entries[k].serving = R.entries[k].serving
  BY <1>3, <1>4, <1>5, <1>6, FailingSoftens, EnterSoftens
<1> HIDE DEF failed, entered
<1>8. /\ ~Working(k)
      /\ VerifiedInv(k) /\ PhaseInv(k) /\ ScopeInv(k)
  BY <1>1, <1>2 DEF Working, At, KeyInv
<1>9. ASSUME NEW S, Softens(R, S, k)
      PROVE  /\ Sound(S) /\ Told(reg, S, 1)
             /\ \A j \in Keys \ {k} : S.entries[j] = reg.entries[j]
             /\ S.entries[k].present /\ S.entries[k].busy
             /\ S.entries[k].obj = o /\ S.entries[k].gen = g
             /\ S.entries[k].state # "removing"
             /\ S.entries[k].scope = reg.entries[k].scope
             /\ S.entries[k].serving => S.entries[k].url \in Endpoints
             /\ S.entries[k].drainPending = R.entries[k].drainPending
  <2>1. Kept(R, S, k) /\ Told(R, S, 1)
        /\ S.entries[k].scope = R.entries[k].scope
        /\ S.entries[k].url = R.entries[k].url
        /\ S.entries[k].drainPending = R.entries[k].drainPending
    BY <1>9 DEF Softens, Terms
  <2>2. Told(reg, S, 1)
    <3>1. reg \in Registries /\ R \in Registries /\ S \in Registries
      BY <1>1, <1>3, <2>1 DEF Kept, Sound
    <3>2. Told(reg, S, 0 + 1)
      BY <1>3, <2>1, <3>1, ToldTrans
    <3> QED
      BY <3>2
  <2>3. S.entries[k].serving => S.entries[k].url \in Endpoints
    BY <1>5, <1>8, <1>9, <2>1 DEF VerifiedInv, Softens
  <2> QED
    BY <1>2, <1>3, <1>4, <1>5, <2>1, <2>2, <2>3 DEF Kept, Frame, Identity, Exists
<1>10. CASE /\ reg' = Release(failed, k, o)
            /\ cause' = Blame(failed, k, "blip")
            /\ task' = [task EXCEPT ![k] = [NoTask EXCEPT !.pc = "done"]]
  <2>1. /\ task'[k].pc = "done" /\ \A j \in Keys \ {k} : task'[j] = task[j]
        /\ \A j \in Keys \ {k} : cause'[j] = cause[j]
        /\ cause'[k] = "rollout" => cause[k] = "rollout"
    BY <1>1, <1>10 DEF TypeOK, NoTask, Blame
  <2>2. /\ Sound(reg') /\ ~reg'.entries[k].busy
        /\ \A j \in Keys \ {k} : reg'.entries[j] = reg.entries[j]
    BY <1>7, <1>9, <1>10, ReleaseSound
  <2>3. /\ reg'.seq = failed.seq /\ reg'.changes = failed.changes
        /\ Served(reg') = Served(failed)
        /\ Facts(reg'.entries[k]) = Facts(failed.entries[k])
    BY <1>7, <1>9, <1>10, HoldsTold DEF Exists
  <2>4. Told(reg, reg', 2)
    <3>1. Told(reg, reg', 1)
      BY <1>7, <1>9, <2>3 DEF Told
    <3> QED
      BY <1>1, <2>2, <3>1, ToldWeaker DEF Sound
  <2>5. Local(k)
    BY <1>2, <2>1, <2>2, <2>4 DEF Local
  <2>6. /\ reg'.entries[k].present
        /\ reg'.entries[k].state # "removing"
        /\ reg'.entries[k].scope = reg.entries[k].scope
        /\ reg'.entries[k].serving => reg'.entries[k].url \in Endpoints
        /\ reg'.entries[k].drainPending = reg.entries[k].drainPending
        /\ reg'.entries[k].serving = failed.entries[k].serving
    BY <1>5, <1>7, <1>9, <2>3, FactsEach
  <2>7. VerifiedInv(k)' /\ VerdictInv(k)' /\ LabelInv(k)' /\ HoldInv(k)'
    BY <2>1, <2>2, <2>6 DEF VerifiedInv, VerdictInv, LabelInv, HoldInv, At, Working
  <2>8. PhaseInv(k)' /\ ScopeInv(k)'
    BY <1>2, <1>8, <2>1, <2>6 DEF PhaseInv, ScopeInv, At, Exists, EnsurePCs, PCs
  <2>9. reg'.entries[k].serving => reg.entries[k].serving
    BY <1>5, <1>7, <2>6 DEF Softens
  <2> QED
    BY <2>1, <2>5, <2>6, <2>7, <2>8, <2>9 DEF KeyInv
<1>11. CASE /\ reg' = entered
            /\ task' = [task EXCEPT ![k] = Held(k, "examine", R)]
            /\ UNCHANGED cause
  <2>1. /\ task'[k] = Held(k, "examine", R)
        /\ \A j \in Keys \ {k} : task'[j] = task[j]
    BY <1>1, <1>11 DEF TypeOK
  <2>2. /\ task'[k].pc = "examine" /\ task'[k].gen = g /\ task'[k].obj = o
        /\ task'[k].wasReady = IsReady(R, k)
        /\ task'[k].owed = R.entries[k].drainPending
    BY <2>1 DEF Held
  <2>3. Told(reg, reg', 2)
    BY <1>1, <1>7, <1>9, <1>11, ToldWeaker DEF Sound
  <2>4. Local(k)
    BY <1>2, <1>7, <1>9, <1>11, <2>1, <2>3 DEF Local
  <2>5. VerdictInv(k)'
    BY <1>2, <1>5, <1>7, <1>9, <1>11, <2>2 DEF VerdictInv, IsReady, Exists
  <2>6. VerifiedInv(k)' /\ LabelInv(k)' /\ HoldInv(k)'
    BY <1>2, <1>7, <1>9, <1>11, <2>2 DEF VerifiedInv, LabelInv, HoldInv, At,
       Working, Exists
  <2>7. PhaseInv(k)' /\ ScopeInv(k)'
    BY <1>2, <1>7, <1>8, <1>9, <1>11, <2>2 DEF PhaseInv, ScopeInv, At, Exists,
       EnsurePCs, PCs
  <2> QED
    BY <1>5, <1>7, <1>9, <1>11, <2>2, <2>4, <2>5, <2>6, <2>7 DEF KeyInv
<1> QED
  BY <1>10, <1>11 DEF BeginEnsure, R, failed, entered, Quietly

\* The head of rollout: a relay that owes a drain goes to the barrier with its
\* admission revoked and the notification to wait for, another one to deploy.
LEMMA RolloutStep ==
  ASSUME TasksInv, NEW k \in Keys, At(k, "examine"),
         NEW R \in {reg, Enter(reg, k, task[k].gen, "discovered", "missing")},
         Rollout(k, R), UNCHANGED <<serving, inflight>>
  PROVE  /\ Local(k) /\ KeyInv(k)'
         /\ Lands(reg, reg', k, 2)
         /\ reg'.entries[k].drainPending = reg.entries[k].drainPending
         /\ ~reg'.entries[k].serving
         /\ \/ task'[k].pc = "settle" /\ task'[k].target = reg'.seq
            \/ task'[k].pc = "lock" /\ ~reg.entries[k].drainPending
                                    /\ cause'[k] = cause[k]
         /\ task' \in [Keys -> Tasks] /\ cause' \in [Keys -> Causes]
<1> DEFINE g       == task[k].gen
           spent   == ScopeMarkTaken(R, k, g)
           out     == IF task[k].wasReady THEN Demote(spent, k, g, "replacing")
                      ELSE spent
           deploy  == Enter(out, k, g, "deploying", "")
           barrier == task[k].wasReady \/ task[k].owed \/ ScopeMarked(R, k, g)
<1>1. /\ Sound(reg) /\ TypeOK /\ KeyInv(k) /\ Working(k) /\ pass.phase = "ensures"
  BY PlacePhase DEF TasksInv, Working, At
<1>2. /\ Exists(reg, k) /\ Current(reg, k, g) /\ pass.cfg[k] \in Scopes
      /\ reg.entries[k].state # "removing"
  BY <1>1, EnsureKnows
<1>3. /\ task[k].wasReady <=> reg.entries[k].serving
      /\ task[k].owed <=> reg.entries[k].drainPending
  BY <1>1 DEF KeyInv, VerdictInv
<1>4. ASSUME NEW S, NEW n, Lands(reg, S, k, n)
      PROVE  /\ Sound(S) /\ Exists(S, k) /\ Current(S, k, g)
             /\ S.entries[k].state # "removing"
  BY <1>2, <1>4 DEF Lands, Kept, Frame, Identity, Exists, Current
<1>5. /\ "missing" \in Reasons /\ "replacing" \in Reasons /\ "" \in Reasons
      /\ "discovered" \in States \ {"removing"} /\ "discovered" \notin Out
      /\ "deploying" \in States \ {"removing"} /\ "deploying" \notin Out
  BY DEF Reasons, States, Out
<1>6. /\ Lands(reg, R, k, 1)
      /\ R.entries[k].serving = reg.entries[k].serving
      /\ R.entries[k].drainPending = reg.entries[k].drainPending
  <2>1. CASE R = reg
    <3>1. Lands(reg, reg, k, 0) /\ Told(reg, reg, 1)
      BY <1>1, LandsItself, ToldNothing DEF Sound
    <3> QED
      BY <2>1, <3>1 DEF Lands
  <2>2. CASE R = Enter(reg, k, g, "discovered", "missing")
    <3>1. Softens(reg, R, k) /\ R.entries[k].serving = reg.entries[k].serving
      BY <1>1, <1>2, <1>5, <2>2, EnterSoftens
    <3> QED
      BY <3>1, SoftensLands DEF Softens, Terms
  <2> QED
    BY <2>1, <2>2
<1>7. /\ Lands(reg, spent, k, 1)
      /\ spent.entries[k].serving = reg.entries[k].serving
      /\ spent.entries[k].drainPending = reg.entries[k].drainPending
  <2>1. Sound(R)
    BY <1>4, <1>6
  <2>2. /\ Lands(R, spent, k, 0)
        /\ spent.entries[k].serving = R.entries[k].serving
        /\ spent.entries[k].drainPending = R.entries[k].drainPending
    BY <2>1, MarksLand, MarksTold
  <2>3. Lands(reg, spent, k, 1 + 0)
    BY <1>1, <1>6, <2>2, LandsTrans
  <2> QED
    BY <1>6, <2>2, <2>3
<1> HIDE DEF spent
<1>8. /\ Lands(reg, out, k, 2)
      /\ task[k].wasReady \/ Lands(reg, out, k, 1)
      /\ ~out.entries[k].serving
      /\ out.entries[k].drainPending = reg.entries[k].drainPending
  <2>1. CASE task[k].wasReady
    <3>1. /\ Softens(spent, out, k) /\ ~out.entries[k].serving
      BY <1>4, <1>5, <1>7, <2>1, DemoteSoftens
    <3>2. Lands(spent, out, k, 1)
      BY <3>1, SoftensLands
    <3>3. Lands(reg, out, k, 1 + 1)
      BY <1>1, <1>7, <3>2, LandsTrans
    <3> QED
      BY <1>7, <2>1, <3>1, <3>3 DEF Softens, Terms
  <2>2. CASE ~task[k].wasReady
    <3>1. out = spent
      BY <2>2
    <3> QED
      BY <1>1, <1>3, <1>7, <2>2, <3>1, LandsFits DEF TasksInv
  <2> QED
    BY <2>1, <2>2
<1> HIDE DEF out
<1>9. ~task[k].wasReady =>
        /\ Lands(reg, deploy, k, 2)
        /\ deploy.entries[k].state = "deploying" /\ ~deploy.entries[k].serving
        /\ deploy.entries[k].drainPending = reg.entries[k].drainPending
  <2> SUFFICES ASSUME ~task[k].wasReady
               PROVE  /\ Lands(reg, deploy, k, 2)
                      /\ deploy.entries[k].state = "deploying"
                      /\ ~deploy.entries[k].serving
                      /\ deploy.entries[k].drainPending = reg.entries[k].drainPending
    OBVIOUS
  <2>0. Sound(out) /\ Current(out, k, g) /\ out.entries[k].state # "removing"
    BY <1>4, <1>8
  <2>1. /\ Softens(out, deploy, k)
        /\ deploy.entries[k].serving = out.entries[k].serving
        /\ Current(out, k, g) => deploy.entries[k].state = "deploying"
    BY <1>5, <2>0, EnterSoftens, ZenonT(60)
  <2>2. Lands(out, deploy, k, 1)
    BY <2>1, SoftensLands
  <2>3. Lands(reg, deploy, k, 1 + 1)
    BY <1>1, <1>8, <2>2, LandsTrans
  <2> HIDE DEF deploy
  <2> QED
    BY <1>8, <2>0, <2>1, <2>3 DEF Softens, Terms
<1>10. /\ reg' = IF barrier THEN out ELSE deploy
       /\ task' = [task EXCEPT ![k].pc = IF barrier THEN "settle" ELSE "lock",
                               ![k].target = out.seq]
       /\ cause' = Blame(out, k, "rollout")
       /\ UNCHANGED <<pass, memo>>
  BY DEF Rollout, out, spent
<1>11. /\ task'[k].pc = IF barrier THEN "settle" ELSE "lock"
       /\ task'[k].target = out.seq
       /\ task'[k].gen = task[k].gen /\ task'[k].obj = task[k].obj
       /\ \A j \in Keys \ {k} : task'[j] = task[j]
  BY <1>1, <1>10 DEF TypeOK, Tasks
<1>12. \A j \in Keys \ {k} : cause'[j] = cause[j]
  BY <1>1, <1>10 DEF TypeOK, Blame
<1>13. ~barrier => cause'[k] = cause[k]
  BY <1>1, <1>3, <1>8, <1>10 DEF TypeOK, Blame, IsReady
<1> HIDE DEF deploy
<1>14. /\ Lands(reg, reg', k, 2) /\ ~reg'.entries[k].serving
       /\ reg'.entries[k].drainPending = reg.entries[k].drainPending
       /\ ~barrier => reg'.entries[k].state = "deploying"
  BY <1>8, <1>9, <1>10
<1>15. Local(k)
  BY <1>10, <1>11, <1>12, <1>14 DEF Local, Lands, Kept, Frame
<1>16. KeyInv(k)'
  <2>1. /\ reg'.entries[k].present /\ reg'.entries[k].busy
        /\ reg'.entries[k].obj = task[k].obj /\ reg'.entries[k].gen = task[k].gen
        /\ reg'.entries[k].state # "removing"
        /\ reg'.entries[k].scope = reg.entries[k].scope
    BY <1>1, <1>2, <1>14 DEF Lands, Kept, Frame, Identity, KeyInv, HoldInv, Exists
  <2>2. VerifiedInv(k)' /\ VerdictInv(k)' /\ HoldInv(k)'
    BY <1>1, <1>10, <1>11, <1>14, <2>1 DEF VerifiedInv, VerdictInv, HoldInv, At,
       Working, Exists
  <2>3. LabelInv(k)'
    BY <1>3, <1>10, <1>11, <1>14 DEF LabelInv
  <2>4. PhaseInv(k)' /\ ScopeInv(k)'
    BY <1>1, <1>2, <1>10, <1>11, <2>1, NullsDistinct DEF KeyInv, PhaseInv, ScopeInv,
       At, Exists, EnsurePCs, PCs
  <2> QED
    BY <2>2, <2>3, <2>4 DEF KeyInv
<1>17. \/ task'[k].pc = "settle" /\ task'[k].target = reg'.seq
       \/ task'[k].pc = "lock" /\ ~reg.entries[k].drainPending /\ cause'[k] = cause[k]
  BY <1>3, <1>10, <1>11, <1>13
<1>18. task' \in [Keys -> Tasks] /\ cause' \in [Keys -> Causes]
  <2>1. out.seq \in Nat
    BY <1>8 DEF Lands, Kept, Sound, Registries
  <2>2. "settle" \in PCs /\ "lock" \in PCs /\ "rollout" \in Causes
    BY DEF PCs, Causes
  <2> QED
    BY <1>1, <1>10, <2>1, <2>2, TaskType, BlameType
<1> QED
  BY <1>14, <1>15, <1>16, <1>17, <1>18

\* Discovery and the probe, up to the verdict's consequence.
LEMMA ExamineStep ==
  ASSUME TasksInv, NEW k \in Keys, Examine(k)
  PROVE  Local(k) /\ KeyInv(k)'
<1> DEFINE g == task[k].gen
           s == pass.cfg[k]
           here == remote[Project(k)][s]
<1>1. /\ At(k, "examine") /\ Working(k) /\ pass.phase = "ensures" /\ TypeOK
      /\ UNCHANGED <<serving, inflight>>
  BY PlacePhase DEF Examine, At, Working, TasksInv
<1>2. s \in Scopes /\ <<s, here.host>> \in Endpoints
  BY <1>1, EnsureKnows, PlacedEndpoint
<1>3. "unreachable" \in Reasons /\ "paused" \in Reasons
  BY DEF Reasons
<1>4. /\ Fits(k, Failing(reg, k, g, "unreachable"))
      /\ Fits(k, Pause(reg, k, g, "paused"))
      /\ Fits(k, Ready(reg, k, g, <<s, here.host>>))
  BY <1>1, <1>2, <1>3, CompletionsFit
<1>5. \/ Return(k, Failing(reg, k, g, "unreachable"))
      \/ Return(k, Pause(reg, k, g, "paused"))
      \/ Return(k, Ready(reg, k, g, <<s, here.host>>))
      \/ Rollout(k, reg)
      \/ Rollout(k, Enter(reg, k, g, "discovered", "missing"))
  BY DEF Examine
<1> QED
  BY <1>1, <1>4, <1>5, ReturnStep, RolloutStep

\* The barrier is left by the swap, or at shutdown with the debt on record.
LEMMA SettleStep ==
  ASSUME TasksInv, NEW k \in Keys, Settle(k)
  PROVE  Local(k) /\ KeyInv(k)'
<1> DEFINE g == task[k].gen
<1>1. /\ At(k, "settle") /\ Working(k) /\ TypeOK /\ KeyInv(k) /\ Sound(reg)
      /\ UNCHANGED <<serving, inflight>>
  BY DEF Settle, At, Working, TasksInv, outside
<1>2. CASE Goto(k, "drain") /\ Quietly /\ UNCHANGED reg
  <2>1. /\ "drain" \in PCs \ {"idle", "todo", "done", "examine"}
        /\ "drain" \in DeletePCs /\ "drain" \in EnsurePCs
    BY DEF PCs, DeletePCs, EnsurePCs
  <2>2. ~reg.entries[k].serving
    BY <1>1 DEF KeyInv, LabelInv, At
  <2> QED
    BY <1>1, <1>2, <2>1, <2>2, MoveStep DEF Quietly
<1>3. CASE pass.phase = "ensures" /\ Return(k, DeferDrain(reg, k, g))
  <2>1. Fits(k, DeferDrain(reg, k, g))
    BY <1>1, <1>3, MarksLand, LandsFits
  <2> QED
    BY <1>1, <1>3, <2>1, ReturnStep
<1>4. CASE pass.phase # "ensures" /\ Return(k, reg)
  <2>1. Fits(k, reg)
    BY <1>1, LandsItself, LandsFits
  <2> QED
    BY <1>1, <1>4, <2>1, ReturnStep
<1> QED
  BY <1>2, <1>3, <1>4 DEF Settle

\* The platform's deploy mutex is taken.
LEMMA StartDeployStep ==
  ASSUME TasksInv, NEW k \in Keys, StartDeploy(k)
  PROVE  Local(k) /\ KeyInv(k)'
<1>1. /\ At(k, "lock") /\ Working(k) /\ KeyInv(k) /\ pass.phase = "ensures"
      /\ Goto(k, "deploy")
      /\ UNCHANGED <<reg, pass, memo, cause, serving, inflight>>
  BY PlacePhase DEF StartDeploy, At, Working, TasksInv, outside, Quietly
<1>2. /\ "deploy" \in PCs \ {"idle", "todo", "done", "examine"}
      /\ "deploy" \in EnsurePCs
  BY DEF PCs, EnsurePCs
<1>3. /\ ~reg.entries[k].serving /\ ~reg.entries[k].drainPending
      /\ reg.entries[k].state = "deploying"
  BY <1>1 DEF KeyInv, LabelInv, At
<1> QED
  BY <1>1, <1>2, <1>3, MoveStep

\* The platform call answers.
LEMMA FinishDeployStep ==
  ASSUME TasksInv, NEW k \in Keys, FinishDeploy(k)
  PROVE  Local(k) /\ KeyInv(k)'
<1> DEFINE g == task[k].gen
<1>1. /\ At(k, "deploy") /\ Working(k) /\ KeyInv(k) /\ pass.phase = "ensures"
      /\ Sound(reg)
      /\ UNCHANGED <<serving, inflight>>
  BY PlacePhase DEF FinishDeploy, At, Working, TasksInv
<1>2. CASE Goto(k, "verify") /\ Quietly /\ UNCHANGED reg
  <2>1. /\ "verify" \in PCs \ {"idle", "todo", "done", "examine"}
        /\ "verify" \in EnsurePCs
    BY DEF PCs, EnsurePCs
  <2>2. ~reg.entries[k].serving /\ ~reg.entries[k].drainPending
    BY <1>1 DEF KeyInv, LabelInv, At
  <2> QED
    BY <1>1, <1>2, <2>1, <2>2, MoveStep DEF Quietly
<1>3. CASE Return(k, Failing(reg, k, g, "deploy_failed"))
  <2>1. Fits(k, Failing(reg, k, g, "deploy_failed"))
    <3>1. "deploy_failed" \in Reasons
      BY DEF Reasons
    <3>2. Current(reg, k, g) => reg.entries[k].state # "removing"
      BY <1>1, EnsureKnows
    <3> QED
      BY <1>1, <3>1, <3>2, FailingSoftens, SoftensLands, LandsFits
  <2> QED
    BY <1>1, <1>3, <2>1, ReturnStep
<1> QED
  BY <1>2, <1>3 DEF FinishDeploy, Quietly

\* The new worker is verified, or not.
LEMMA VerifyDeployedStep ==
  ASSUME TasksInv, NEW k \in Keys, VerifyDeployed(k)
  PROVE  Local(k) /\ KeyInv(k)'
<1> DEFINE g == task[k].gen
           s == pass.cfg[k]
           here == remote[Project(k)][s]
<1>1. /\ At(k, "verify") /\ Working(k) /\ pass.phase = "ensures" /\ TypeOK
      /\ UNCHANGED <<serving, inflight>>
  BY PlacePhase DEF VerifyDeployed, At, Working, TasksInv
<1>2. s \in Scopes /\ <<s, here.host>> \in Endpoints
  BY <1>1, EnsureKnows, PlacedEndpoint
<1>3. /\ "version_failed" \in Reasons /\ "probe_failed" \in Reasons
      /\ "paused" \in Reasons
  BY DEF Reasons
<1>4. /\ Fits(k, Demote(reg, k, g, "version_failed"))
      /\ Fits(k, Demote(reg, k, g, "probe_failed"))
      /\ Fits(k, Pause(reg, k, g, "paused"))
      /\ Fits(k, Ready(reg, k, g, <<s, here.host>>))
  BY <1>1, <1>2, <1>3, CompletionsFit
<1>5. \/ Return(k, Demote(reg, k, g, "version_failed"))
      \/ Return(k, Demote(reg, k, g, "probe_failed"))
      \/ Return(k, Pause(reg, k, g, "paused"))
      \/ Return(k, Ready(reg, k, g, <<s, here.host>>))
  BY DEF VerifyDeployed
<1> QED
  BY <1>1, <1>4, <1>5, ReturnStep

\* A purge is a landing of its own.
LEMMA PurgeFits ==
  ASSUME TasksInv, NEW k \in Keys, Working(k), pass.phase # "ensures"
  PROVE  LET R == DeleteDone(reg, k, task[k].gen) IN
         /\ Fits(k, R) /\ ~R.entries[k].present
<1> DEFINE R == DeleteDone(reg, k, task[k].gen)
<1>1. /\ Sound(reg) /\ Current(reg, k, task[k].gen)
      /\ reg.entries[k].state = "removing"
  BY DeleteKnows
<1>2. /\ Sound(R) /\ Told(reg, R, 1)
      /\ \A j \in Keys \ {k} : R.entries[j] = reg.entries[j]
      /\ R.entries[k] = Absent(reg.entries[k].obj)
  BY <1>1, DeleteDoneSound, DeleteDoneTold
<1>3. Told(reg, R, 2)
  BY <1>1, <1>2, ToldWeaker DEF Sound
<1> QED
  BY <1>1, <1>2, <1>3 DEF Fits, Absent, Fresh

\* A straggler outlives the window: the rollout is deferred with its debt on
\* record, the delete is put off.
LEMMA DrainTimeoutStep ==
  ASSUME TasksInv, NEW k \in Keys, DrainTimeout(k)
  PROVE  Local(k) /\ KeyInv(k)'
<1> DEFINE g == task[k].gen
           R == Enter(reg, k, g, "unready", "replacing")
<1>1. /\ At(k, "drain") /\ Working(k) /\ KeyInv(k) /\ Sound(reg)
      /\ UNCHANGED <<serving, inflight>>
  BY DEF DrainTimeout, At, Working, TasksInv
<1>2. CASE pass.phase = "ensures" /\ Return(k, DeferDrain(R, k, g))
  <2>1. "unready" \in States \ {"removing"} /\ "replacing" \in Reasons
    BY DEF States, Reasons
  <2>2. ~reg.entries[k].serving /\ (Current(reg, k, g) => reg.entries[k].state # "removing")
    BY <1>1, <1>2, EnsureKnows DEF KeyInv, LabelInv, At
  <2>3. Softens(reg, R, k)
    BY <1>1, <2>1, <2>2, EnterSoftens
  <2>4. Lands(reg, R, k, 1) /\ Sound(R)
    BY <2>3, SoftensLands DEF Softens, Kept
  <2> HIDE DEF R
  <2>5. Lands(R, DeferDrain(R, k, g), k, 0)
    BY <2>4, MarksLand
  <2>6. Lands(reg, DeferDrain(R, k, g), k, 1 + 0)
    BY <1>1, <2>4, <2>5, LandsTrans
  <2>7. Fits(k, DeferDrain(R, k, g))
    BY <2>6, LandsFits
  <2> QED
    BY <1>1, <1>2, <2>7, ReturnStep
<1>3. CASE pass.phase # "ensures" /\ Return(k, DeleteFailed(reg, k, g, "delete_failed"))
  <2>1. "delete_failed" \in Reasons
    BY DEF Reasons
  <2>2. Fits(k, DeleteFailed(reg, k, g, "delete_failed"))
    BY <1>1, <2>1, DeleteFailedSoftens, SoftensLands, LandsFits
  <2> QED
    BY <1>1, <1>3, <2>2, ReturnStep
<1> QED
  BY <1>2, <1>3 DEF DrainTimeout

\* The drain is over: the rollout goes on to deploy without a debt, the delete
\* to the platform.
LEMMA DrainedStep ==
  ASSUME TasksInv, NEW k \in Keys, Drained(k)
  PROVE  /\ Local(k) /\ KeyInv(k)'
         /\ pass.phase = "ensures" =>
              /\ Lands(reg, reg', k, 2) /\ ~reg'.entries[k].serving
              /\ task'[k].pc = "lock" /\ UNCHANGED cause
<1> DEFINE g == task[k].gen
           D == DrainCompleted(reg, k, g)
           R == Enter(D, k, g, "deploying", "")
<1>1. /\ At(k, "drain") /\ Working(k) /\ KeyInv(k) /\ Sound(reg) /\ TypeOK
      /\ ~reg.entries[k].serving
      /\ UNCHANGED <<serving, inflight>>
  BY DEF Drained, At, Working, TasksInv, outside, KeyInv, LabelInv
<1>2. CASE pass.phase = "ensures" /\ reg' = R /\ Goto(k, "lock") /\ Quietly
  <2>1. /\ Current(reg, k, g) /\ reg.entries[k].state # "removing"
        /\ Exists(reg, k)
    BY <1>1, <1>2, EnsureKnows
  <2>2. /\ Lands(reg, D, k, 0) /\ ~D.entries[k].serving
        /\ ~D.entries[k].drainPending
    BY <1>1, <2>1, MarksLand, MarksTold
  <2> HIDE DEF D
  <2>3. /\ Sound(D) /\ Current(D, k, g) /\ D.entries[k].state # "removing"
    BY <2>1, <2>2 DEF Lands, Kept, Frame, Identity, Current
  <2>4. "deploying" \in States \ {"removing"} /\ "" \in Reasons
    BY DEF States, Reasons
  <2>5. /\ Softens(D, R, k)
        /\ R.entries[k].serving = D.entries[k].serving
        /\ Current(D, k, g) => R.entries[k].state = "deploying"
    BY <2>2, <2>3, <2>4, EnterSoftens, ZenonT(60)
  <2>6. Lands(D, R, k, 1)
    BY <2>5, SoftensLands
  <2>7. Lands(reg, R, k, 0 + 1)
    BY <1>1, <2>2, <2>6, LandsTrans
  <2> HIDE DEF R
  <2>8. /\ Lands(reg, reg', k, 2) /\ ~reg'.entries[k].serving
        /\ ~reg'.entries[k].drainPending /\ reg'.entries[k].state = "deploying"
    BY <1>2, <2>2, <2>3, <2>5, <2>7, LandsFits DEF Softens, Terms
  <2>9. /\ task'[k].pc = "lock" /\ task'[k].gen = g /\ task'[k].obj = task[k].obj
        /\ \A j \in Keys \ {k} : task'[j] = task[j]
        /\ UNCHANGED <<pass, memo, cause>>
    BY <1>1, <1>2, GotoMoves DEF PCs, Quietly
  <2>10. Local(k)
    BY <1>1, <2>8, <2>9 DEF Local, Lands, Kept, Frame
  <2>11. /\ reg'.entries[k].present /\ reg'.entries[k].busy
         /\ reg'.entries[k].obj = task[k].obj /\ reg'.entries[k].gen = g
         /\ reg'.entries[k].scope = reg.entries[k].scope
    BY <1>1, <2>1, <2>8 DEF Lands, Kept, Frame, Identity, KeyInv, HoldInv, Exists
  <2>12. VerifiedInv(k)' /\ VerdictInv(k)' /\ LabelInv(k)' /\ HoldInv(k)'
    BY <1>2, <2>8, <2>9, <2>11 DEF VerifiedInv, VerdictInv, LabelInv, HoldInv, At,
       Working, Exists
  <2>13. PhaseInv(k)' /\ ScopeInv(k)'
    BY <1>1, <1>2, <2>1, <2>8, <2>9, <2>11 DEF KeyInv, PhaseInv, ScopeInv, At,
       Exists, EnsurePCs, PCs
  <2> QED
    BY <2>8, <2>9, <2>10, <2>12, <2>13 DEF KeyInv
<1>3. CASE pass.phase = "deletes" /\ memo[k] # Unknown /\ Goto(k, "purge")
           /\ Quietly /\ UNCHANGED reg
  <2>1. /\ "purge" \in PCs \ {"idle", "todo", "done", "examine"}
        /\ "purge" \in DeletePCs
    BY DEF PCs, DeletePCs
  <2>2. memo[k] \in Scopes
    BY <1>1, <1>3 DEF TypeOK
  <2> QED
    BY <1>1, <1>3, <2>1, <2>2, MoveStep DEF Quietly
<1>4. CASE pass.phase = "deletes" /\ Return(k, DeleteDone(reg, k, g))
  BY <1>1, <1>4, PurgeFits, ReturnStep
<1> QED
  BY <1>2, <1>3, <1>4 DEF Drained

\* The delete takes the hold and waits for the swap.
LEMMA BeginRemoteDeleteStep ==
  ASSUME TasksInv, NEW k \in Keys, BeginRemoteDelete(k)
  PROVE  /\ Local(k) /\ KeyInv(k)'
         /\ task'[k].pc = "settle" /\ task'[k].target = reg'.seq
         /\ ~reg'.entries[k].serving /\ reg.entries[k].state = "removing"
         /\ Facts(reg'.entries[k]) = Facts(reg.entries[k])
<1> DEFINE R == Begin(reg, k)
<1>1. /\ At(k, "todo") /\ pass.phase = "deletes" /\ Sound(reg) /\ TypeOK
      /\ KeyInv(k) /\ Exists(reg, k) /\ reg.entries[k].state = "removing"
      /\ CanBegin(reg, k) /\ reg' = R
      /\ task' = [task EXCEPT ![k] = Held(k, "settle", R)]
      /\ UNCHANGED <<pass, memo, cause, serving, inflight>>
  BY DEF BeginRemoteDelete, CanBeginDelete, CanBegin, Removing, TasksInv, Quietly,
     outside
<1>2. /\ Sound(R) /\ Told(reg, R, 0) /\ R.entries[k].busy
      /\ \A j \in Keys \ {k} : R.entries[j] = reg.entries[j]
      /\ Facts(R.entries[k]) = Facts(reg.entries[k])
  BY <1>1, BegunKnows
<1> HIDE DEF R
<1>3. /\ R.entries[k].present = reg.entries[k].present
      /\ R.entries[k].state = reg.entries[k].state
      /\ R.entries[k].serving = reg.entries[k].serving
      /\ R.entries[k].scope = reg.entries[k].scope
  BY <1>2, FactsEach
<1>4. ~reg.entries[k].serving
  BY <1>1 DEF Sound, EntryOK, Out
<1>5. /\ task'[k].pc = "settle" /\ task'[k].target = R.seq
      /\ task'[k].gen = R.entries[k].gen /\ task'[k].obj = R.entries[k].obj
      /\ \A j \in Keys \ {k} : task'[j] = task[j]
  BY <1>1 DEF TypeOK, Held
<1>6. Told(reg, R, 2)
  BY <1>1, <1>2, ToldWeaker DEF Sound
<1>7. Local(k)
  BY <1>1, <1>2, <1>5, <1>6 DEF Local
<1>8. VerifiedInv(k)' /\ VerdictInv(k)' /\ LabelInv(k)' /\ HoldInv(k)'
  BY <1>1, <1>2, <1>3, <1>4, <1>5 DEF VerifiedInv, VerdictInv, LabelInv, HoldInv,
     At, Working, Exists
<1>9. PhaseInv(k)' /\ ScopeInv(k)'
  BY <1>1, <1>3, <1>5 DEF KeyInv, PhaseInv, ScopeInv, At, Exists, DeletePCs
<1> QED
  BY <1>1, <1>2, <1>3, <1>4, <1>5, <1>7, <1>8, <1>9 DEF KeyInv

\* The platform's delete answers.
LEMMA FinishDeleteStep ==
  ASSUME TasksInv, NEW k \in Keys, FinishDelete(k)
  PROVE  Local(k) /\ KeyInv(k)'
<1> DEFINE g == task[k].gen
<1>1. /\ At(k, "purge") /\ Working(k) /\ Sound(reg) /\ pass.phase # "ensures"
      /\ UNCHANGED <<serving, inflight>>
  BY PlacePhase DEF FinishDelete, At, Working, TasksInv
<1>2. /\ Fits(k, DeleteDone(reg, k, g))
      /\ Fits(k, DeleteFailed(reg, k, g, "delete_failed"))
  <2>1. "delete_failed" \in Reasons
    BY DEF Reasons
  <2> QED
    BY <1>1, <2>1, PurgeFits, DeleteFailedSoftens, SoftensLands, LandsFits
<1> QED
  BY <1>1, <1>2, ReturnStep DEF FinishDelete

\* Whatever a task does, every variable stays in its range.
LEMMA WorkType ==
  ASSUME TasksInv, NEW k \in Keys, Work(k), Sound(reg')
  PROVE  TypeOK'
<1> DEFINE s == pass.cfg[k]
           S == memo[k]
<1>1. TypeOK /\ Sound(reg) /\ KeyInv(k)
  BY DEF TasksInv
<1>2. ASSUME NEW R, Return(k, R)
      PROVE  task' \in [Keys -> Tasks] /\ cause' \in [Keys -> Causes]
             /\ UNCHANGED <<pass, memo>>
  <2>1. "blip" \in Causes
    BY DEF Causes
  <2> QED
    BY <1>1, <1>2, <2>1, TaskType, BlameType DEF Return
<1>3. ASSUME NEW pc \in PCs, Goto(k, pc), Quietly
      PROVE  task' \in [Keys -> Tasks] /\ cause' \in [Keys -> Causes]
             /\ UNCHANGED <<pass, memo>>
  BY <1>1, <1>3, TaskType DEF Goto, Quietly, TypeOK
<1>4. ASSUME Fault \/ UNCHANGED budget
      PROVE  budget' \in Allowances
  BY <1>1, <1>4, SpendType DEF Fault
<1>5. "drain" \in PCs /\ "lock" \in PCs /\ "deploy" \in PCs /\ "verify" \in PCs
      /\ "purge" \in PCs /\ "examine" \in PCs /\ "settle" \in PCs /\ "blip" \in Causes
  BY DEF PCs, Causes
<1>6. ASSUME NEW life \in Lives, NEW q \in Scopes,
             remote' = [remote EXCEPT ![Project(k)][q].live = life]
      PROVE  remote' \in [Keys -> [Scopes -> [live : Lives, host : Hosts]]]
  BY <1>1, <1>6, RemoteType
<1>7. /\ task' \in [Keys -> Tasks] /\ cause' \in [Keys -> Causes]
      /\ budget' \in Allowances
      /\ remote' \in [Keys -> [Scopes -> [live : Lives, host : Hosts]]]
      /\ UNCHANGED <<pass, memo, serving, inflight, desired, shutting>>
  <2>1. CASE Skip(k)
    BY <1>1, <2>1, TaskType DEF Skip, Quietly, TypeOK, outside
  <2>2. CASE BeginEnsure(k)
    <3>1. UNCHANGED <<pass, memo, serving, inflight, desired, shutting, remote>>
          /\ (Fault \/ UNCHANGED budget)
      BY <2>2 DEF BeginEnsure, Quietly
    <3>2. Begin(reg, k) \in Registries
      BY <1>1, <2>2, BeginSound DEF BeginEnsure, Sound
    <3>3. \/ /\ \E R : cause' = Blame(R, k, "blip")
             /\ task' = [task EXCEPT ![k] = [NoTask EXCEPT !.pc = "done"]]
          \/ /\ task' = [task EXCEPT ![k] = Held(k, "examine", Begin(reg, k))]
             /\ UNCHANGED cause
      BY <2>2 DEF BeginEnsure, Quietly
    <3>4. task' \in [Keys -> Tasks]
      BY <1>1, <1>5, <3>2, <3>3, TaskType
    <3>5. cause' \in [Keys -> Causes]
      BY <1>1, <1>5, <3>3, BlameType DEF TypeOK
    <3> QED
      BY <1>1, <1>4, <3>1, <3>4, <3>5 DEF TypeOK
  <2>3. CASE Examine(k)
    <3>1. /\ UNCHANGED <<serving, inflight, desired, shutting, remote>>
          /\ Fault \/ UNCHANGED budget
          /\ At(k, "examine")
      BY <2>3 DEF Examine, Rollout
    <3>2. \/ \E R : Return(k, R)
          \/ \E R \in {reg, Enter(reg, k, task[k].gen, "discovered", "missing")} :
               Rollout(k, R)
      BY <2>3 DEF Examine
    <3>3. ASSUME NEW R \in {reg, Enter(reg, k, task[k].gen, "discovered", "missing")},
                 Rollout(k, R)
          PROVE  /\ task' \in [Keys -> Tasks] /\ cause' \in [Keys -> Causes]
                 /\ UNCHANGED <<pass, memo>>
      BY <3>1, <3>3, RolloutStep DEF Rollout
    <3> QED
      BY <1>1, <1>2, <1>4, <3>1, <3>2, <3>3 DEF TypeOK
  <2>4. CASE Settle(k)
    BY <1>1, <1>2, <1>3, <1>5, <2>4 DEF Settle, outside, TypeOK
  <2>5. CASE Drained(k)
    BY <1>1, <1>2, <1>3, <1>5, <2>5 DEF Drained, outside, TypeOK
  <2>6. CASE DrainTimeout(k)
    <3>1. budget' \in Allowances
      BY <1>1, <2>6, SpendType DEF DrainTimeout
    <3> QED
      BY <1>1, <1>2, <2>6, <3>1 DEF DrainTimeout, TypeOK
  <2>7. CASE StartDeploy(k)
    BY <1>1, <1>3, <1>5, <2>7 DEF StartDeploy, outside, TypeOK
  <2>8. CASE FinishDeploy(k)
    <3>1. At(k, "deploy") /\ Working(k) /\ pass.phase = "ensures"
      BY <2>8, PlacePhase DEF FinishDeploy, At, Working
    <3>2. s \in Scopes /\ remote[Project(k)][s].live \in Lives
      BY <1>1, <3>1, EnsureKnows, PlacedEndpoint
    <3>3. \E life \in Lives : remote' = [remote EXCEPT ![Project(k)][s].live = life]
      BY <2>8, <3>2 DEF FinishDeploy, AfterDeploy, FailedDeploy, Lives
    <3>4. /\ \/ Goto(k, "verify") /\ Quietly
             \/ Return(k, Failing(reg, k, task[k].gen, "deploy_failed"))
          /\ Fault \/ UNCHANGED budget
          /\ UNCHANGED <<serving, inflight, desired, shutting>>
      BY <2>8 DEF FinishDeploy
    <3> QED
      BY <1>1, <1>2, <1>3, <1>4, <1>5, <1>6, <3>2, <3>3, <3>4
  <2>9. CASE VerifyDeployed(k)
    <3>1. /\ \E R : Return(k, R)
          /\ Fault \/ UNCHANGED budget
          /\ UNCHANGED <<serving, inflight, desired, shutting, remote>>
      BY <2>9 DEF VerifyDeployed
    <3> QED
      BY <1>1, <1>2, <1>4, <3>1 DEF TypeOK
  <2>10. CASE BeginRemoteDelete(k)
    <3>1. Begin(reg, k) \in Registries
      BY <1>1, <2>10, BeginSound DEF BeginRemoteDelete, CanBeginDelete, CanBegin, Sound
    <3> QED
      BY <1>1, <1>5, <2>10, <3>1, TaskType DEF BeginRemoteDelete, Quietly, TypeOK,
         outside
  <2>11. CASE FinishDelete(k)
    <3>1. S \in Scopes /\ remote[Project(k)][S].live \in Lives
      BY <1>1, <2>11, PlacedEndpoint DEF FinishDelete, KeyInv, ScopeInv
    <3>2. \/ \E life \in Lives : remote' = [remote EXCEPT ![Project(k)][S].live = life]
          \/ UNCHANGED remote
      BY <2>11, <3>1 DEF FinishDelete, AfterDelete, FailedDelete, Lives
    <3>3. /\ \E R : Return(k, R)
          /\ Fault \/ UNCHANGED budget
          /\ UNCHANGED <<serving, inflight, desired, shutting>>
      BY <2>11 DEF FinishDelete
    <3> QED
      BY <1>1, <1>2, <1>4, <1>6, <3>1, <3>2, <3>3 DEF TypeOK
  <2> QED
    BY <2>1, <2>2, <2>3, <2>4, <2>5, <2>6, <2>7, <2>8, <2>9, <2>10, <2>11 DEF Work
<1>8. reg' \in Registries
  BY DEF Sound
<1> QED
  BY <1>1, <1>7, <1>8 DEF TypeOK, serving

\* A task's step keeps what everyone relies on.
LEMMA WorkStep ==
  ASSUME TasksInv, NEW k \in Keys, Work(k)
  PROVE  Local(k) /\ KeyInv(k)'
BY SkipStep, BeginEnsureStep, ExamineStep, SettleStep, DrainedStep,
   DrainTimeoutStep, StartDeployStep, FinishDeployStep, VerifyDeployedStep,
   BeginRemoteDeleteStep, FinishDeleteStep DEF Work

\* A relay nobody touched is as it was, if its pass goes on.
LEMMA UntouchedKey ==
  ASSUME NEW k \in Keys, KeyInv(k), task'[k] = task[k],
         Facts(reg'.entries[k]) = Facts(reg.entries[k]),
         reg'.entries[k].busy = reg.entries[k].busy,
         UNCHANGED <<pass, memo>>
  PROVE  KeyInv(k)'
<1>1. /\ reg'.entries[k].present = reg.entries[k].present
      /\ reg'.entries[k].obj = reg.entries[k].obj
      /\ reg'.entries[k].gen = reg.entries[k].gen
      /\ reg'.entries[k].state = reg.entries[k].state
      /\ reg'.entries[k].serving = reg.entries[k].serving
      /\ reg'.entries[k].scope = reg.entries[k].scope
      /\ reg'.entries[k].url = reg.entries[k].url
      /\ reg'.entries[k].drainPending = reg.entries[k].drainPending
  BY FactsEach
<1>2. VerifiedInv(k)' /\ VerdictInv(k)' /\ LabelInv(k)' /\ ScopeInv(k)'
  BY <1>1 DEF KeyInv, VerifiedInv, VerdictInv, LabelInv, ScopeInv, At, Exists
<1>3. PhaseInv(k)' /\ HoldInv(k)'
  BY <1>1 DEF KeyInv, PhaseInv, HoldInv, At, Exists, Working
<1> QED
  BY <1>2, <1>3 DEF KeyInv

\* So the steps of the tasks keep the invariant.
LEMMA WorkKeeps ==
  ASSUME TasksInv, NEW k \in Keys, Work(k)
  PROVE  TasksInv'
<1>1. Local(k) /\ KeyInv(k)'
  BY WorkStep
<1>2. Sound(reg') /\ TypeOK'
  BY <1>1, WorkType DEF Local
<1>3. ASSUME NEW j \in Keys \ {k} PROVE KeyInv(j)'
  BY <1>1, UntouchedKey DEF TasksInv, Local
<1> QED
  BY <1>1, <1>2, <1>3 DEF TasksInv

-----------------------------------------------------------------------------
(* The steps of everyone else. *)

\* A pass's tasks, at its two starts and at its end.
LEMMA TodoType ==
  ASSUME NEW K
  PROVE  /\ Todo(K) \in [Keys -> Tasks]
         /\ \A k \in Keys : Todo(K)[k].pc = IF k \in K THEN "todo" ELSE "idle"
<1>1. NoTask \in Tasks /\ NoTask.pc = "idle"
  BY DEF NoTask, Tasks, PCs
<1>2. [NoTask EXCEPT !.pc = "todo"] \in Tasks
      /\ [NoTask EXCEPT !.pc = "todo"].pc = "todo"
  BY DEF NoTask, Tasks, PCs
<1> QED
  BY <1>1, <1>2 DEF Todo

\* The clock, a settings reload and the applier's receipt touch no fact.
LEMMA QuietKeeps ==
  ASSUME TasksInv, TypeOK', Sound(reg'), UNCHANGED <<pass, memo, task>>,
         \A k \in Keys : /\ Facts(reg'.entries[k]) = Facts(reg.entries[k])
                         /\ reg'.entries[k].busy = reg.entries[k].busy
  PROVE  TasksInv'
BY UntouchedKey DEF TasksInv

\* The admission snapshot is a pool.
LEMMA ServingType ==
  ASSUME TasksInv
  PROVE  Serving(reg) \in [Keys -> Endpoints \cup {NoEndpoint}]
<1>1. \A k \in Keys : IsReady(reg, k) => reg.entries[k].url \in Endpoints
  BY DEF TasksInv, KeyInv, VerifiedInv, IsReady
<1> QED
  BY <1>1 DEF Serving

\* The operator, the platforms, the callers and the clock.
LEMMA EnvironmentKeeps ==
  ASSUME TasksInv,
         \/ Edit \/ Drift \/ Elapse \/ Shutdown
         \/ \E k \in Keys : StartRequest(k)
         \/ \E k \in Keys, ep \in Endpoints : EndRequest(k, ep)
  PROVE  TasksInv'
<1>1. TypeOK /\ Sound(reg)
  BY DEF TasksInv
<1>2. CASE Elapse
  <2>1. /\ Sound(reg')
        /\ \A k \in Keys : /\ Facts(reg'.entries[k]) = Facts(reg.entries[k])
                           /\ reg'.entries[k].busy = reg.entries[k].busy
    BY <1>1, <1>2, TickSound, QuietReads, CfgIsSettings DEF Elapse
  <2>2. TypeOK'
    BY <1>1, <1>2, <2>1 DEF TypeOK, Elapse, Sound, serving, outside
  <2> QED
    BY <1>2, <2>1, <2>2, QuietKeeps DEF Elapse
<1>3. CASE ~Elapse
  <2>1. UNCHANGED control
    BY <1>3 DEF Edit, Drift, Shutdown, StartRequest, EndRequest
  <2>2. /\ desired' \in Members /\ reloaded' \in BOOLEAN /\ shutting' \in BOOLEAN
        /\ build' = build /\ applied' = applied /\ pool' = pool
        /\ inflight' \in [Keys -> SUBSET Endpoints]
        /\ remote' \in [Keys -> [Scopes -> [live : Lives, host : Hosts]]]
        /\ budget' \in Allowances
    <3>1. CASE Edit
      <4>1. budget' \in Allowances
        BY <1>1, <3>1, SpendType DEF Edit
      <4>2. budget \in Allowances
        BY <1>1 DEF TypeOK
      <4>3. desired' \in Members
        BY <3>1, <4>2 DEF Edit, Allowances
      <4> QED
        BY <1>1, <3>1, <4>1, <4>3 DEF TypeOK, Edit
    <3>2. CASE Drift
      <4>1. budget' \in Allowances
        BY <1>1, <3>2, SpendType DEF Drift
      <4>2. remote' \in [Keys -> [Scopes -> [live : Lives, host : Hosts]]]
        BY <1>1, <3>2 DEF TypeOK, Drift
      <4> QED
        BY <1>1, <3>2, <4>1, <4>2 DEF TypeOK, Drift, serving
    <3>3. CASE Shutdown
      <4>1. budget' \in Allowances
        BY <1>1, <3>3, SpendType DEF Shutdown
      <4> QED
        BY <1>1, <3>3, <4>1 DEF TypeOK, Shutdown, serving
    <3>4. ASSUME NEW k \in Keys, StartRequest(k)
          PROVE  inflight' \in [Keys -> SUBSET Endpoints]
      BY <1>1, <3>4 DEF TypeOK, StartRequest, Plane!Start
    <3>5. ASSUME NEW k \in Keys, NEW ep \in Endpoints, EndRequest(k, ep)
          PROVE  inflight' \in [Keys -> SUBSET Endpoints]
      BY <1>1, <3>5 DEF TypeOK, EndRequest, Plane!End
    <3> QED
      BY <1>1, <1>3, <3>1, <3>2, <3>3, <3>4, <3>5 DEF TypeOK, StartRequest,
         EndRequest, Plane!Start, Plane!End, serving
  <2>3. TypeOK'
    BY <1>1, <2>1, <2>2 DEF TypeOK, control
  <2> QED
    BY <1>1, <2>1, <2>3, QuietKeeps DEF control
<1> QED
  BY <1>2, <1>3

\* The applier.
LEMMA ApplyKeeps ==
  ASSUME TasksInv, Apply
  PROVE  TasksInv'
<1>1. TypeOK /\ Sound(reg) /\ reg.seq \in Nat
  BY DEF TasksInv, Sound, Registries
<1>2. CASE Capture
  <2>1. /\ reg' = Received(reg) \/ reg' = UpdateSettings(reg, Cfg)
        /\ reloaded' \in BOOLEAN
    BY <1>1, <1>2 DEF Capture, TypeOK
  <2>2. Sound(reg')
    BY <1>1, <2>1, ReceivedSound, UpdateSettingsSound, CfgIsSettings
  <2>3. \A k \in Keys : /\ Facts(reg'.entries[k]) = Facts(reg.entries[k])
                        /\ reg'.entries[k].busy = reg.entries[k].busy
    BY <1>1, <2>1, QuietReads, CfgIsSettings
  <2>4. build' \in [phase : {"idle", "captured", "built"}, seq : Nat,
                    snap : [Keys -> Endpoints \cup {NoEndpoint}]]
    <3>1. build' = [phase |-> "captured", seq |-> reg.seq,
                    snap |-> [k \in Keys |-> NoEndpoint]]
      BY <1>2 DEF Capture, NoBuild
    <3> QED
      BY <1>1, <3>1
  <2>5. TypeOK'
    BY <1>1, <1>2, <2>1, <2>2, <2>4 DEF TypeOK, Capture, Sound, outside
  <2> QED
    BY <1>2, <2>2, <2>3, <2>5, QuietKeeps DEF Capture
<1>3. CASE Snapshot
  <2>1. TypeOK'
    BY <1>1, <1>3, ServingType DEF TypeOK, Snapshot, control, outside
  <2> QED
    BY <1>1, <1>3, <2>1, QuietKeeps DEF Snapshot, control
<1>4. CASE Publish
  <2>1. NoBuild \in [phase : {"idle", "captured", "built"}, seq : Nat,
                     snap : [Keys -> Endpoints \cup {NoEndpoint}]]
    BY DEF NoBuild
  <2>2. TypeOK'
    BY <1>1, <1>4, <2>1 DEF TypeOK, Publish, control, outside
  <2> QED
    BY <1>1, <1>4, <2>2, QuietKeeps DEF Publish, control
<1> QED
  BY <1>2, <1>3, <1>4 DEF Apply

\* What Sync makes of one relay between two passes: it stays verified and not
\* held, what is desired is not on its way out, and the incarnation stands for
\* the scope just resolved or for the one resolved last.
LEMMA SyncedKey ==
  ASSUME NEW e \in Entry, EntryOK(e), NEW m \in Wants, NEW last,
         e.serving => e.url \in Endpoints,
         e.present => ~e.busy /\ e.scope \in {last, Unknown}
  PROVE  LET f == SyncEntry(e, m) IN
         /\ f.serving => f.url \in Endpoints
         /\ f.present => /\ ~f.busy
                         /\ f.scope \in {IF m \in Scopes THEN m ELSE last, Unknown}
         /\ m # Gone => f.present /\ f.state # "removing"
<1> DEFINE f == SyncEntry(e, m)
<1>1. m \in Scopes \/ m = Unknown \/ m = Gone
  BY DEF Wants
<1>2. CASE Appears(e, m)
  <2> DEFINE n == Fresh(e.obj + 1, m)
  <2>1. f = n
    BY <1>2 DEF SyncEntry, Appears, Returns, Leaves, Resolves, Flips, Stays
  <2>2. /\ ~n.serving /\ ~n.busy /\ n.scope = m /\ n.state = "configured"
        /\ n.present
    BY DEF Fresh
  <2> HIDE DEF n
  <2> QED
    BY <1>1, <1>2, <2>1, <2>2 DEF Appears
<1>3. CASE Returns(e, m)
  <2>1. f = Returned(e, m)
    BY <1>3 DEF SyncEntry, Appears, Returns, Leaves, Resolves, Flips, Stays
  <2>2. /\ f.serving = e.serving /\ f.url = e.url /\ f.busy = e.busy
        /\ f.present = e.present /\ f.scope = m /\ f.state = "configured"
    BY <2>1 DEF Returned, Entry
  <2> QED
    BY <1>1, <1>3, <2>2 DEF Returns
<1>4. CASE Leaves(e, m)
  <2>1. f = Left(e)
    BY <1>4 DEF SyncEntry, Appears, Returns, Leaves, Resolves, Flips, Stays
  <2>2. /\ ~f.serving /\ f.busy = e.busy /\ f.present = e.present
        /\ f.scope = e.scope
    BY <2>1 DEF Left, Entry
  <2> QED
    BY <1>1, <1>4, <2>2, NullsDistinct DEF Leaves
<1>5. CASE Resolves(e, m)
  <2>1. f = [e EXCEPT !.scope = m]
    BY <1>5 DEF SyncEntry, Appears, Returns, Leaves, Resolves, Flips, Stays
  <2>2. /\ f.serving = e.serving /\ f.url = e.url /\ f.busy = e.busy
        /\ f.present = e.present /\ f.scope = m /\ f.state = e.state
    BY <2>1 DEF Entry
  <2> QED
    BY <1>1, <1>5, <2>2 DEF Resolves, Stays
<1>6. CASE Flips(e, m)
  <2>1. f = Flipped(e, m)
    BY <1>6 DEF SyncEntry, Appears, Returns, Leaves, Resolves, Flips, Stays
  <2>2. /\ ~f.serving /\ f.busy = e.busy /\ f.present = e.present
        /\ f.scope = m /\ f.state = "configured"
    BY <2>1 DEF Flipped, Entry
  <2> QED
    BY <1>1, <1>6, <2>2 DEF Flips, Stays
<1>7. CASE ~(Appears(e, m) \/ Returns(e, m) \/ Leaves(e, m) \/ Resolves(e, m)
             \/ Flips(e, m))
  <2>1. f = e
    BY <1>7 DEF SyncEntry, Appears, Returns, Leaves, Resolves, Flips, Stays
  <2>2. m # Gone => e.present /\ e.state # "removing"
    BY <1>7 DEF Appears, Returns
  <2>3. e.present /\ m \in Scopes => e.scope \in {m, Unknown}
    BY <1>7, <2>2, NullsDistinct DEF Resolves, Flips, Stays
  <2> QED
    BY <1>1, <2>1, <2>2, <2>3
<1> QED
  BY <1>2, <1>3, <1>4, <1>5, <1>6, <1>7

\* A pass starts with the registry brought in line with the desired state.
LEMMA StartPassKeeps ==
  ASSUME TasksInv, StartPass
  PROVE  TasksInv'
<1>1. /\ TypeOK /\ Sound(reg) /\ pass.phase = "idle"
      /\ UNCHANGED <<serving, desired, inflight, remote, shutting>>
      /\ task' = Todo(Removing(reg'))
      /\ pass' = [phase |-> "deletes", cfg |-> desired]
  BY DEF TasksInv, StartPass
<1>2. PICK hiccup \in SUBSET {k \in Keys : desired[k] # Gone} :
        /\ Started(hiccup)
        /\ LET m == Claims(desired, hiccup) IN
             /\ reg' = Sync(reg, m)
             /\ memo' = [k \in Keys |-> IF m[k] \in Scopes THEN m[k] ELSE memo[k]]
             /\ cause' = Swept(m)
  BY DEF StartPass
<1> DEFINE m == Claims(desired, hiccup)
<1>3. m \in [Keys -> Wants] /\ \A k \in Keys : desired[k] # Gone <=> m[k] # Gone
  BY <1>1, NullsDistinct DEF TypeOK, Claims, Members, Wants
<1>4. /\ reg' = Sync(reg, m) /\ cause' = Swept(m)
      /\ memo' = [k \in Keys |-> IF m[k] \in Scopes THEN m[k] ELSE memo[k]]
  BY <1>2
<1> HIDE DEF m
<1>5. /\ Sound(reg')
      /\ \A k \in Keys : reg'.entries[k] = SyncEntry(reg.entries[k], m[k])
  BY <1>1, <1>3, <1>4, SyncSound, SyncTold
<1>6. TypeOK'
  <2>1. budget' \in Allowances
    <3>1. budget \in Allowances /\ shutting \in BOOLEAN
      BY <1>1 DEF TypeOK
    <3>2. (IF hiccup = {} THEN budget.faults ELSE budget.faults - 1) \in Nat
      BY <1>2, <3>1 DEF Started, Allowances
    <3>3. (IF shutting THEN budget.stops - 1 ELSE budget.stops) \in Nat
      BY <1>2, <3>1 DEF Started, Allowances
    <3> QED
      BY <1>2, <3>1, <3>2, <3>3 DEF Started, Allowances
  <2>2. task' \in [Keys -> Tasks]
    BY <1>1, TodoType
  <2>3. cause' \in [Keys -> Causes]
    BY <1>1, <1>4 DEF TypeOK, Swept, Causes
  <2>4. memo' \in [Keys -> Scopes \cup {Unknown}]
    BY <1>1, <1>4 DEF TypeOK
  <2>5. pass' \in [phase : {"idle", "deletes", "ensures", "stopped"}, cfg : Members]
    BY <1>1 DEF TypeOK
  <2> QED
    BY <1>1, <1>5, <2>1, <2>2, <2>3, <2>4, <2>5 DEF TypeOK, Sound, serving
<1>7. ASSUME NEW k \in Keys
      PROVE  KeyInv(k)'
  <2> DEFINE e == reg.entries[k]
             f == SyncEntry(e, m[k])
  <2>1. e \in Entry /\ EntryOK(e) /\ m[k] \in Wants /\ KeyInv(k)
    BY <1>1, <1>3 DEF Sound, Registries, TasksInv
  <2>2. /\ e.serving => e.url \in Endpoints
        /\ e.present => ~e.busy /\ e.scope \in {memo[k], Unknown}
    BY <1>1, <2>1 DEF KeyInv, VerifiedInv, PhaseInv, HoldInv, ScopeInv, Working, At,
       Exists
  <2>3. /\ f.serving => f.url \in Endpoints
        /\ f.present => ~f.busy /\ f.scope \in {memo'[k], Unknown}
        /\ m[k] # Gone => f.present /\ f.state # "removing"
    <3>1. memo'[k] = IF m[k] \in Scopes THEN m[k] ELSE memo[k]
      BY <1>4
    <3> QED
      BY <2>1, <2>2, <3>1, SyncedKey
  <2>4. /\ reg'.entries[k] = f /\ task'[k].pc \in {"todo", "idle"}
        /\ pass'.phase = "deletes" /\ pass'.cfg[k] = desired[k]
    BY <1>1, <1>5, TodoType
  <2> HIDE DEF f
  <2>5. VerifiedInv(k)' /\ VerdictInv(k)' /\ LabelInv(k)' /\ HoldInv(k)' /\ ScopeInv(k)'
    BY <2>3, <2>4 DEF VerifiedInv, VerdictInv, LabelInv, HoldInv, ScopeInv, At,
       Working, Exists
  <2>6. PhaseInv(k)'
    BY <1>3, <2>3, <2>4 DEF PhaseInv, At, Exists, DeletePCs
  <2> QED
    BY <2>5, <2>6 DEF KeyInv
<1> QED
  BY <1>5, <1>6, <1>7 DEF TasksInv

\* The tasks of a phase are joined: the next phase's start, or none do.
LEMMA JoinKeeps ==
  ASSUME TasksInv, StartEnsures \/ EndPass
  PROVE  TasksInv'
<1>1. /\ TypeOK /\ Sound(reg) /\ pass.phase # "idle"
      /\ \A k \in Keys : task[k].pc \in {"idle", "done"}
      /\ UNCHANGED <<reg, memo, cause, serving, outside>>
  BY DEF TasksInv, StartEnsures, EndPass, Settled
<1> DEFINE K == IF StartEnsures THEN {k \in Keys : pass.cfg[k] # Gone} ELSE {}
<1>2. /\ \E L : task' = Todo(L)
      /\ \A k \in Keys : task'[k].pc \in {"idle", "todo"}
  BY TodoType DEF StartEnsures, EndPass
<1>3. /\ task' \in [Keys -> Tasks]
      /\ pass' \in [phase : {"idle", "deletes", "ensures", "stopped"}, cfg : Members]
  <2>1. task' \in [Keys -> Tasks]
    BY <1>2, TodoType
  <2>2. CASE StartEnsures
    BY <1>1, <2>1, <2>2 DEF StartEnsures, TypeOK
  <2>3. CASE EndPass
    BY <1>1, <2>1, <2>3 DEF EndPass, TypeOK, Members
  <2> QED
    BY <2>2, <2>3
<1>4. TypeOK'
  BY <1>1, <1>3 DEF TypeOK, serving, outside
<1>5. ASSUME NEW k \in Keys
      PROVE  KeyInv(k)'
  <2>1. KeyInv(k) /\ ~Working(k)
    BY <1>1 DEF TasksInv, Working
  <2>2. PhaseInv(k)'
    <3>1. CASE StartEnsures
      <4>1. /\ pass.phase = "deletes"
            /\ pass'.phase = "ensures" /\ pass'.cfg = pass.cfg
        BY <1>1, <3>1 DEF StartEnsures, TypeOK
      <4>2. task'[k].pc = IF pass.cfg[k] # Gone THEN "todo" ELSE "idle"
        BY <3>1, TodoType DEF StartEnsures
      <4> QED
        BY <1>1, <2>1, <4>1, <4>2 DEF KeyInv, PhaseInv, At, Exists, EnsurePCs, PCs
    <3>2. CASE EndPass
      <4>1. /\ pass'.phase = "idle" /\ task'[k].pc = "idle"
        BY <3>2, TodoType DEF EndPass
      <4> QED
        BY <4>1 DEF PhaseInv, At
    <3> QED
      BY <3>1, <3>2
  <2>3. VerifiedInv(k)' /\ VerdictInv(k)' /\ LabelInv(k)' /\ HoldInv(k)' /\ ScopeInv(k)'
    BY <1>1, <1>2, <2>1 DEF KeyInv, VerifiedInv, VerdictInv, LabelInv, HoldInv,
       ScopeInv, At, Working, Exists
  <2> QED
    BY <2>2, <2>3 DEF KeyInv
<1> QED
  BY <1>1, <1>4, <1>5 DEF TasksInv

\* The loop returns between two passes.
LEMMA HaltKeeps ==
  ASSUME TasksInv, Halt
  PROVE  TasksInv'
<1>1. /\ TypeOK /\ Sound(reg) /\ pass.phase = "idle"
      /\ UNCHANGED <<reg, task, memo, cause, serving, outside>>
  BY DEF TasksInv, Halt
<1>2. /\ pass' \in [phase : {"idle", "deletes", "ensures", "stopped"}, cfg : Members]
      /\ pass'.phase = "stopped"
  BY <1>1 DEF TypeOK, Halt
<1>3. TypeOK'
  BY <1>1, <1>2 DEF TypeOK, serving, outside
<1>4. ASSUME NEW k \in Keys PROVE KeyInv(k)'
  <2>1. KeyInv(k) /\ task[k].pc = "idle"
    BY <1>1 DEF TasksInv, KeyInv, PhaseInv, At
  <2> QED
    BY <1>1, <1>2, <2>1 DEF KeyInv, VerifiedInv, PhaseInv, HoldInv, VerdictInv,
       LabelInv, ScopeInv, At, Working, Exists
<1> QED
  BY <1>1, <1>3, <1>4 DEF TasksInv

\* The process starts with no relay, no task and an empty pool.
LEMMA InitTasks ==
  ASSUME Init
  PROVE  TasksInv
<1>1. Absent(0) \in Entry /\ ~Absent(0).serving /\ ~Absent(0).present
  BY FreshType DEF Absent, Fresh
<1>2. /\ reg \in Registries /\ reg.ready = 0
      /\ \A k \in Keys : reg.entries[k] = Absent(0)
  BY <1>1, CfgIsSettings DEF Init, New, Registries
<1>3. Sound(reg)
  <2>1. Served(reg) = {}
    BY <1>1, <1>2 DEF Served
  <2> QED
    BY <1>1, <1>2, <2>1, FS_EmptySet DEF Sound, EntryOK
<1>4. TypeOK
  <2>1. NoBuild \in [phase : {"idle", "captured", "built"}, seq : Nat,
                     snap : [Keys -> Endpoints \cup {NoEndpoint}]]
    BY DEF NoBuild
  <2>2. NoTask \in Tasks /\ "none" \in Causes
    BY DEF NoTask, Tasks, PCs, Causes
  <2>3. remote \in [Keys -> [Scopes -> [live : Lives, host : Hosts]]]
    BY AtBootIsLives DEF Init
  <2>4. budget \in Allowances
    BY BudgetsAreAllowances DEF Init
  <2> QED
    BY <1>2, <2>1, <2>2, <2>3, <2>4 DEF Init, TypeOK, Members
<1>5. ASSUME NEW k \in Keys
      PROVE  KeyInv(k)
  <2>1. task[k].pc = "idle" /\ pass.phase = "idle"
    BY DEF Init, NoTask
  <2> QED
    BY <1>1, <1>2, <2>1 DEF KeyInv, VerifiedInv, PhaseInv, HoldInv, VerdictInv,
       LabelInv, ScopeInv, At, Working, Exists
<1> QED
  BY <1>3, <1>4, <1>5 DEF TasksInv

\* Each step of the fleet keeps the invariant.
LEMMA NextTasks ==
  ASSUME TasksInv, [Next]_vars
  PROVE  TasksInv'
<1>1. CASE UNCHANGED vars
  <2>1. UNCHANGED <<reg, pass, memo, task>> /\ TypeOK'
    BY <1>1 DEF vars, control, serving, outside, TasksInv, TypeOK
  <2> QED
    BY <2>1, QuietKeeps DEF TasksInv
<1> QED
  BY <1>1, EnvironmentKeeps, ApplyKeeps, StartPassKeeps, JoinKeeps, HaltKeeps,
     WorkKeeps
     DEF Next, Pass

-----------------------------------------------------------------------------
(* What follows for every behaviour. *)

\* The inductive invariant of the control loop.
THEOREM TasksAgree == Spec => []TasksInv
<1>1. Init => TasksInv
  BY InitTasks
<1>2. TasksInv /\ [Next]_vars => TasksInv'
  BY NextTasks
<1> QED
  BY <1>1, <1>2, PTL DEF Spec

\* Every variable of the fleet stays in its declared range.
THEOREM FleetTyping == Spec => []TypeOK
<1>1. TasksInv => TypeOK
  BY DEF TasksInv
<1> QED
  BY <1>1, TasksAgree, PTL

\* The single-flight hold is taken exactly as long as a task works on the
\* relay (reconcile.go ensureRelay, rollout, runDeletes: defer release()).
THEOREM HoldsReturn == Spec => []HoldsAreReturned
<1>1. TasksInv => HoldsAreReturned
  BY DEF TasksInv, KeyInv, HoldInv, Working, HoldsAreReturned
<1> QED
  BY <1>1, TasksAgree, PTL

\* A deploy is under way only for a relay labelled so, out of admission, into
\* the scope its incarnation stands for (reconcile.go rollout, pass).
THEOREM DeploysStandFor == Spec => []DeploysTheIncarnation
<1>1. TasksInv => DeploysTheIncarnation
  <2> SUFFICES ASSUME TasksInv, NEW k \in Keys, At(k, "deploy")
               PROVE  /\ k \notin ServingKeys(reg)
                      /\ reg.entries[k].state = "deploying"
                      /\ memo[k] = pass.cfg[k]
                           => reg.entries[k].scope \in {pass.cfg[k], Unknown}
    BY DEF DeploysTheIncarnation
  <2>1. KeyInv(k) /\ Working(k)
    BY DEF TasksInv, Working, At
  <2>2. /\ ~reg.entries[k].serving /\ reg.entries[k].state = "deploying"
        /\ reg.entries[k].scope \in {memo[k], Unknown}
    BY <2>1 DEF KeyInv, HoldInv, LabelInv, ScopeInv, At
  <2> QED
    BY <2>2 DEF ServingKeys, IsReady
<1> QED
  BY <1>1, TasksAgree, PTL
=============================================================================
