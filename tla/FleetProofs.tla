----------------------------- MODULE FleetProofs -----------------------------
(***************************************************************************)
(* The settle barrier and the drain, proved for every set of relays, scopes*)
(* and hosts and for every allowance of faults: no notification is lost, a *)
(* pool that claims to be up to date is, and no remote is deleted, and none*)
(* whose admission a rollout took is redeployed, under a request.          *)
(* The requests are those of module Traffic, all of them, and no more is   *)
(* assumed of the data plane.                                              *)
(***************************************************************************)
EXTENDS FleetTasks

-----------------------------------------------------------------------------
(***************************************************************************)
(* What the applier, the pool and the rollouts must agree on.              *)
(***************************************************************************)

\* The notification counter has room for one more step: 2^64 is far away.
Roomy == reg.seq + Cardinality(Keys) + 2 < SeqMod

\* What is applied was captured, what is captured was announced, and whatever
\* is not captured yet has left a token.
ApplierInv ==
  /\ applied <= reg.seq
  /\ build.phase = "idle" => reg.changes \/ applied = reg.seq
  /\ build.phase # "idle" => /\ applied <= build.seq /\ build.seq <= reg.seq
                             /\ reg.changes \/ build.seq = reg.seq

\* A pool and a snapshot that are up to date show exactly the admitted.
ShownInv(k) ==
  /\ applied = reg.seq => (pool[k] # NoEndpoint <=> reg.entries[k].serving)
  /\ build.phase = "built" /\ build.seq = reg.seq =>
       (build.snap[k] # NoEndpoint <=> reg.entries[k].serving)

\* Neither the pool nor the pool about to be published routes to k.
Unrouted(k) == /\ pool[k] = NoEndpoint
               /\ build.phase = "built" => build.snap[k] = NoEndpoint

\* At the barrier: any pool that reflects the target is one without k, and past
\* it every pool is.
BarrierInv(k) ==
  /\ At(k, "settle") =>
       /\ task[k].target <= reg.seq
       /\ applied >= task[k].target => pool[k] = NoEndpoint
       /\ build.phase = "built" /\ build.seq >= task[k].target =>
            build.snap[k] = NoEndpoint
  /\ task[k].pc \in {"drain", "purge"} => Unrouted(k)
  /\ At(k, "purge") => Idle(k)

\* A relay whose admission a rollout took owes its drain: on record, as the
\* work of its task, or paid.
DebtInv(k) ==
  cause[k] = "rollout" =>
    /\ Exists(reg, k) /\ reg.entries[k].state # "removing"
    /\ ~reg.entries[k].serving
    /\ \/ reg.entries[k].drainPending
       \/ task[k].pc \in {"settle", "drain"}
       \/ Unrouted(k) /\ Idle(k)

RouteInv(k) == ShownInv(k) /\ BarrierInv(k) /\ DebtInv(k)

RoutesInv == ApplierInv /\ \A k \in Keys : RouteInv(k)

\* While there is room, an announcement is what it says.
LEMMA Announced ==
  ASSUME TasksInv, Roomy, Sound(reg'), NEW n \in {2, Cardinality(Keys)},
         Told(reg, reg', n)
  PROVE  /\ reg.seq \in Nat /\ reg'.seq \in Nat /\ reg.seq <= reg'.seq
         /\ reg.changes => reg'.changes
         /\ reg'.seq # reg.seq => reg'.changes
         /\ reg'.seq = reg.seq =>
              \A k \in Keys : reg'.entries[k].serving <=> reg.entries[k].serving
<1>1. reg.seq \in Nat /\ reg'.seq \in Nat /\ SeqMod \in Nat /\ Cardinality(Keys) \in Nat
  BY BoundsAreNat, KeysFinite, FS_CardinalityType DEF TasksInv, Sound, Registries
<1>2. reg.seq + n < SeqMod
  BY <1>1 DEF Roomy
<1>3. Served(reg') = Served(reg) =>
        \A k \in Keys : reg'.entries[k].serving <=> reg.entries[k].serving
  BY DEF Served
<1> QED
  BY <1>1, <1>2, <1>3 DEF Told

\* A step that leaves the pool to the applier announces what it changes.
LEMMA TellingKeeps ==
  ASSUME TasksInv, Roomy, RoutesInv, Sound(reg'), UNCHANGED serving,
         NEW n \in {2, Cardinality(Keys)}, Told(reg, reg', n)
  PROVE  /\ ApplierInv'
         /\ \A k \in Keys : ShownInv(k)'
         /\ reg.seq <= reg'.seq /\ reg.seq \in Nat /\ reg'.seq \in Nat
<1>1. /\ reg.seq \in Nat /\ reg'.seq \in Nat /\ reg.seq <= reg'.seq
      /\ reg.changes => reg'.changes
      /\ reg'.seq # reg.seq => reg'.changes
  BY Announced
<1>2. reg'.seq = reg.seq =>
        \A k \in Keys : reg'.entries[k].serving <=> reg.entries[k].serving
  BY Announced
<1>3. applied \in Nat /\ build.seq \in Nat
  BY DEF TasksInv, TypeOK
<1>4. UNCHANGED <<build, applied, pool>>
  BY DEF serving
<1>5. ApplierInv'
  <2>1. applied' <= reg'.seq
    BY <1>1, <1>3, <1>4 DEF RoutesInv, ApplierInv
  <2>2. (build.phase = "idle")' => (reg.changes \/ applied = reg.seq)'
    BY <1>1, <1>3, <1>4 DEF RoutesInv, ApplierInv
  <2>3. (build.phase # "idle")' => (/\ applied <= build.seq /\ build.seq <= reg.seq
                                    /\ reg.changes \/ build.seq = reg.seq)'
    BY <1>1, <1>3, <1>4 DEF RoutesInv, ApplierInv
  <2> QED
    BY <2>1, <2>2, <2>3 DEF ApplierInv
<1>6. ASSUME NEW k \in Keys PROVE ShownInv(k)'
  <2>1. ShownInv(k) /\ applied <= reg.seq
        /\ (build.phase = "built" => build.seq <= reg.seq)
    BY DEF RoutesInv, RouteInv, ApplierInv
  <2>2. CASE reg'.seq = reg.seq
    <3>1. reg'.entries[k].serving <=> reg.entries[k].serving
      BY <1>2, <2>2
    <3> QED
      BY <1>4, <2>1, <2>2, <3>1 DEF ShownInv
  <2>3. CASE reg'.seq # reg.seq
    <3>1. /\ applied' # reg'.seq
          /\ ~(build'.phase = "built" /\ build'.seq = reg'.seq)
      BY <1>1, <1>3, <1>4, <2>1, <2>3
    <3> QED
      BY <3>1 DEF ShownInv
  <2> QED
    BY <2>2, <2>3
<1> QED
  BY <1>1, <1>5, <1>6

\* A barrier just raised is right about every pool to come.
LEMMA NewBarrier ==
  ASSUME NEW k \in Keys, ApplierInv', ShownInv(k)', reg'.seq \in Nat,
         applied' \in Nat, build'.seq \in Nat,
         task'[k].pc = "settle", task'[k].target = reg'.seq,
         ~reg'.entries[k].serving
  PROVE  BarrierInv(k)'
<1>1. /\ applied' <= reg'.seq
      /\ build'.phase = "built" => build'.seq <= reg'.seq
  BY DEF ApplierInv
<1>2. applied' >= task'[k].target => pool'[k] = NoEndpoint
  BY <1>1 DEF ShownInv
<1>3. build'.phase = "built" /\ build'.seq >= task'[k].target =>
        build'.snap[k] = NoEndpoint
  BY <1>1 DEF ShownInv
<1> QED
  BY <1>2, <1>3 DEF BarrierInv, At

\* A task that returns leaves no barrier, and the debt to the record.
LEMMA ReturnRoute ==
  ASSUME TasksInv, NEW k \in Keys, Working(k), RouteInv(k),
         NEW R, Return(k, R), Lands(reg, R, k, 2), UNCHANGED <<serving, inflight>>,
         \/ R.entries[k].serving \/ R.entries[k].drainPending
         \/ /\ task[k].pc \notin {"settle", "drain"} \/ reg.entries[k].state = "removing"
            /\ R.entries[k].drainPending = reg.entries[k].drainPending
  PROVE  BarrierInv(k)' /\ DebtInv(k)'
<1>1. TypeOK /\ Sound(reg) /\ Exists(reg, k) /\ Fits(k, R)
  BY DEF TasksInv, KeyInv, HoldInv, Fits
<1>2. /\ task'[k].pc = "done"
      /\ Served(reg') = Served(R)
      /\ reg'.entries[k].present = R.entries[k].present
      /\ reg'.entries[k].state = R.entries[k].state
      /\ reg'.entries[k].drainPending = R.entries[k].drainPending
  BY <1>1, ReturnStep
<1>3. BarrierInv(k)'
  BY <1>2 DEF BarrierInv, At
<1>4. /\ R.entries[k].present
      /\ (R.entries[k].state = "removing") = (reg.entries[k].state = "removing")
  BY <1>1 DEF Lands, Kept, Frame, Identity, Exists
<1>5. /\ cause' = Blame(R, k, "blip") /\ "blip" \in Causes
      /\ UNCHANGED <<pool, build, inflight>>
  BY DEF Return, Causes, serving
<1>6. cause'[k] = "rollout" => cause[k] = "rollout" /\ ~IsReady(R, k)
  BY <1>1, <1>5, BlameType
<1>7. ASSUME cause'[k] = "rollout"
      PROVE  /\ Exists(reg', k) /\ reg'.entries[k].state # "removing"
             /\ ~reg'.entries[k].serving
             /\ reg'.entries[k].drainPending \/ (Unrouted(k)' /\ Idle(k)')
  <2>1. /\ ~R.entries[k].serving /\ reg.entries[k].state # "removing"
        /\ reg.entries[k].drainPending \/ task[k].pc \in {"settle", "drain"}
             \/ (Unrouted(k) /\ Idle(k))
    BY <1>4, <1>6, <1>7 DEF RouteInv, DebtInv, IsReady, Exists
  <2>2. ~reg'.entries[k].serving
    BY <1>2, <2>1 DEF Served
  <2>3. Unrouted(k) /\ Idle(k) => Unrouted(k)' /\ Idle(k)'
    BY <1>5 DEF Unrouted, Idle
  <2> QED
    BY <1>2, <1>4, <2>1, <2>2, <2>3 DEF Exists
<1> QED
  BY <1>3, <1>7 DEF DebtInv

\* A task of a relay on its way out returns: no rollout took its admission.
LEMMA RemovalRoute ==
  ASSUME TasksInv, NEW k \in Keys, Working(k), RouteInv(k),
         NEW R, Return(k, R), Fits(k, R), reg.entries[k].state = "removing",
         UNCHANGED <<serving, inflight>>
  PROVE  BarrierInv(k)' /\ DebtInv(k)'
<1>1. task'[k].pc = "done" /\ TypeOK
  BY ReturnStep DEF TasksInv
<1>2. cause' = Blame(R, k, "blip") /\ "blip" \in Causes
  BY DEF Return, Causes
<1>3. cause'[k] # "rollout"
  BY <1>1, <1>2, BlameType DEF RouteInv, DebtInv
<1> QED
  BY <1>1, <1>3 DEF BarrierInv, DebtInv, At

\* A task that moves on past the barrier, or deploys without a debt.
LEMMA MoveRoute ==
  ASSUME TasksInv, NEW k \in Keys, Working(k), RouteInv(k), NEW pc \in PCs,
         Goto(k, pc), UNCHANGED <<reg, cause, serving, inflight>>,
         \/ pc = "drain"
         \/ pc = "purge" /\ Idle(k)
         \/ pc \in {"deploy", "verify"} /\ ~At(k, "settle") /\ ~At(k, "drain"),
         pc \in {"drain", "purge"} => Unrouted(k)
  PROVE  BarrierInv(k)' /\ DebtInv(k)'
<1>1. task'[k].pc = pc
  BY GotoMoves DEF TasksInv
<1>2. UNCHANGED <<pool, build>>
  BY DEF serving
<1>3. (Unrouted(k)' <=> Unrouted(k)) /\ (Idle(k)' <=> Idle(k))
  BY <1>2 DEF Unrouted, Idle
<1>4. BarrierInv(k)'
  BY <1>1, <1>3 DEF BarrierInv, At
<1>5. DebtInv(k)'
  BY <1>1, <1>3 DEF RouteInv, DebtInv, At, Exists
<1> QED
  BY <1>4, <1>5

\* Each step of a task keeps the barrier and the debt of its relay.
LEMMA WorkRoute ==
  ASSUME TasksInv, Roomy, RoutesInv, NEW k \in Keys, Work(k)
  PROVE  BarrierInv(k)' /\ DebtInv(k)'
<1> DEFINE g == task[k].gen
           s == pass.cfg[k]
<1>1. /\ TypeOK /\ Sound(reg) /\ KeyInv(k) /\ RouteInv(k)
      /\ Local(k) /\ KeyInv(k)' /\ Sound(reg')
      /\ UNCHANGED <<serving, inflight, build, pool, applied>>
  BY WorkStep DEF TasksInv, RoutesInv, Local, serving
<1>2. ApplierInv' /\ ShownInv(k)' /\ reg'.seq \in Nat
      /\ applied' \in Nat /\ build'.seq \in Nat
  BY <1>1, TellingKeeps DEF Local, TypeOK
<1>3. ASSUME task'[k].pc = "settle", task'[k].target = reg'.seq,
             ~reg'.entries[k].serving
      PROVE  BarrierInv(k)'
  BY <1>2, <1>3, NewBarrier
<1>4. ASSUME Working(k), pass.phase = "ensures"
      PROVE  Current(reg, k, g) /\ reg.entries[k].state # "removing"
  BY <1>4, EnsureKnows
<1>5. (Unrouted(k)' <=> Unrouted(k)) /\ (Idle(k)' <=> Idle(k))
  BY <1>1 DEF Unrouted, Idle
<1>6. CASE Skip(k)
  <2>1. task'[k].pc = "done" /\ At(k, "todo") /\ UNCHANGED <<reg, cause>>
    BY <1>1, <1>6 DEF Skip, TypeOK, NoTask, Quietly
  <2> QED
    BY <1>1, <1>5, <2>1 DEF RouteInv, BarrierInv, DebtInv, At, Exists
<1>7. CASE BeginEnsure(k)
  <2>1. At(k, "todo")
    BY <1>7 DEF BeginEnsure
  <2> QED
    BY <1>1, <1>5, <1>7, <2>1, BeginEnsureStep DEF RouteInv, BarrierInv, DebtInv,
       At, Exists
<1>8. CASE BeginRemoteDelete(k)
  <2>1. /\ task'[k].pc = "settle" /\ task'[k].target = reg'.seq
        /\ ~reg'.entries[k].serving /\ reg.entries[k].state = "removing"
        /\ UNCHANGED cause
    BY <1>8, BeginRemoteDeleteStep DEF BeginRemoteDelete, Quietly
  <2>2. cause'[k] # "rollout"
    BY <1>1, <2>1 DEF RouteInv, DebtInv
  <2> QED
    BY <1>3, <2>1, <2>2 DEF DebtInv
<1>9. ASSUME Working(k), pass.phase = "ensures",
             task[k].pc \notin {"settle", "drain"},
             NEW reason \in Reasons, NEW url \in Endpoints
      PROVE  \A R \in {Failing(reg, k, g, reason), Demote(reg, k, g, reason),
                       Pause(reg, k, g, reason), Ready(reg, k, g, url)} :
               Return(k, R) => BarrierInv(k)' /\ DebtInv(k)'
  <2>1. ASSUME NEW R, Softens(reg, R, k), Return(k, R)
        PROVE  BarrierInv(k)' /\ DebtInv(k)'
    <3>1. Lands(reg, R, k, 2) /\ R.entries[k].drainPending = reg.entries[k].drainPending
      BY <2>1, SoftensLands, LandsFits DEF Softens, Terms
    <3> QED
      BY <1>1, <1>9, <2>1, <3>1, ReturnRoute
  <2>2. ASSUME Return(k, Ready(reg, k, g, url))
        PROVE  BarrierInv(k)' /\ DebtInv(k)'
    <3>1. /\ Lands(reg, Ready(reg, k, g, url), k, 2)
          /\ Ready(reg, k, g, url).entries[k].serving
      BY <1>1, <1>4, <1>9, ReadyLands, ReadyTold, LandsFits
    <3> QED
      BY <1>1, <1>9, <2>2, <3>1, ReturnRoute
  <2>3. /\ Softens(reg, Failing(reg, k, g, reason), k)
        /\ Softens(reg, Demote(reg, k, g, reason), k)
        /\ Softens(reg, Pause(reg, k, g, reason), k)
    BY <1>1, <1>4, <1>9, FailingSoftens, DemoteSoftens, PauseSoftens
  <2> QED
    BY <2>1, <2>2, <2>3
<1>10. /\ {"unreachable", "paused", "deploy_failed", "version_failed",
           "probe_failed"} \subseteq Reasons
  BY DEF Reasons
<1>11. CASE Examine(k)
  <2>1. At(k, "examine") /\ Working(k) /\ pass.phase = "ensures"
    BY <1>11, PlacePhase DEF Examine, At, Working
  <2>2. <<s, remote[Project(k)][s].host>> \in Endpoints
    BY <1>1, <2>1, EnsureKnows, PlacedEndpoint
  <2>3. ASSUME NEW R \in {reg, Enter(reg, k, g, "discovered", "missing")},
               Rollout(k, R)
        PROVE  BarrierInv(k)' /\ DebtInv(k)'
    <3>1. /\ Lands(reg, reg', k, 2) /\ ~reg'.entries[k].serving
          /\ \/ task'[k].pc = "settle" /\ task'[k].target = reg'.seq
             \/ task'[k].pc = "lock" /\ ~reg.entries[k].drainPending
                                     /\ cause'[k] = cause[k]
      BY <1>1, <2>1, <2>3, RolloutStep
    <3>2. /\ Exists(reg', k) /\ reg'.entries[k].state # "removing"
      BY <1>4, <2>1, <3>1 DEF Lands, Kept, Frame, Identity, Current, Exists
    <3>3. CASE task'[k].pc = "settle" /\ task'[k].target = reg'.seq
      BY <1>3, <3>1, <3>2, <3>3 DEF DebtInv
    <3>4. CASE /\ task'[k].pc = "lock" /\ ~reg.entries[k].drainPending
               /\ cause'[k] = cause[k]
      <4>1. cause[k] = "rollout" => Unrouted(k) /\ Idle(k)
        BY <1>1, <2>1, <3>4 DEF RouteInv, DebtInv, At
      <4> QED
        BY <1>5, <3>1, <3>2, <3>4, <4>1 DEF DebtInv, BarrierInv, At
    <3> QED
      BY <3>1, <3>3, <3>4
  <2>4. \/ Return(k, Failing(reg, k, g, "unreachable"))
        \/ Return(k, Pause(reg, k, g, "paused"))
        \/ Return(k, Ready(reg, k, g, <<s, remote[Project(k)][s].host>>))
        \/ Rollout(k, reg)
        \/ Rollout(k, Enter(reg, k, g, "discovered", "missing"))
    BY <1>11 DEF Examine
  <2> QED
    BY <1>9, <1>10, <2>1, <2>2, <2>3, <2>4 DEF At
<1>12. CASE VerifyDeployed(k)
  <2>1. At(k, "verify") /\ Working(k) /\ pass.phase = "ensures"
    BY <1>12, PlacePhase DEF VerifyDeployed, At, Working
  <2>2. <<s, remote[Project(k)][s].host>> \in Endpoints
    BY <1>1, <2>1, EnsureKnows, PlacedEndpoint
  <2>3. \/ Return(k, Demote(reg, k, g, "version_failed"))
        \/ Return(k, Demote(reg, k, g, "probe_failed"))
        \/ Return(k, Pause(reg, k, g, "paused"))
        \/ Return(k, Ready(reg, k, g, <<s, remote[Project(k)][s].host>>))
    BY <1>12 DEF VerifyDeployed
  <2> QED
    BY <1>9, <1>10, <2>1, <2>2, <2>3 DEF At
<1>13. CASE StartDeploy(k)
  <2>1. At(k, "lock") /\ Goto(k, "deploy") /\ UNCHANGED <<reg, cause>> /\ Working(k)
    BY <1>13 DEF StartDeploy, Quietly, At, Working
  <2>2. "deploy" \in PCs
    BY DEF PCs
  <2> QED
    BY <1>1, <2>1, <2>2, MoveRoute DEF At
<1>14. CASE FinishDeploy(k)
  <2>1. At(k, "deploy") /\ Working(k) /\ pass.phase = "ensures"
    BY <1>14, PlacePhase DEF FinishDeploy, At, Working
  <2>2. CASE Goto(k, "verify") /\ UNCHANGED <<reg, cause>>
    <3>1. "verify" \in PCs
      BY DEF PCs
    <3> QED
      BY <1>1, <2>1, <2>2, <3>1, MoveRoute DEF At
  <2>3. CASE Return(k, Failing(reg, k, g, "deploy_failed"))
    <3>1. Softens(reg, Failing(reg, k, g, "deploy_failed"), k)
      BY <1>1, <1>4, <1>10, <2>1, FailingSoftens
    <3>2. /\ Lands(reg, Failing(reg, k, g, "deploy_failed"), k, 2)
          /\ Failing(reg, k, g, "deploy_failed").entries[k].drainPending
               = reg.entries[k].drainPending
      BY <3>1, SoftensLands, LandsFits DEF Softens, Terms
    <3> QED
      BY <1>1, <2>1, <2>3, <3>2, ReturnRoute DEF At
  <2> QED
    BY <1>14, <2>2, <2>3 DEF FinishDeploy, Quietly
<1>15. CASE Settle(k)
  <2>1. At(k, "settle") /\ Working(k)
    BY <1>15 DEF Settle, At, Working
  <2>2. CASE applied >= task[k].target /\ Goto(k, "drain") /\ UNCHANGED <<reg, cause>>
    <3>1. task[k].target \in Nat /\ applied \in Nat /\ build.seq \in Nat
      BY <1>1 DEF TypeOK, Tasks
    <3>2. Unrouted(k)
      <4>1. build.phase = "built" => applied <= build.seq
        BY DEF RoutesInv, ApplierInv
      <4>2. build.phase = "built" => build.seq >= task[k].target
        BY <2>2, <3>1, <4>1
      <4> QED
        BY <1>1, <2>1, <2>2, <4>2 DEF RouteInv, BarrierInv, Unrouted
    <3>3. "drain" \in PCs
      BY DEF PCs
    <3> QED
      BY <1>1, <2>1, <2>2, <3>2, <3>3, MoveRoute
  <2>3. CASE pass.phase = "ensures" /\ Return(k, DeferDrain(reg, k, g))
    <3>1. /\ Lands(reg, DeferDrain(reg, k, g), k, 2)
          /\ DeferDrain(reg, k, g).entries[k].drainPending
      BY <1>1, <1>4, <2>1, <2>3, MarksLand, MarksTold, LandsFits
    <3> QED
      BY <1>1, <2>1, <2>3, <3>1, ReturnRoute
  <2>4. CASE pass.phase # "ensures" /\ Return(k, reg)
    <3>1. reg.entries[k].state = "removing" /\ Fits(k, reg)
      BY <1>1, <2>1, <2>4, DeleteKnows, LandsItself, LandsFits
    <3> QED
      BY <1>1, <2>1, <2>4, <3>1, RemovalRoute
  <2> QED
    BY <1>15, <2>2, <2>3, <2>4 DEF Settle, Quietly
<1>16. CASE Drained(k)
  <2>1. At(k, "drain") /\ Working(k) /\ Idle(k) /\ Unrouted(k)
    BY <1>1, <1>16 DEF Drained, At, Working, RouteInv, BarrierInv
  <2>2. CASE pass.phase = "ensures"
    <3>1. /\ Lands(reg, reg', k, 2) /\ ~reg'.entries[k].serving
          /\ task'[k].pc = "lock"
      BY <1>16, <2>2, DrainedStep
    <3>2. Exists(reg', k) /\ reg'.entries[k].state # "removing"
      BY <1>4, <2>1, <2>2, <3>1 DEF Lands, Kept, Frame, Identity, Current, Exists
    <3> QED
      BY <1>5, <2>1, <3>1, <3>2 DEF DebtInv, BarrierInv, At
  <2>3. CASE Goto(k, "purge") /\ UNCHANGED <<reg, cause>>
    <3>1. "purge" \in PCs
      BY DEF PCs
    <3> QED
      BY <1>1, <2>1, <2>3, <3>1, MoveRoute
  <2>4. CASE pass.phase # "ensures" /\ Return(k, DeleteDone(reg, k, g))
    BY <1>1, <2>1, <2>4, DeleteKnows, PurgeFits, RemovalRoute
  <2> QED
    BY <1>16, <2>2, <2>3, <2>4 DEF Drained, Quietly
<1>17. CASE DrainTimeout(k)
  <2>1. At(k, "drain") /\ Working(k)
    BY <1>17 DEF DrainTimeout, At, Working
  <2> DEFINE R == Enter(reg, k, g, "unready", "replacing")
  <2>2. CASE pass.phase = "ensures" /\ Return(k, DeferDrain(R, k, g))
    <3>1. "unready" \in States \ {"removing"} /\ "replacing" \in Reasons
      BY DEF States, Reasons
    <3>2. ~reg.entries[k].serving
      BY <1>1, <2>1 DEF KeyInv, LabelInv, At
    <3>3. Softens(reg, R, k)
      BY <1>1, <1>4, <2>1, <2>2, <3>1, <3>2, EnterSoftens
    <3>4. Lands(reg, R, k, 1) /\ Sound(R)
      BY <3>3, SoftensLands DEF Softens, Kept
    <3> HIDE DEF R
    <3>5. Lands(R, DeferDrain(R, k, g), k, 0)
      BY <3>4, MarksLand
    <3>6. Lands(reg, DeferDrain(R, k, g), k, 1 + 0)
      BY <1>1, <3>4, <3>5, LandsTrans
    <3>7. Lands(reg, DeferDrain(R, k, g), k, 2)
      BY <3>6, LandsFits
    <3>8. Current(R, k, g)
      BY <1>4, <2>1, <2>2, <3>4 DEF Lands, Kept, Frame, Identity, Current
    <3>9. DeferDrain(R, k, g).entries[k].drainPending
      BY <3>4, <3>8, MarksTold
    <3> QED
      BY <1>1, <2>1, <2>2, <3>7, <3>9, ReturnRoute
  <2>3. CASE pass.phase # "ensures" /\ Return(k, DeleteFailed(reg, k, g, "delete_failed"))
    <3>1. "delete_failed" \in Reasons
      BY DEF Reasons
    <3>2. Fits(k, DeleteFailed(reg, k, g, "delete_failed"))
      BY <1>1, <3>1, DeleteFailedSoftens, SoftensLands, LandsFits
    <3> QED
      BY <1>1, <2>1, <2>3, <3>2, DeleteKnows, RemovalRoute
  <2> QED
    BY <1>17, <2>2, <2>3 DEF DrainTimeout
<1>18. CASE FinishDelete(k)
  <2>1. At(k, "purge") /\ Working(k) /\ pass.phase # "ensures"
    BY <1>18, PlacePhase DEF FinishDelete, At, Working
  <2>2. "delete_failed" \in Reasons
    BY DEF Reasons
  <2>3. /\ Fits(k, DeleteDone(reg, k, g))
        /\ Fits(k, DeleteFailed(reg, k, g, "delete_failed"))
    BY <1>1, <2>1, <2>2, PurgeFits, DeleteFailedSoftens, SoftensLands, LandsFits
  <2> QED
    BY <1>1, <1>18, <2>1, <2>3, DeleteKnows, RemovalRoute DEF FinishDelete
<1> QED
  BY <1>6, <1>7, <1>8, <1>11, <1>12, <1>13, <1>14, <1>15, <1>16, <1>17, <1>18 DEF Work

\* Nor does a task's step disturb the relays of the others.
LEMMA OthersRoute ==
  ASSUME TasksInv, RoutesInv, NEW k \in Keys, Local(k), NEW j \in Keys \ {k},
         reg.seq <= reg'.seq, reg.seq \in Nat, reg'.seq \in Nat
  PROVE  BarrierInv(j)' /\ DebtInv(j)'
<1>1. /\ reg'.entries[j] = reg.entries[j] /\ task'[j] = task[j]
      /\ cause'[j] = cause[j] /\ RouteInv(j) /\ task[j].target \in Nat
      /\ UNCHANGED <<applied, build, pool, inflight>>
  BY DEF Local, RoutesInv, serving, TasksInv, TypeOK, Tasks
<1>2. (Unrouted(j)' <=> Unrouted(j)) /\ (Idle(j)' <=> Idle(j))
  BY <1>1 DEF Unrouted, Idle
<1>3. At(j, "settle") => task[j].target <= reg'.seq
  BY <1>1 DEF RouteInv, BarrierInv
<1>4. BarrierInv(j)'
  BY <1>1, <1>2, <1>3 DEF RouteInv, BarrierInv, At
<1>5. DebtInv(j)'
  BY <1>1, <1>2 DEF RouteInv, DebtInv, Exists
<1> QED
  BY <1>4, <1>5

\* The tasks.
LEMMA WorkKeepsRoutes ==
  ASSUME TasksInv, Roomy, RoutesInv, NEW k \in Keys, Work(k)
  PROVE  RoutesInv'
<1>1. Local(k)
  BY WorkStep
<1>2. /\ ApplierInv' /\ \A j \in Keys : ShownInv(j)'
      /\ reg.seq <= reg'.seq /\ reg.seq \in Nat /\ reg'.seq \in Nat
  BY <1>1, TellingKeeps DEF Local
<1>3. BarrierInv(k)' /\ DebtInv(k)'
  BY WorkRoute
<1>4. \A j \in Keys \ {k} : BarrierInv(j)' /\ DebtInv(j)'
  BY <1>1, <1>2, OthersRoute
<1> QED
  BY <1>2, <1>3, <1>4 DEF RoutesInv, RouteInv

\* Steps that leave the registry's facts, the tasks and the pool alone, and
\* start no request where none may start.
LEMMA CalmKeeps ==
  ASSUME RoutesInv, UNCHANGED <<applied, build, pool, task, cause>>,
         reg'.seq = reg.seq, reg'.changes = reg.changes,
         \A k \in Keys : Facts(reg'.entries[k]) = Facts(reg.entries[k]),
         \A k \in Keys : Unrouted(k) /\ Idle(k) => inflight'[k] = {}
  PROVE  RoutesInv'
<1>1. ApplierInv'
  BY DEF RoutesInv, ApplierInv
<1>2. ASSUME NEW k \in Keys PROVE RouteInv(k)'
  <2>1. /\ reg'.entries[k].present = reg.entries[k].present
        /\ reg'.entries[k].state = reg.entries[k].state
        /\ reg'.entries[k].serving = reg.entries[k].serving
        /\ reg'.entries[k].drainPending = reg.entries[k].drainPending
    BY FactsEach
  <2>2. /\ Unrouted(k)' <=> Unrouted(k)
        /\ Unrouted(k) /\ Idle(k) => Idle(k)'
    BY DEF Unrouted, Idle
  <2>3. RouteInv(k)
    BY DEF RoutesInv
  <2>4. ShownInv(k)' /\ DebtInv(k)'
    BY <2>1, <2>2, <2>3 DEF RouteInv, ShownInv, DebtInv, Exists
  <2>5. BarrierInv(k)'
    BY <2>1, <2>2, <2>3 DEF RouteInv, BarrierInv, At
  <2> QED
    BY <2>4, <2>5 DEF RouteInv
<1> QED
  BY <1>1, <1>2 DEF RoutesInv

\* The operator, the platforms, the callers and the clock.
LEMMA EnvironmentKeepsRoutes ==
  ASSUME TasksInv, RoutesInv,
         \/ Edit \/ Drift \/ Elapse \/ Shutdown
         \/ \E k \in Keys : StartRequest(k)
         \/ \E k \in Keys, ep \in Endpoints : EndRequest(k, ep)
  PROVE  RoutesInv'
<1>1. TypeOK /\ Sound(reg)
  BY DEF TasksInv
<1>2. CASE Elapse
  <2>1. /\ reg'.seq = reg.seq /\ reg'.changes = reg.changes
        /\ \A k \in Keys : Facts(reg'.entries[k]) = Facts(reg.entries[k])
    BY <1>1, <1>2, QuietReads, CfgIsSettings DEF Elapse
  <2> QED
    BY <1>2, <2>1, CalmKeeps DEF Elapse, serving, outside, Idle
<1>3. CASE ~Elapse
  <2>1. UNCHANGED <<control, applied, build, pool>>
    BY <1>3 DEF Edit, Drift, Shutdown, StartRequest, EndRequest, Plane!Start,
       Plane!End, serving
  <2>2. ASSUME NEW k \in Keys, Unrouted(k), Idle(k)
        PROVE  inflight'[k] = {}
    <3>1. CASE UNCHANGED inflight
      BY <2>2, <3>1 DEF Idle
    <3>2. ASSUME NEW j \in Keys, StartRequest(j)
          PROVE  inflight'[k] = {}
      BY <1>1, <2>2, <3>2 DEF StartRequest, Plane!Start, Unrouted, Idle, TypeOK
    <3>3. ASSUME NEW j \in Keys, NEW ep \in Endpoints, EndRequest(j, ep)
          PROVE  inflight'[k] = {}
      BY <1>1, <2>2, <3>3 DEF EndRequest, Plane!End, Idle, TypeOK
    <3> QED
      BY <1>3, <3>1, <3>2, <3>3 DEF Edit, Drift, Shutdown
  <2> QED
    BY <2>1, <2>2, CalmKeeps DEF control
<1> QED
  BY <1>2, <1>3

\* The applier captures: the announcements so far are its to show.
LEMMA CaptureKeepsRoutes ==
  ASSUME TasksInv, RoutesInv, Capture
  PROVE  RoutesInv'
<1>1. /\ TypeOK /\ Sound(reg) /\ reg.seq \in Nat /\ build.phase = "idle"
      /\ UNCHANGED <<task, cause, applied, pool, inflight>>
      /\ build'.phase = "captured" /\ build'.seq = reg.seq
  BY DEF TasksInv, Sound, Registries, Capture, outside, NoBuild
<1>2. reg' = Received(reg) \/ reg' = UpdateSettings(reg, Cfg)
  BY DEF Capture
<1>3. /\ reg'.seq = reg.seq
      /\ \A k \in Keys : Facts(reg'.entries[k]) = Facts(reg.entries[k])
  BY <1>1, <1>2, QuietReads, CfgIsSettings
<1>4. ApplierInv'
  BY <1>1, <1>3 DEF RoutesInv, ApplierInv
<1>5. ASSUME NEW k \in Keys PROVE RouteInv(k)'
  <2>1. /\ reg'.entries[k].present = reg.entries[k].present
        /\ reg'.entries[k].state = reg.entries[k].state
        /\ reg'.entries[k].serving = reg.entries[k].serving
        /\ reg'.entries[k].drainPending = reg.entries[k].drainPending
    BY <1>3, FactsEach
  <2>2. (Unrouted(k) => Unrouted(k)') /\ (Idle(k)' <=> Idle(k)) /\ RouteInv(k)
    BY <1>1 DEF Unrouted, Idle, RoutesInv
  <2>3. ShownInv(k)' /\ DebtInv(k)'
    BY <1>1, <1>3, <2>1, <2>2 DEF RouteInv, ShownInv, DebtInv, Exists
  <2>4. BarrierInv(k)'
    BY <1>1, <1>3, <2>2 DEF RouteInv, BarrierInv, At
  <2> QED
    BY <2>3, <2>4 DEF RouteInv
<1> QED
  BY <1>4, <1>5 DEF RoutesInv

\* It takes the snapshot: exactly the admitted are in it.
LEMMA SnapshotKeepsRoutes ==
  ASSUME TasksInv, RoutesInv, Snapshot
  PROVE  RoutesInv'
<1>1. /\ TypeOK /\ Sound(reg) /\ build.phase = "captured"
      /\ UNCHANGED <<reg, task, cause, applied, pool, inflight>>
      /\ build'.phase = "built" /\ build'.seq = build.seq
      /\ build'.snap = Serving(reg)
  BY DEF TasksInv, TypeOK, Snapshot, outside, control
<1>2. ASSUME NEW k \in Keys
      PROVE  Serving(reg)[k] # NoEndpoint <=> reg.entries[k].serving
  <2>1. /\ reg.entries[k].serving =>
             reg.entries[k].url \in Endpoints /\ IsReady(reg, k)
    BY <1>1 DEF TasksInv, KeyInv, VerifiedInv, Sound, EntryOK, IsReady, Exists
  <2>2. ~reg.entries[k].serving => ~IsReady(reg, k)
    BY DEF IsReady
  <2> QED
    BY <2>1, <2>2, NullsDistinct DEF Serving
<1>3. ApplierInv'
  BY <1>1 DEF RoutesInv, ApplierInv
<1>4. ASSUME NEW k \in Keys PROVE RouteInv(k)'
  <2>1. build'.snap[k] # NoEndpoint <=> reg.entries[k].serving
    BY <1>1, <1>2
  <2>2. RouteInv(k) /\ KeyInv(k) /\ (Idle(k)' <=> Idle(k))
    BY <1>1 DEF RoutesInv, TasksInv, Idle
  <2>3. ~reg.entries[k].serving => (Unrouted(k) => Unrouted(k)')
    BY <1>1, <2>1 DEF Unrouted
  <2>4. ShownInv(k)' /\ DebtInv(k)'
    BY <1>1, <2>1, <2>2, <2>3 DEF RouteInv, ShownInv, DebtInv, Exists
  <2>5. BarrierInv(k)'
    BY <1>1, <2>1, <2>2, <2>3 DEF RouteInv, BarrierInv, KeyInv, LabelInv, At
  <2> QED
    BY <2>4, <2>5 DEF RouteInv
<1> QED
  BY <1>3, <1>4 DEF RoutesInv

\* It swaps the pool and records what was captured before the snapshot.
LEMMA PublishKeepsRoutes ==
  ASSUME TasksInv, RoutesInv, Publish
  PROVE  RoutesInv'
<1>1. /\ TypeOK /\ build.phase = "built" /\ reg.seq \in Nat
      /\ applied \in Nat /\ build.seq \in Nat
      /\ UNCHANGED <<reg, task, cause, inflight>>
      /\ pool' = build.snap /\ build'.phase = "idle"
  BY DEF TasksInv, TypeOK, Publish, outside, control, NoBuild, Registries
<1>2. /\ applied <= build.seq /\ build.seq <= reg.seq
      /\ reg.changes \/ build.seq = reg.seq
  BY <1>1 DEF RoutesInv, ApplierInv
<1>3. applied' = build.seq
  BY <1>1, <1>2 DEF Publish
<1>4. ApplierInv'
  BY <1>1, <1>2, <1>3 DEF ApplierInv
<1>5. ASSUME NEW k \in Keys PROVE RouteInv(k)'
  <2>1. RouteInv(k) /\ (Idle(k)' <=> Idle(k)) /\ (Unrouted(k) => Unrouted(k)')
    BY <1>1 DEF RoutesInv, Idle, Unrouted
  <2>2. ShownInv(k)' /\ DebtInv(k)'
    BY <1>1, <1>3, <2>1 DEF RouteInv, ShownInv, DebtInv, Exists
  <2>3. BarrierInv(k)'
    BY <1>1, <1>3, <2>1 DEF RouteInv, BarrierInv, At
  <2> QED
    BY <2>2, <2>3 DEF RouteInv
<1> QED
  BY <1>4, <1>5 DEF RoutesInv

\* Sync gives back no admission a rollout took, and drops no drain owed by a
\* relay that stays, in its scope or in another one.
LEMMA SyncedDebt ==
  ASSUME NEW e \in Entry, NEW m \in Wants, e.present, e.state # "removing",
         ~e.serving, ~Leaves(e, m)
  PROVE  LET f == SyncEntry(e, m) IN
         /\ f.present /\ f.state # "removing" /\ ~f.serving
         /\ f.drainPending = e.drainPending
<1> DEFINE f == SyncEntry(e, m)
           r == [e EXCEPT !.scope = m]
           n == Flipped(e, m)
<1>1. \/ f = e
      \/ f = r
      \/ f = n
  BY DEF SyncEntry, Appears, Returns, Leaves, Resolves, Flips, Stays
<1>2. /\ r.present = e.present /\ r.state = e.state
      /\ r.serving = e.serving /\ r.drainPending = e.drainPending
  BY DEF Entry
<1>3. /\ n.present = e.present /\ n.state = "configured"
      /\ ~n.serving /\ n.drainPending = e.drainPending
  BY DEF Entry, Flipped
<1> HIDE DEF f, r, n
<1>4. /\ f.present /\ f.state # "removing" /\ ~f.serving
      /\ f.drainPending = e.drainPending
  BY <1>1, <1>2, <1>3
<1> QED
  BY <1>4 DEF f

\* A pass starts.
LEMMA StartPassKeepsRoutes ==
  ASSUME TasksInv, Roomy, RoutesInv, StartPass
  PROVE  RoutesInv'
<1>1. /\ TypeOK /\ Sound(reg) /\ pass.phase = "idle"
      /\ UNCHANGED <<serving, inflight>>
      /\ \A k \in Keys : task'[k].pc \in {"idle", "todo"}
  BY TodoType DEF TasksInv, StartPass
<1>2. PICK hiccup \in SUBSET {k \in Keys : desired[k] # Gone} :
        LET m == Claims(desired, hiccup) IN
        reg' = Sync(reg, m) /\ cause' = Swept(m)
  BY DEF StartPass
<1> DEFINE m == Claims(desired, hiccup)
<1>3. m \in [Keys -> Wants]
  BY <1>1 DEF TypeOK, Claims, Members, Wants
<1>4. reg' = Sync(reg, m) /\ cause' = Swept(m)
  BY <1>2
<1> HIDE DEF m
<1>5. /\ Sound(reg') /\ Told(reg, reg', Cardinality(Keys))
      /\ \A k \in Keys : reg'.entries[k] = SyncEntry(reg.entries[k], m[k])
  BY <1>1, <1>3, <1>4, SyncSound, SyncTold
<1>6. ApplierInv' /\ \A k \in Keys : ShownInv(k)'
  BY <1>1, <1>5, TellingKeeps
<1>7. ASSUME NEW k \in Keys PROVE BarrierInv(k)' /\ DebtInv(k)'
  <2>1. BarrierInv(k)'
    <3>1. task'[k].pc \in {"idle", "todo"}
      BY <1>1
    <3> QED
      BY <3>1 DEF BarrierInv, At
  <2>2. ASSUME cause'[k] = "rollout"
        PROVE  /\ Exists(reg', k) /\ reg'.entries[k].state # "removing"
               /\ ~reg'.entries[k].serving
               /\ reg'.entries[k].drainPending \/ (Unrouted(k)' /\ Idle(k)')
    <3> DEFINE e == reg.entries[k]
    <3>1. cause[k] = "rollout" /\ ~Leaves(e, m[k])
      BY <1>4, <2>2 DEF Swept
    <3>2. /\ RouteInv(k) /\ task[k].pc = "idle"
          /\ e \in Entry /\ m[k] \in Wants
      BY <1>1, <1>3 DEF RoutesInv, TasksInv, KeyInv, PhaseInv, At, Sound, Registries
    <3>3. /\ e.present /\ e.state # "removing" /\ ~e.serving
          /\ e.drainPending \/ (Unrouted(k) /\ Idle(k))
      BY <3>1, <3>2 DEF RouteInv, DebtInv, Exists
    <3>4. (Unrouted(k)' <=> Unrouted(k)) /\ (Idle(k)' <=> Idle(k))
      BY <1>1 DEF Unrouted, Idle, serving
    <3>5. /\ reg'.entries[k].present /\ reg'.entries[k].state # "removing"
          /\ ~reg'.entries[k].serving
          /\ reg'.entries[k].drainPending = e.drainPending
      BY <1>5, <3>1, <3>2, <3>3, SyncedDebt
    <3> QED
      BY <3>3, <3>4, <3>5 DEF Exists
  <2>3. DebtInv(k)'
    BY <2>2 DEF DebtInv
  <2> QED
    BY <2>1, <2>3
<1> QED
  BY <1>6, <1>7 DEF RoutesInv, RouteInv

\* The joins.
LEMMA JoinKeepsRoutes ==
  ASSUME TasksInv, RoutesInv, StartEnsures \/ EndPass
  PROVE  RoutesInv'
<1>1. /\ \A k \in Keys : task[k].pc \in {"idle", "done"}
      /\ UNCHANGED <<reg, cause, applied, build, pool, inflight>>
      /\ \A k \in Keys : task'[k].pc \in {"idle", "todo"}
  BY TodoType DEF TasksInv, StartEnsures, EndPass, Settled, serving, outside
<1>2. ApplierInv'
  BY <1>1 DEF RoutesInv, ApplierInv
<1>3. ASSUME NEW k \in Keys PROVE RouteInv(k)'
  <2>1. /\ task[k].pc \in {"idle", "done"} /\ task'[k].pc \in {"idle", "todo"}
        /\ RouteInv(k)
    BY <1>1 DEF RoutesInv
  <2>2. (Unrouted(k)' <=> Unrouted(k)) /\ (Idle(k)' <=> Idle(k))
    BY <1>1 DEF Unrouted, Idle
  <2>3. ShownInv(k)' /\ DebtInv(k)'
    BY <1>1, <2>1, <2>2 DEF RouteInv, ShownInv, DebtInv, Exists
  <2>4. BarrierInv(k)'
    BY <2>1 DEF BarrierInv, At
  <2> QED
    BY <2>3, <2>4 DEF RouteInv
<1> QED
  BY <1>2, <1>3 DEF RoutesInv

\* The process starts with nothing to show and nothing owed.
LEMMA InitRoutes ==
  ASSUME Init
  PROVE  RoutesInv
<1>1. /\ reg.seq = 0 /\ applied = 0 /\ build.phase = "idle"
      /\ \A k \in Keys : /\ reg.entries[k] = Absent(0) /\ task[k].pc = "idle"
                         /\ cause[k] = "none" /\ pool[k] = NoEndpoint
  BY DEF Init, New, NoBuild, NoTask
<1>2. ~Absent(0).serving
  BY DEF Absent, Fresh
<1> QED
  BY <1>1, <1>2 DEF RoutesInv, ApplierInv, RouteInv, ShownInv, BarrierInv, DebtInv, At

\* Each step keeps it, while the counter has room.
LEMMA NextRoutes ==
  ASSUME TasksInv, Roomy, RoutesInv, [Next]_vars
  PROVE  RoutesInv'
<1>1. CASE UNCHANGED vars
  BY <1>1, CalmKeeps DEF vars, control, serving, outside, Idle
<1>2. CASE Halt
  BY <1>2, CalmKeeps DEF Halt, serving, outside, Idle
<1> QED
  BY <1>1, <1>2, EnvironmentKeepsRoutes, CaptureKeepsRoutes, SnapshotKeepsRoutes,
     PublishKeepsRoutes, StartPassKeepsRoutes, JoinKeepsRoutes, WorkKeepsRoutes
     DEF Next, Pass, Apply

-----------------------------------------------------------------------------
(* What follows while the 64-bit notification counter has room. *)

\* The applier's half of the inductive invariant.
THEOREM RoutesAgree == Spec /\ []Roomy => []RoutesInv
<1>1. Init => RoutesInv
  BY InitRoutes
<1>2. TasksInv /\ Roomy /\ RoutesInv /\ [Next]_vars => RoutesInv'
  BY NextRoutes
<1> QED
  BY <1>1, <1>2, TasksAgree, PTL DEF Spec

\* Every notification the pool does not reflect yet has its wake-up (main.go
\* apply, registry.go Changes).
THEOREM WakeupsAreKept == Spec /\ []Roomy => []WakeupNotLost
<1>1. TasksInv /\ RoutesInv => WakeupNotLost
  BY DEF RoutesInv, ApplierInv, WakeupNotLost
<1> QED
  BY <1>1, TasksAgree, RoutesAgree, PTL

\* "applied" never claims more than the pool shows (main.go: the sequence is
\* captured BEFORE the snapshot).
THEOREM AppliedShows == Spec /\ []Roomy => []AppliedIsShown
<1>1. TasksInv /\ RoutesInv => AppliedIsShown
  <2> SUFFICES ASSUME TasksInv, RoutesInv, applied = reg.seq
               PROVE  {k \in Keys : pool[k] # NoEndpoint} = ServingKeys(reg)
    BY DEF AppliedIsShown
  <2>1. \A k \in Keys : pool[k] # NoEndpoint <=> reg.entries[k].serving
    BY DEF RoutesInv, RouteInv, ShownInv
  <2>2. \A k \in Keys : IsReady(reg, k) <=> reg.entries[k].serving
    BY DEF TasksInv, Sound, EntryOK, IsReady, Exists
  <2> QED
    BY <2>1, <2>2 DEF ServingKeys
<1> QED
  BY <1>1, TasksAgree, RoutesAgree, PTL

\* A remote is deleted only when nothing is routed to it and nothing streams
\* from it (reconcile.go runDeletes).
THEOREM DeletesAreQuiet == Spec /\ []Roomy => []DeletesOnQuiet
<1>1. TasksInv /\ RoutesInv => DeletesOnQuiet
  BY DEF RoutesInv, RouteInv, BarrierInv, Unrouted, At, DeletesOnQuiet, Quiet
<1> QED
  BY <1>1, TasksAgree, RoutesAgree, PTL

\* A relay whose admission a rollout took is redeployed only when the pool has
\* let go of it and no request streams from it (reconcile.go rollout).
THEOREM RolloutsAreQuiet == Spec /\ []Roomy => []RolloutDeploysOnQuiet
<1>1. TasksInv /\ RoutesInv => RolloutDeploysOnQuiet
  <2> SUFFICES ASSUME TasksInv, RoutesInv, NEW k \in Keys, At(k, "deploy"),
                      cause[k] = "rollout"
               PROVE  Quiet(k)
    BY DEF RolloutDeploysOnQuiet
  <2>1. ~reg.entries[k].drainPending
    BY DEF TasksInv, KeyInv, LabelInv, At
  <2> QED
    BY <2>1 DEF RoutesInv, RouteInv, DebtInv, Unrouted, At, Quiet
<1> QED
  BY <1>1, TasksAgree, RoutesAgree, PTL

=============================================================================
