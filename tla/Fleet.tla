-------------------------------- MODULE Fleet --------------------------------
(***************************************************************************)
(* The gateway's control loop: the reconciler that turns the desired state *)
(* into verified deployments (src/internal/reconcile/reconcile.go), the    *)
(* applier that turns the registry into the serving pool                   *)
(* (src/cmd/http-relay-gateway/main.go), the requests that keep an old     *)
(* deployment busy (src/internal/gateway/gateway.go), and the platforms.   *)
(*                                                                         *)
(* One worker goroutine runs passes one after the other; inside a pass the *)
(* deletes run first, concurrently, and are joined; then one ensure task   *)
(* per desired relay.  The applier and the requests never stop.  Local     *)
(* code between two points where another goroutine can matter is one step. *)
(*                                                                         *)
(* A request is one of the endpoints it streams from: inflight[k] holds    *)
(* the endpoints with at least one request, which is what the per-identity *)
(* counter behind AwaitIdle tells apart (zero or not).                     *)
(***************************************************************************)
EXTENDS Registry, Contract

CONSTANTS
  Hosts,        \* the URLs a deployment can answer on, per scope
  Provider(_),  \* the platform a relay lives on: deploys are serialised per platform
  Project(_),   \* the relay whose name gave the platform project its name: names
                \* that slug alike share one (deploy.go ProjectName)
  Cfg,          \* the registry settings (all timings one unit)
  AtBoot,       \* what the platforms may hold when the process starts
  Budgets       \* bounds: what the operator may write, and how often each
                \* kind of disturbance may happen

Members == [Keys -> Scopes \cup {Gone}]

\* A deployment is one of the Lives that discovery and verify tell apart; a
\* suspension and a failed round trip are answers any deployment may give.

ASSUME EndpointsArePlaced == Endpoints = Scopes \X Hosts
ASSUME CfgIsSettings == Cfg \in Settings
ASSUME AtBootIsLives == AtBoot \subseteq Lives
ASSUME ProjectsAreNamed == \A k \in Keys : Project(k) \in Keys

\* stops: the stop, and passes that still start after it.
Allowances == [edits: Nat, faults: Nat, drifts: Nat, timeouts: Nat, stops: Nat,
               members: SUBSET Members]

ASSUME BudgetsAreAllowances == Budgets \subseteq Allowances

VARIABLES
  reg,       \* the readiness registry
  desired,   \* desiredStore: the scope each relay is pinned to, or Gone
  reloaded,  \* the reload token of the apply loop
  build,     \* the applier's local variables
  applied,   \* the highest notification the serving pool reflects
  pool,      \* the serving pool: the endpoint of each relay
  inflight,  \* the endpoints each relay identity has requests on
  pass,      \* the worker's phase and the configuration of its pass
  task,      \* the local variables of the pass's tasks
  memo,      \* credentials: the scope last resolved for each identity
  remote,    \* the platforms: what is deployed per project and scope
  budget,    \* disturbances left
  shutting,  \* the process is stopping
  cause      \* history: what took the relay's admission last

control == <<reg, pass, task, memo, cause>>
serving == <<build, applied, pool, reloaded>>
outside == <<desired, inflight, remote, budget, shutting>>
vars == <<control, serving, outside>>

\* What the rollouts rely on of the data plane; module DataPlane implements it.
Plane == INSTANCE Traffic WITH Ids <- Keys, busy <- inflight

Causes == {"none", "rollout", "flip", "removal", "blip"}

(***************************************************************************)
(* pc  idle      no task for this identity                                 *)
(*     todo      its goroutine has not looked at the registry yet          *)
(*     examine   holds the relay; discovery and probe are under way        *)
(*     settle    waits for the pool swap                                   *)
(*     drain     waits for in-flight requests                              *)
(*     lock      waits for its platform's deploy mutex                     *)
(*     deploy    the platform call runs                                    *)
(*     verify    the new worker is being verified                          *)
(*     purge     the platform's delete call runs                           *)
(*     done      released, or never took the hold                          *)
(***************************************************************************)
PCs == {"idle", "todo", "examine", "settle", "drain", "lock", "deploy",
        "verify", "purge", "done"}

Tasks == [pc: PCs, gen: Nat, obj: Nat, target: Nat,
          wasReady: BOOLEAN, owed: BOOLEAN]

NoTask == [pc |-> "idle", gen |-> 0, obj |-> 0, target |-> 0,
           wasReady |-> FALSE, owed |-> FALSE]

NoBuild == [phase |-> "idle", seq |-> 0, snap |-> [k \in Keys |-> NoEndpoint]]

Init ==
  /\ reg = New(Cfg)
  /\ desired = [k \in Keys |-> Gone]
  /\ reloaded = FALSE
  /\ build = NoBuild
  /\ applied = 0
  /\ pool = [k \in Keys |-> NoEndpoint]
  /\ inflight = [k \in Keys |-> {}]
  /\ pass = [phase |-> "idle", cfg |-> [k \in Keys |-> Gone]]
  /\ task = [k \in Keys |-> NoTask]
  /\ memo = [k \in Keys |-> Unknown]
  /\ \E live \in [Keys -> [Scopes -> AtBoot]], h \in Hosts :
       remote = [k \in Keys |-> [s \in Scopes |->
                                   [live |-> live[k][s], host |-> h]]]
  /\ budget \in Budgets
  /\ shutting = FALSE
  /\ cause = [k \in Keys |-> "none"]

-----------------------------------------------------------------------------
(* The environment: the operator, the platforms, the callers. *)

Spend(d) == /\ budget[d] > 0
            /\ budget' = [budget EXCEPT ![d] = @ - 1]

\* A platform or credential call fails.  Once the worker's context is
\* cancelled every call may.
Fault == IF shutting THEN UNCHANGED budget ELSE Spend("faults")

\* The watcher stores a changed configuration and posts the reload token.
\* The wake token it also posts only hastens a pass, and any pass may start
\* when the verify timer says so.
Edit ==
  /\ \E d \in budget.members \ {desired} : desired' = d
  /\ Spend("edits")
  /\ reloaded' = TRUE
  /\ UNCHANGED <<control, build, applied, pool, inflight, remote, shutting>>

\* Someone other than the gateway changes or removes a deployment.
Drift ==
  /\ \E k \in Keys, s \in Scopes, live \in Lives, h \in Hosts :
       /\ remote[k][s].live = "current"
       /\ remote' = [remote EXCEPT ![k][s] = [live |-> live, host |-> h]]
       /\ remote' # remote
  /\ Spend("drifts")
  /\ UNCHANGED <<control, serving, desired, inflight, shutting>>

\* The requests do what module Traffic allows, and all of it: Pick and
\* inflight.begin under the mutex that serialises them with Swap,
StartRequest(k) ==
  /\ Plane!Start(k)
  /\ UNCHANGED <<control, build, applied, reloaded, desired, remote, budget, shutting>>

\* and the last request on an endpoint ends.
EndRequest(k, ep) ==
  /\ Plane!End(k, ep)
  /\ UNCHANGED <<control, build, applied, reloaded, desired, remote, budget, shutting>>

Elapse ==
  /\ reg' = Tick(reg)
  /\ UNCHANGED <<pass, task, memo, cause, serving, outside>>

\* A signal is taken by the apply loop's own select, between two applies.
Shutdown ==
  /\ build.phase = "idle" /\ ~shutting
  /\ Spend("stops")
  /\ shutting' = TRUE
  /\ UNCHANGED <<control, serving, desired, inflight, remote>>

-----------------------------------------------------------------------------
(* The applier: apply() of the select loop. *)

\* NotifySeq is captured before the snapshot; a reload also re-arms gates.
Capture ==
  /\ build.phase = "idle" /\ ~shutting
  /\ \/ /\ reg.changes
        /\ reg' = Received(reg)
        /\ UNCHANGED reloaded
     \/ /\ reloaded
        /\ reloaded' = FALSE
        /\ reg' = UpdateSettings(reg, Cfg)
  /\ build' = [NoBuild EXCEPT !.phase = "captured", !.seq = reg.seq]
  /\ UNCHANGED <<pass, task, memo, cause, applied, pool, outside>>

Snapshot ==
  /\ build.phase = "captured"
  /\ build' = [build EXCEPT !.phase = "built", !.snap = Serving(reg)]
  /\ UNCHANGED <<control, applied, pool, reloaded, outside>>

\* Mutants: one less than captured is recorded; the sequence of the moment is;
\* notifications that came during the build are taken as shown.
Publish_OffByOne ==
  /\ build.phase = "built"
  /\ pool' = build.snap
  /\ applied' = build.seq - 1
  /\ build' = NoBuild
  /\ UNCHANGED <<control, reloaded, outside>>

Publish_RecordsLatest ==
  /\ build.phase = "built"
  /\ pool' = build.snap
  /\ applied' = reg.seq
  /\ build' = NoBuild
  /\ UNCHANGED <<control, reloaded, outside>>

Publish_SwallowsToken ==
  /\ build.phase = "built"
  /\ pool' = build.snap
  /\ applied' = build.seq
  /\ build' = NoBuild
  /\ reg' = Received(reg)
  /\ UNCHANGED <<pass, task, memo, cause, reloaded, outside>>

\* Swap, then record the sequence and broadcast.
Publish ==
  /\ build.phase = "built"
  /\ pool' = build.snap
  /\ applied' = IF build.seq > applied THEN build.seq ELSE applied
  /\ build' = NoBuild
  /\ UNCHANGED <<control, reloaded, outside>>

-----------------------------------------------------------------------------
(* The worker's passes. *)

Claims(w, hiccup) == [k \in Keys |-> IF w[k] # Gone /\ k \in hiccup
                                     THEN Unknown ELSE w[k]]

Swept(m) ==
  [k \in Keys |->
     CASE Leaves(reg.entries[k], m[k])                        -> "removal"
       [] Flips(reg.entries[k], m[k]) /\ reg.entries[k].serving -> "flip"
       [] OTHER                                               -> cause[k]]

Todo(K) == [k \in Keys |-> IF k \in K THEN [NoTask EXCEPT !.pc = "todo"]
                           ELSE NoTask]

Settled(K) == \A k \in K : task[k].pc \in {"idle", "done"}

\* What a pass that starts now costs: a credential that does not resolve is a
\* fault; a pass that the loop's select still starts once the process is
\* stopping counts as a stop.
Started(hiccup) ==
  /\ hiccup # {} => budget.faults > 0
  /\ shutting => budget.stops > 0
  /\ budget' = [budget EXCEPT !.faults = IF hiccup = {} THEN @ ELSE @ - 1,
                              !.stops = IF shutting THEN @ - 1 ELSE @]

\* memoCredentials, Sync, and the list of removals runDeletes works on.
StartPass ==
  /\ pass.phase = "idle"
  /\ \E hiccup \in SUBSET {k \in Keys : desired[k] # Gone} :
       /\ Started(hiccup)
       /\ LET m == Claims(desired, hiccup) IN
            /\ reg' = Sync(reg, m)
            /\ memo' = [k \in Keys |-> IF m[k] \in Scopes THEN m[k] ELSE memo[k]]
            /\ cause' = Swept(m)
  /\ pass' = [phase |-> "deletes", cfg |-> desired]
  /\ task' = Todo(Removing(reg'))
  /\ UNCHANGED <<serving, desired, inflight, remote, shutting>>

\* The deletes are joined; the ensure tasks of the pass's relays start.
StartEnsures ==
  /\ pass.phase = "deletes" /\ Settled(Keys)
  /\ pass' = [pass EXCEPT !.phase = "ensures"]
  /\ task' = Todo({k \in Keys : pass.cfg[k] # Gone})
  /\ UNCHANGED <<reg, memo, cause, serving, outside>>

EndPass ==
  /\ pass.phase = "ensures" /\ Settled(Keys)
  /\ pass' = [phase |-> "idle", cfg |-> [k \in Keys |-> Gone]]
  /\ task' = Todo({})
  /\ UNCHANGED <<reg, memo, cause, serving, outside>>

\* Between two passes the loop finds its context cancelled and returns.
Halt ==
  /\ pass.phase = "idle" /\ shutting
  /\ pass' = [pass EXCEPT !.phase = "stopped"]
  /\ UNCHANGED <<reg, task, memo, cause, serving, outside>>

-----------------------------------------------------------------------------
(* Steps of one task. *)

\* What has k's admission been taken by, once the registry is R?
Blame(R, k, who) ==
  [cause EXCEPT ![k] = CASE IsReady(R, k) -> "none"
                         [] IsReady(reg, k) /\ ~IsReady(R, k) -> who
                         [] OTHER -> @]

At(k, pc) == task[k].pc = pc

Goto(k, pc) == task' = [task EXCEPT ![k].pc = pc]

\* The task's last completion left R; its deferred release runs.
Return(k, R) ==
  /\ reg' = Release(R, k, task[k].obj)
  /\ cause' = Blame(R, k, "blip")
  /\ task' = [task EXCEPT ![k] = [NoTask EXCEPT !.pc = "done"]]
  /\ UNCHANGED <<pass, memo>>

Quietly == UNCHANGED <<pass, memo, cause>>

\* ensureRelay and the delete closure return before they take the hold.
Skip(k) ==
  /\ At(k, "todo")
  /\ \/ ~Allow(reg, k)
     \/ pass.phase = "deletes" /\ ~CanBeginDelete(reg, k)
     \/ pass.phase = "ensures" /\ (~Exists(reg, k) \/ k \in Removing(reg)
                                     \/ ~CanBegin(reg, k))
  /\ task' = [task EXCEPT ![k] = [NoTask EXCEPT !.pc = "done"]]
  /\ Quietly /\ UNCHANGED <<reg, serving, outside>>

Held(k, pc, R) ==
  [pc |-> pc, gen |-> R.entries[k].gen, obj |-> R.entries[k].obj,
   target |-> R.seq, wasReady |-> IsReady(R, k),
   owed |-> R.entries[k].drainPending]

\* Begin, the credential, the two reads, and Enter(discovering).
BeginEnsure(k) ==
  /\ At(k, "todo") /\ pass.phase = "ensures"
  /\ Allow(reg, k) /\ Exists(reg, k) /\ k \notin Removing(reg)
  /\ CanBegin(reg, k)
  /\ LET R == Begin(reg, k)
         g == R.entries[k].gen
         o == R.entries[k].obj
         failed == Failing(R, k, g, "credential_failed")
     IN  \/ /\ Fault
            /\ reg' = Release(failed, k, o)
            /\ cause' = Blame(failed, k, "blip")
            /\ task' = [task EXCEPT ![k] = [NoTask EXCEPT !.pc = "done"]]
            /\ UNCHANGED <<pass, memo>>
         \/ /\ reg' = Enter(R, k, g, "discovering", "")
            /\ task' = [task EXCEPT ![k] = Held(k, "examine", R)]
            /\ Quietly /\ UNCHANGED budget
  /\ UNCHANGED <<serving, desired, inflight, remote, shutting>>

\* Mutants: the barrier is gated on wasReady alone; the next swap, whoever
\* asked for it, is taken for the one that revokes this relay.
Rollout_ForgetsDebt(k, R) ==
  LET g   == task[k].gen
      out == IF task[k].wasReady
             THEN Demote(ScopeMarkTaken(R, k, g), k, g, "replacing")
             ELSE ScopeMarkTaken(R, k, g)
  IN  /\ reg' = IF task[k].wasReady THEN out ELSE Enter(out, k, g, "deploying", "")
      /\ task' = [task EXCEPT ![k].pc = IF task[k].wasReady THEN "settle" ELSE "lock",
                              ![k].target = out.seq]
      /\ cause' = Blame(out, k, "rollout")
      /\ UNCHANGED <<pass, memo, budget>>

Rollout_NextSwap(k, R) ==
  LET g       == task[k].gen
      out     == IF task[k].wasReady
                 THEN Demote(ScopeMarkTaken(R, k, g), k, g, "replacing")
                 ELSE ScopeMarkTaken(R, k, g)
      barrier == task[k].wasReady \/ task[k].owed \/ ScopeMarked(R, k, g)
  IN  /\ reg' = IF barrier THEN out ELSE Enter(out, k, g, "deploying", "")
      /\ task' = [task EXCEPT ![k].pc = IF barrier THEN "settle" ELSE "lock",
                              ![k].target = applied + 1]
      /\ cause' = Blame(out, k, "rollout")
      /\ UNCHANGED <<pass, memo, budget>>

\* The head of rollout: the scope-flip marker is consumed, a serving relay is
\* demoted, and settle captures its target; without a debt it deploys at once.
Rollout(k, R) ==
  LET g       == task[k].gen
      spent   == ScopeMarkTaken(R, k, g)
      out     == IF task[k].wasReady THEN Demote(spent, k, g, "replacing")
                 ELSE spent
      barrier == task[k].wasReady \/ task[k].owed \/ ScopeMarked(R, k, g)
  IN  /\ reg' = IF barrier THEN out ELSE Enter(out, k, g, "deploying", "")
      /\ task' = [task EXCEPT ![k].pc = IF barrier THEN "settle" ELSE "lock",
                              ![k].target = out.seq]
      /\ cause' = Blame(out, k, "rollout")
      /\ UNCHANGED <<pass, memo, budget>>

\* Discovery and the probe of what it found, up to the verdict's consequence.
Examine(k) ==
  LET g    == task[k].gen
      s    == pass.cfg[k]
      here == remote[Project(k)][s]
      found == IF here.live = "none"
               THEN Enter(reg, k, g, "discovered", "missing") ELSE reg
  IN  /\ At(k, "examine")
      /\ \/ Fault /\ Return(k, Failing(reg, k, g, "unreachable"))
         \/ Fault /\ here.live # "none" /\ Return(k, Pause(reg, k, g, "paused"))
         \/ /\ here.live = "current"
            /\ Return(k, Ready(reg, k, g, <<s, here.host>>))
            /\ UNCHANGED budget
         \/ here.live # "current" /\ Rollout(k, found)
      /\ UNCHANGED <<serving, desired, inflight, remote, shutting>>

\* Mutants: one notification too many is awaited; shutdown does not end the
\* wait; shutdown counts as settled.
Settle_OneMore(k) ==
  /\ At(k, "settle") /\ applied > task[k].target
  /\ Goto(k, "drain")
  /\ Quietly /\ UNCHANGED <<reg, serving, outside>>

Settle_IgnoresShutdown(k) ==
  /\ At(k, "settle") /\ applied >= task[k].target
  /\ Goto(k, "drain")
  /\ Quietly /\ UNCHANGED <<reg, serving, outside>>

Settle_ShutdownIsSettled(k) ==
  /\ At(k, "settle") /\ (applied >= task[k].target \/ shutting)
  /\ Goto(k, "drain")
  /\ Quietly /\ UNCHANGED <<reg, serving, outside>>

\* settle: the wait ends when the pool reflects the target, or at shutdown.
Settle(k) ==
  /\ At(k, "settle")
  /\ \/ /\ applied >= task[k].target
        /\ Goto(k, "drain")
        /\ Quietly /\ UNCHANGED reg
     \/ /\ shutting /\ applied < task[k].target
        /\ Return(k, IF pass.phase = "ensures"
                     THEN DeferDrain(reg, k, task[k].gen) ELSE reg)
  /\ UNCHANGED <<serving, outside>>

\* AwaitIdle: no request of the identity is in flight, on whatever endpoint.
Idle(k) == inflight[k] = {}

\* AwaitIdle answers true.  An ensure goes on to deploy, a delete to the
\* platform, unless no credential was ever resolved.
Drained(k) ==
  LET g == task[k].gen IN
  /\ At(k, "drain") /\ Idle(k)
  /\ \/ /\ pass.phase = "ensures"
        /\ reg' = Enter(DrainCompleted(reg, k, g), k, g, "deploying", "")
        /\ Goto(k, "lock") /\ Quietly
     \/ /\ pass.phase = "deletes" /\ memo[k] # Unknown
        /\ Goto(k, "purge") /\ Quietly /\ UNCHANGED reg
     \/ /\ pass.phase = "deletes" /\ memo[k] = Unknown
        /\ Return(k, DeleteDone(reg, k, g))
  /\ UNCHANGED <<serving, outside>>

\* Mutant: the deferred rollout returns with its hold.
DrainTimeout_KeepsHold(k) ==
  LET g == task[k].gen IN
  /\ At(k, "drain") /\ ~Idle(k)
  /\ Spend("timeouts")
  /\ reg' = DeferDrain(Enter(reg, k, g, "unready", "replacing"), k, g)
  /\ Goto(k, "done") /\ Quietly
  /\ UNCHANGED <<serving, desired, inflight, remote, shutting>>

\* AwaitIdle answers false: a straggler outlives the quiesce window.
DrainTimeout(k) ==
  LET g == task[k].gen IN
  /\ At(k, "drain") /\ ~Idle(k)
  /\ IF shutting THEN UNCHANGED budget ELSE Spend("timeouts")
  /\ IF pass.phase = "ensures"
     THEN Return(k, DeferDrain(Enter(reg, k, g, "unready", "replacing"), k, g))
     ELSE Return(k, DeleteFailed(reg, k, g, "delete_failed"))
  /\ UNCHANGED <<serving, desired, inflight, remote, shutting>>

\* The platform's deploy mutex.
StartDeploy(k) ==
  /\ At(k, "lock")
  /\ \A j \in Keys : Provider(j) = Provider(k) => ~At(j, "deploy")
  /\ Goto(k, "deploy")
  /\ Quietly /\ UNCHANGED <<reg, serving, outside>>

\* Client.Deploy, as module Contract has it: it went through and the new
\* worker answers, or still the old one; or it failed, wherever it got to.
FinishDeploy(k) ==
  LET s         == pass.cfg[k]
      before    == remote[Project(k)][s].live
      now(life) == [remote EXCEPT ![Project(k)][s].live = life]
  IN  /\ At(k, "deploy")
      /\ \/ /\ remote' = now("current")
            /\ Goto(k, "verify")
            /\ Quietly /\ UNCHANGED <<reg, budget>>
         \/ /\ Fault
            /\ \E life \in AfterDeploy(before) \ {"current"} : remote' = now(life)
            /\ Goto(k, "verify")
            /\ Quietly /\ UNCHANGED reg
         \/ /\ Fault
            /\ \E life \in FailedDeploy(before) : remote' = now(life)
            /\ Return(k, Failing(reg, k, task[k].gen, "deploy_failed"))
      /\ UNCHANGED <<serving, desired, inflight, shutting>>

VerifyDeployed(k) ==
  LET g    == task[k].gen
      s    == pass.cfg[k]
      here == remote[Project(k)][s]
  IN  /\ At(k, "verify")
      /\ \/ /\ here.live = "current"
            /\ Return(k, Ready(reg, k, g, <<s, here.host>>))
            /\ UNCHANGED budget
         \/ /\ here.live # "current"
            /\ Return(k, Demote(reg, k, g, "version_failed"))
            /\ UNCHANGED budget
         \/ Fault /\ Return(k, Demote(reg, k, g, "probe_failed"))
         \/ Fault /\ Return(k, Pause(reg, k, g, "paused"))
      /\ UNCHANGED <<serving, desired, inflight, remote, shutting>>

\* Mutant: the removal revoked admission already, so the swap is not awaited.
BeginRemoteDelete_NoSettle(k) ==
  /\ At(k, "todo") /\ pass.phase = "deletes"
  /\ Allow(reg, k) /\ CanBeginDelete(reg, k)
  /\ reg' = Begin(reg, k)
  /\ task' = [task EXCEPT ![k] = Held(k, "drain", reg')]
  /\ Quietly /\ UNCHANGED <<serving, outside>>

BeginRemoteDelete(k) ==
  /\ At(k, "todo") /\ pass.phase = "deletes"
  /\ Allow(reg, k) /\ CanBeginDelete(reg, k)
  /\ reg' = Begin(reg, k)
  /\ task' = [task EXCEPT ![k] = Held(k, "settle", reg')]
  /\ Quietly /\ UNCHANGED <<serving, outside>>

\* Client.Delete: gone, a scope the credential cannot address (the remote is
\* left behind), or an error after which the remote may be gone or not.
FinishDelete(k) ==
  LET before    == remote[Project(k)][memo[k]].live
      now(life) == [remote EXCEPT ![Project(k)][memo[k]].live = life]
      g         == task[k].gen
  IN  /\ At(k, "purge")
      /\ \/ /\ \E life \in AfterDelete : remote' = now(life)
            /\ Return(k, DeleteDone(reg, k, g))
            /\ UNCHANGED budget
         \/ /\ Fault /\ UNCHANGED remote
            /\ Return(k, DeleteDone(reg, k, g))
         \/ /\ Fault
            /\ \E life \in FailedDelete(before) : remote' = now(life)
            /\ Return(k, DeleteFailed(reg, k, g, "delete_failed"))
      /\ UNCHANGED <<serving, desired, inflight, shutting>>

-----------------------------------------------------------------------------
Apply == Capture \/ Snapshot \/ Publish

Pass == StartPass \/ StartEnsures \/ EndPass \/ Halt

Work(k) == \/ Skip(k) \/ BeginEnsure(k) \/ Examine(k) \/ Settle(k)
           \/ Drained(k) \/ DrainTimeout(k) \/ StartDeploy(k)
           \/ FinishDeploy(k) \/ VerifyDeployed(k)
           \/ BeginRemoteDelete(k) \/ FinishDelete(k)

Next == \/ Edit \/ Drift \/ Elapse \/ Shutdown
        \/ \E k \in Keys : StartRequest(k)
        \/ \E k \in Keys, ep \in Endpoints : EndRequest(k, ep)
        \/ Apply
        \/ Pass
        \/ \E k \in Keys : Work(k)

(***************************************************************************)
(* Fairness: goroutines that can run are scheduled, the clock advances,    *)
(* and a request that has started ends (its client or its upstream does).  *)
(***************************************************************************)
Fairness ==
  /\ WF_vars(Apply) /\ WF_vars(Pass) /\ WF_vars(Elapse)
  /\ \A k \in Keys : WF_vars(Work(k))
  /\ \A k \in Keys, ep \in Endpoints : WF_vars(EndRequest(k, ep))

Spec == Init /\ [][Next]_vars /\ Fairness

-----------------------------------------------------------------------------
(* Properties. *)

\* Every variable stays in its declared range.
TypeOK ==
  /\ reg \in Registries
  /\ desired \in Members
  /\ reloaded \in BOOLEAN /\ shutting \in BOOLEAN
  /\ build \in [phase: {"idle", "captured", "built"}, seq: Nat,
                snap: [Keys -> Endpoints \cup {NoEndpoint}]]
  /\ applied \in Nat
  /\ pool \in [Keys -> Endpoints \cup {NoEndpoint}]
  /\ inflight \in [Keys -> SUBSET Endpoints]
  /\ pass \in [phase: {"idle", "deletes", "ensures", "stopped"}, cfg: Members]
  /\ task \in [Keys -> Tasks]
  /\ memo \in [Keys -> Scopes \cup {Unknown}]
  /\ remote \in [Keys -> [Scopes -> [live: Lives, host: Hosts]]]
  /\ budget \in Allowances
  /\ cause \in [Keys -> Causes]

Quiet(k) == Idle(k) /\ pool[k] = NoEndpoint

\* A relay whose admission a rollout took is redeployed only when the pool
\* has let go of it and no request streams from it, however many passes,
\* failures, pauses and scope moves lie between the demotion and the deploy
\* (reconcile.go rollout: settle, drain, and only then deploy).
RolloutDeploysOnQuiet ==
  \A k \in Keys : At(k, "deploy") /\ cause[k] = "rollout" => Quiet(k)

\* A remote is deleted only when nothing is routed to it and nothing streams
\* from it (reconcile.go runDeletes: "no in-flight request is cut").
DeletesOnQuiet == \A k \in Keys : At(k, "purge") => Quiet(k)

\* Every notification the pool does not reflect yet still has its wake-up:
\* either the applier is at work, or a token waits for it (main.go apply,
\* registry.go Changes: one slot, posts coalesce).
WakeupNotLost ==
  /\ applied <= reg.seq
  /\ ~reg.changes /\ build.phase = "idle" => applied = reg.seq

\* "applied" never claims more than the pool shows: once it has caught up
\* with the registry and nothing is being built, exactly the admitted relays
\* are in the pool (main.go: the sequence is captured BEFORE the snapshot).
AppliedIsShown ==
  build.phase = "idle" /\ applied = reg.seq
    => {k \in Keys : pool[k] # NoEndpoint} = ServingKeys(reg)

\* The single-flight hold is taken exactly as long as a task works on the
\* relay: no early return, timeout, failure or purge leaks it
\* (reconcile.go ensureRelay, rollout, runDeletes: defer release()).
HoldsAreReturned ==
  \A k \in Keys : Exists(reg, k) /\ reg.entries[k].busy
                    <=> task[k].pc \notin {"idle", "todo", "done"}

\* A deploy is under way only for a relay that is labelled so and not
\* admitted, and, when its pass resolved the credential before Sync, into the
\* scope the registry's incarnation stands for (reconcile.go rollout, pass).
DeploysTheIncarnation ==
  \A k \in Keys : At(k, "deploy") =>
    /\ k \notin ServingKeys(reg)
    /\ reg.entries[k].state = "deploying"
    /\ memo[k] = pass.cfg[k]
         => reg.entries[k].scope \in {pass.cfg[k], Unknown}

\* Once the disturbances end, and unless the process is stopped, the fleet
\* converges: what is desired is deployed and served in its scope, what is not
\* is forgotten and out of the pool (reconcile.go pass; README.md: "the fleet
\* follows").
Settles(k) ==
  IF desired[k] = Gone
  THEN ~Exists(reg, k) /\ pool[k] = NoEndpoint
  ELSE LET here == remote[Project(k)][desired[k]]
       IN  here.live = "current" /\ pool[k] = <<desired[k], here.host>>

Converges == []~shutting => <>[](\A k \in Keys : Settles(k))

\* The settle barrier is always left: by the swap, or by the shutdown that
\* stops the applier (main.go settle, shutdown).
BarrierIsLeft == \A k \in Keys : At(k, "settle") ~> ~At(k, "settle")

\* A pass in flight when the process is told to stop unwinds, and so does one
\* that still starts before the worker sees it; then the worker is done
\* (reconcile.go loop, Stop: it waits for w.done).
StopUnwinds == shutting ~> pass.phase = "stopped"

-----------------------------------------------------------------------------
(* Statements of the documentation the code does not keep. *)

\* "A rollout or delete must wait for an old incarnation's requests before
\* touching its remote" (reconcile.go, Drainer), after a verification that
\* failed or paused the relay between its last pick and the rollout.
BlippedDeploysOnQuiet ==
  \A k \in Keys : At(k, "deploy") /\ cause[k] = "blip" => Idle(k)

\* "nothing deploys into the new scope while the old scope's worker still
\* carries a request" (README.md, Desired state).
FlippedDeploysOnQuiet ==
  \A k \in Keys : At(k, "deploy") /\ cause[k] = "flip"
    => \A ep \in inflight[k] : ep[1] = pass.cfg[k]

\* The pool routes to "the exact pair the verification passed for"
\* (registry.go, Serving): with no apply pending it is the registry's pair.
PoolShowsVerifiedPair ==
  build.phase = "idle" /\ applied = reg.seq => pool = Serving(reg)

\* "no in-flight request is cut when the remote disappears" (reconcile.go,
\* runDeletes), where a relay is removed and another one, of a name that slugs
\* to the same project, is configured in its place.
PurgesCutNobody ==
  \A k, j \in Keys : At(k, "purge") /\ Project(j) = Project(k)
    => \A ep \in inflight[j] : ep[1] # memo[k]
=============================================================================
