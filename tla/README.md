# Verification of http-relay-gateway

TLA+ models of the gateway's control loop, configuration path, platform clients and data plane,
model-checked with TLC, and theorems about them checked with TLAPS. Paths below are relative to the
repository's source, `src/`; `registry.go` is `internal/readiness/registry.go`, `reconcile.go` is
`internal/reconcile/reconcile.go`, `main.go` is `cmd/http-relay-gateway/main.go`, `gateway.go`,
`pool.go` and `runtime.go` are in `internal/gateway` and `internal/pool`, `vercel.go`,
`cloudflare.go`, `deno.go`, `deploy.go` and `platform.go` in `internal/deploy`.

## 1. The system

| Component | State it keeps | Operations | Talks to |
| --- | --- | --- | --- |
| Desired store, watcher (`main.go`) | last accepted configuration, its hash | `poll` every second, two reads of the file; `get` | posts a reload token to the apply loop, wakes the worker |
| Readiness registry (`registry.go`) | one entry per relay: lifecycle label, generation, admission, gate, drain and scope-flip markers, single-flight hold; the serving count; a notification counter and a one-slot channel | `Sync`, `Begin`/`BeginDelete`/release, the completions (`Enter`, `Ready`, `Failing`, `Demote`, `Pause`, `DeferDrain`, `DrainCompleted`, `TakeScopeChanged`, `DeleteDone`, `DeleteFailed`), `UpdateSettings`, the snapshots | called by the worker and the applier, all under one mutex |
| Reconciliation worker (`reconcile.go`) | credentials last resolved; per-task locals | one pass after another: memo credentials, `Sync`, deletes, then one ensure task per relay: discover, probe, roll out | the registry, the platforms, `settle` (the applier), `AwaitIdle` (the gateway) |
| Applier and lifecycle (`main.go`) | the highest notification the pool reflects; the shutdown flag | rebuild the serving state and swap it in; release barriers; stop | registry, runtime health, gateway |
| Gateway data plane (`gateway.go`) | the serving `State`; requests in flight per identity | route, admit the body, attempt loop, `Swap`, `AwaitIdle`, `BeginDrain` | pool, runtime health |
| Relay pool (`pool.go`) | immutable membership of one generation | `Pick`, `HasProvider`, `RecordSuccess/Failure` | runtime health |
| Runtime health (`runtime.go`) | a `RelayState` per identity and endpoint, owners, round-robin cursors | `Attach`, `Prune`, `CursorFor`, record | outlives generations |
| Client cache (`clientcache.go`) | one outbound client | replaced when the timeouts change | applier |
| Configuration loader (`internal/config`) | none | parse, validate, resolve credentials | desired store, worker |
| Platform clients (`internal/deploy`) | none of their own; the worker holds a lock per platform | discover, deploy (create project, environment, script, deployment, route, await), probe, delete: each a sequence of HTTP calls | platforms |
| Relay workers (`internal/deploy/workers`) | none | forward one request | run on the platforms |
| Sanitizing, logging, relay version | none | string functions | everywhere |

What makes it hard. The registry is called concurrently, holds outlive the entries they were taken
on (a purge followed by a re-add makes another entry under the same key), and completions arrive
after the incarnation they belong to is gone. A rollout must wait for a pool swap that another
goroutine makes, counted by a notification number, and then for requests that neither of them
controls; it may be interrupted at each point by a failure, a pause, a scope move, a removal or a
shutdown, and must remember across passes what it still owes. A request picks, fails over and
records into shared health while generations are replaced under it. A deployment is four to eight
HTTP calls, each of which can fail before or after the platform carried it out, against state that
survives the process. A change of the file reaches three readers through two one-slot channels.

Correctness, per component. Registry: holds are exclusive and returned, stale completions change
nothing, admission ends with the incarnation, the count is exact, gates follow the documented
cadence. Worker and applier: no deploy or delete under traffic, no lost wake-up, "applied" never
claims what the pool does not show, the fleet converges, the stop unwinds. Data plane: in-flight
counts exact, an idle relay out of the pool stays idle, every request answered within its budget.
Runtime: health follows the endpoint and counts for no other. Desired store: what is announced is a
change, no change is slept on, the last valid file is followed. Platform clients: success leaves
the shipped worker or nothing, failure leaves what a later pass can repair.

## 2. Modules

| Module | What it models |
| --- | --- |
| `Registry` | Every method of the registry that changes state, as an operator from the registry to the registry it leaves behind. No variables: the mutex makes a method one function. |
| `RegistryClients` | The registry under concurrent callers that keep the package's contract, a `Sync` with any members at any time, reloads, the applier's receive and the clock. |
| `RegistryLemmas`, `RegistryProofs` | What each method preserves, and what the applier, a rollout and the gates see of it; the inductive invariant and the theorems. |
| `Contract` | What a client's `Deploy` and `Delete` may leave on the platform, when they succeed and when they fail. |
| `Platforms` | The call sequences of the three clients, driven by the reconciler's operations on one relay, against a platform with late calls, slow deployments, drift, crashes and key rotation. Shown to keep `Contract`. |
| `Traffic` | Abstract data plane: a pool that is swapped, attempts that start on what it holds and end. |
| `Fleet` | The worker's passes and tasks, the applier, the remotes and the requests, around the same `Registry` operators. Its remotes are built from `Contract`; its requests are those of `Traffic`. |
| `DataPlane` | The attempt loop of each request, the pool, the runtime health and the applier's rebuilds, with arbitrary admissions. Implements `Traffic`. |
| `DesiredState` | The file, the poll's two reads, the store, both channels, the worker's loop and the apply loop as readers of it. |
| `TrafficProofs`, `DataPlaneProofs`, `DesiredStateProofs`, `PlatformsProofs` | The theorems about these. |
| `FleetTasks`, `FleetProofs` | The theorems about `Fleet`: tasks and registry; pool, barrier and drain. |
| `MCRegistryClients`, `MCFleet`, `MCDataPlane` | Instances for TLC (`DesiredState` and `Platforms` need none). |

How state and actions correspond to the code.

- *Registry.* An entry record has the fields of `entry` and `Record` that some decision reads.
  Entry objects are numbered (`obj`), because release closures hold the pointer. The gate
  `nextTry` is the time left until it opens (`wait`), `LastAttempt` the time elapsed since
  (`age`), both moved by `Tick`. `scopeKnown` is `scope # Unknown`; `scopeFP` is a function of
  the scope. Doubling of the backoff is a constant function with the doubling law as its
  assumption; durations are `DurationMod` wide, so that a product may wrap, and `StreakCap` is
  where the shift is clamped (31 in the code). The one-slot channel is `changes`, the counter `seq` wraps at `SeqMod`.
  Operators named `X_Something` after `X` are deliberately wrong variants of `X`, used only to
  show that a property can fail.
- *RegistryClients.* `SyncMembers` is a pass handing any members to `Sync`, with credential
  hiccups that leave a member's scope unresolved. A client takes a hold, looks once
  (`LookAndResolve`: the second `StateOf` of `ensureRelay` and its own credential resolution),
  delivers completions in any order, and releases. This is more concurrency than the worker has.
- *Fleet.* `task[k].pc` is where the task of relay `k` waits: examine, settle, drain, platform
  lock, deploy, verify, purge. Code between two such points is one step. `Capture`, `Snapshot`
  and `Publish` are the three instants of `apply` that another goroutine can fall between.
  `inflight[k]` is the set of endpoints with at least one request, which is what `AwaitIdle`
  tells apart. Discovery and the probe of what it found are one step (`Examine`). The wake token
  of the worker is not a variable, since the verify timer may start a pass at any time. No
  configuration is a configuration that desires nothing. A pass that cannot read the relay key
  returns at once and is a stutter. The `run` worker widths are not modelled: all tasks of a
  phase may run at once, a superset. When a drain times out in the instant the last request
  ends, timing out first is one of the orders. Between two passes the loop's `select` may start
  another one although the process is stopping (`StartPass`), or find its context cancelled and
  return (`Halt`). `cause` is a history variable.
- *DataPlane.* One action per step of the loop another goroutine can fall between: entry, pick,
  size skip, round trip, copy. Load, pick and `begin` are one step, as they are one critical section
  (`Pick`); the size check comes after the mutex is released, so a relay too small is counted in
  flight until the skip ends it (`Skip`), and a drain sees it. `RelayState` objects are numbered per
  identity, because a request keeps the pointer it picked with. Upstream outcomes are success,
  transport failure and a client that went away. A cooldown is a deadline in the code; here it is
  the time left until then (`down`), which `Elapse` lets run out.

- *DesiredState.* A content of the file stands for its hash and for its parse. `Hash` is the read
  that `poll` hashes, `LoadFile` the one `config.Load` makes; `Write` may come between them. The
  boot poll runs before the goroutines exist. `worker` and `apply` keep where each loop is and the
  configuration it read; a pass that cannot resolve the relay key ends before `Sync`. The
  registry's notification token is set at any step that may change an admission. `lastKey` decides
  only what is logged and is left out.
- *Platforms.* One step per HTTP call and its answer. `cloud` is what the platform holds:
  the project, vercel's environment, the deployment that was accepted, the one that answers, the
  workers.dev route, and how many projects deno's list shows before it (all that a walk for one
  name can tell). A write that fails leaves a call in `late` that lands
  or is lost at any later time, also after a crash. `op` is the client operation with its local
  variables; `op.was` and `op.clean` are history and only read by properties. The three kinds
  share one module because the reconciler treats them as one; `FirstCall` and the guards say
  which client makes which call. Abstractions: deno's calls go by project id in the code and by
  name here, so that a late one may also hit a project that was created again (more behaviours);
  every read that fails does so as `CallFails`, including the page bound of 100; cloudflare's
  account and subdomain reads are part of `Look` and `EnableRoute`; a new deno project is listed
  last; whether a failed check demotes is left open (module `Registry` counts the streak).

Composition. `Registry` is shared by `RegistryClients` (any callers) and `Fleet` (the real caller).
`Fleet` needs the data plane only as `Traffic`: the steps of its requests *are* `Traffic`'s, by
INSTANCE, so its rollouts run against everything `Traffic` allows, and `DataPlane` shows that the
attempt loop does nothing else (`ImplementsTraffic`). `Fleet` takes each client operation as one step that leaves what `Contract`
allows; `Platforms` shows that the sequences of calls leave nothing else (`DeployKeepsContract`,
`DeleteKeepsContract`) when nobody else touches the project meanwhile. `Fleet`'s `Edit` changes
the store at any time, of which `DesiredState` is the detail.

## 3. Runs

| Run | Module, config | Checks | States |
| --- | --- | --- | --- |
| `registry_races` | `RegistryClients_races.cfg` | typing, exact count, exclusive and owned holds, no stale completion, no resurrection, admission ends with the incarnation, every membership change notified, outage ceiling, pause cadence, gates across reloads | 992 k |
| `fleet_safety` | `Fleet_safety.cfg` | typing, quiet deploys and deletes, applied implies shown, no lost wake-up, holds returned, deploys of the right incarnation | 1.85 M |
| `fleet_progress` | `Fleet_progress.cfg` | convergence, also after a drain that timed out; the barrier is left; the stop unwinds | 86 k |
| `plane_attempts` | `DataPlane_attempts.cfg` | typing, exact in-flight counts, cooled relays last, implements `Traffic` (refinement) | 1.07 M |
| `plane_answers` | `DataPlane_answers.cfg` | bounded attempts, every request answered, one live health object, health follows the endpoint and counts for no other | 498 k |
| `desired_follow` | `DesiredState_follow.cfg` | typing, no change slept on, what is announced is a change, the file is followed | 678 k |
| `platform_calls` | `Platforms_calls.cfg` | typing, the three clients keep `Contract`, convergence after any failures, late calls and crashes | 541 k |

Five more runs end in a counterexample; each contradicts a sentence of the repository.

- `fleet_blip`: `reconcile.go:69` says a rollout "must wait for an old incarnation's requests
  before touching its remote". `rollout` gates settle and drain on `wasReady`, `drainPending` or
  `scopeChanged`. A relay that `Failing` or `Pause` demoted has none of the three, so the pass
  that later finds it outdated deploys while a request picked before the demotion still streams.
- `fleet_two_flips`: README.md:430 promises that after a scope change "nothing deploys into the
  new scope while the old scope's worker still carries a request". `Sync` sets `scopeChanged` to
  the admission of the incarnation it replaces (`registry.go:398`): a second flip before any
  rollout finds no admission and overwrites the marker that the first one left.
- `fleet_moved_url`: `main.go:386` and `registry.go:459` say the pool is built from the exact
  URL and key that passed verification. `Ready` on a serving relay replaces the pair without a
  notification, so a relay whose URL moved stays in the pool under the old one.
- `plane_body_limit`: README.md:350 says 413 "only when the pin leaves no accepting provider".
  Each size skip costs an attempt, so `max_retries + 1` small relays in a row end in 413 although
  a larger one is next.
- `fleet_renamed`: `reconcile.go:579` says of a delete that "no in-flight request is cut when the
  remote disappears". A pending delete is keyed by the relay's name, the remote by the name's slug.
  Replace `my relay` by `my-relay` in the file: the clash check (`config.go:321`) sees one file,
  with one of the two names in it, and accepts. If the drain of the old name times out, the delete
  is deferred, and the same pass finds the project, verifies it and serves the new relay from it.
  The retried delete drains the old name only, and removes the project under the new relay's
  requests.

Read in the code along the way, and not the subject of a run:

- `registry.go:354` says of a relay that comes back before its delete is over that no "admission or
  in-flight work survives to protect". The delete may have been deferred because requests still
  streamed when the drain timed out. `Sync` clears `DrainPending` (`:360`), the new incarnation was
  never ready, and a pass that finds the project outdated deploys at once. `Fleet` reaches this;
  its `cause` is "removal", which `RolloutDeploysOnQuiet` does not speak of;
- `registry.go:371` says of an entry that adopts its first resolved scope that "no admission or
  in-flight work exists to protect". A pass resolves a credential twice: before `Sync` and in
  `ensureRelay`. When the first fails and the second succeeds, the relay is admitted with no scope
  on record; when its pin then moves, the new scope becomes the baseline (`:380`) and the admission
  stays. `Fleet` reaches this in nine states. `ServesOwnScope` is therefore checked where every
  `Sync` resolves, and `DeploysTheIncarnation` conditions its scope clause;
- `DeleteFailed` does not stamp `LastAttempt` (`registry.go:867`), so a reload computes the gate
  of a failed delete from an older attempt, where README says "from the failed attempt".
  `GateFollowsSettings` speaks of the failed, the unready, the paused and the serving, and leaves a
  failed delete out;
- the label comment of a failed deploy (`reconcile.go:521`);
- `poll` hashes one read of the file while `config.Load` reads it again (`main.go:520`, `:531`): a
  write between them stores a configuration under another one's hash, and the file that then rests
  under that hash is not loaded. `ChangeIsReal` and `FileIsFollowed` except exactly this;
- `awaitLive` (`platform.go:149`) compares the version only. After a rotation of the relay key it
  may accept the worker that answered before; the verification that follows then fails on the key
  and a later pass deploys again. This is why `AfterDeploy` may leave a stale worker stale;
- a project that leaves deno's list while it is walked moves later ones to a page already read
  (`deno.go`, `findProject`), so `Delete` may take a listed project for gone. `DeleteKeepsContract`
  excepts it, and no other property covers it.

### Bounds, and why they are enough

- *Relays.* The registry's entries interact only through the serving count, the channel and the
  outage ceiling; `registry_races` takes one key and two callers, the proofs any number.
  `fleet_safety` has two relays, which share the applier and a platform lock; one budget lets both
  roll out in one pass. `fleet_renamed` has two names of one project.
- *Scopes.* Two for one flip; three in `fleet_two_flips`.
- *Generations and objects* (`MaxGen` 3, `MaxObjects` 2): removal, purge, re-add and a scope flip
  in one behaviour, with a caller left over from before.
- *Clock.* `AgeCap`, `StreakCap` and the two settings of `registry_races` make base, capped, pause
  and recovery delays different and let a gate pass each of them; with `DurationMod` 16 the third
  delay of the slower settings wraps to a negative one. In `Fleet` all timings are one
  unit: what matters there is that gates shut and open.
- *Disturbances* (`Budgets`): how many edits, failed calls, drifts, drain timeouts and stops one
  behaviour of `Fleet` may have. `MCFleet` lists sets of budgets that pair each kind with each
  other; those of `fleet_progress` have a failure with a removal, a drain timeout with a removal and
  with a replacement, a stop anywhere in a replacement, and a stop anywhere in a first deployment with
  one pass that starts after it; `fleet_safety` also has a rollout that starts after the stop. A pass
  that starts while the process is stopping counts as a stop: the loop's `select` picks at
  random, so it starts few of them, and `StopUnwinds` is about their end. At shutdown, failures are free: the worker's context is cancelled. `seq` is bounded by
  them, and `SeqMod` is beyond what they reach.
- *File.* Two valid contents and an invalid one, three writes (`MaxWrites`): enough for A, X, A
  and A, B, A, and for a write between the reads of each of two polls. One pass without the relay
  key.
- *Platforms.* Two versions and two keys make a worker wrong in one, the other or both. Three
  upsets (`MaxUpsets`): a call fails, lands late after a second one failed, and the process ends
  or the relay leaves. One project ahead of the relay's (`Ahead`) and `PageSize` 1 put it on the
  second page; the proofs take any list and page size.
- *Requests.* Two in `plane_attempts`, one where only settings churn matters (`plane_answers`).
  Sizes 1 and 2 against limits 1 and 2 make a body that one provider takes and the other does not.
- *Symmetry* is used for callers, requests and, in `fleet_safety` and `fleet_two_flips`, scopes
  (nothing chooses one of them), in runs of safety and action properties only. It is off wherever
  liveness is checked.
- *Deadlock* is checked everywhere but in `platform_calls`, where a relay that was removed, with
  the disturbances spent, leaves nothing to do.

### Fairness

`Fleet` assumes that the apply loop, the worker's loop and each of its tasks are scheduled (they
are goroutines that block only where their action's guard says so), that the clock advances, and
that each endpoint's requests end at some time. Requests that never end keep a rollout deferred by
design (`DefaultQuiesceTimeout`), so convergence cannot be asked without it. No fairness is given
to edits, failures, drifts, timeouts, requests' starts and shutdown. `DataPlane` assumes that a
request that can take its next step takes it; nothing is assumed of rebuilds and swaps.
`DesiredState` assumes that the tickers fire and the two loops run, and strong fairness of
`TakeReload`: Go's `select` picks at random among ready channels, so it does not prefer the
readiness token for ever. Nothing is assumed of writes or of failures to read the key.
`Platforms` assumes that passes go on (every wait in a client has a deadline) and that an accepted
deployment answers at some time; late calls need neither land nor be lost.

## 4. Proofs

Every theorem holds for all values of its module's constants that meet the named assumptions of
that module; TLC evaluates those on every run. Each inductive invariant was first checked by TLC on
the instances of section 3.

### Registry

For any finite, non-empty set of relays and any callers, scopes, endpoints and settings
(`RegistryProofs`):

| Theorem | Establishes |
| --- | --- |
| `Inductive` | the invariant below |
| `Typing` | `TypeOK` |
| `CountIsExact` | `ReadyCountExact` |
| `HoldIsExclusive` | `SingleFlight` |
| `CompletionsAreCurrent` | `NoStaleCompletion` |
| `HoldsAreOwned` | `HoldHasOwner` |
| `LabelsAgree` | `OutMeansOut` |
| `AdmissionEnds` | `AdmissionEndsWithIncarnation` |
| `RemovedStaysRemoved` | `NoResurrection` |
| `MembershipRings` | `MembershipNotified`, when relays are fewer than `SeqMod` |
| `ServesItsScope` | `ServesOwnScope`, when no `Sync` misses a credential (`~Hiccups`) |
| `OutagesHeal` | `OutageHealsQuickly` |
| `PausesKeepTheirCadence` | `PauseKeepsCadence` |
| `GatesStand` | `GateFollowsSettings` |

Assumptions: keys are finite, caps are naturals, `Doubling` doubles, null values are not data
(module `Registry`), and the choices of `RegistryClients` are of their types.

Of the backoff itself, for any settings and any width of a duration (`RegistryLemmas`):

| Theorem | Establishes |
| --- | --- |
| `BackoffIsBounded` | a failure always arms a gate, of one unit at least and `BackoffMax` at most, and `RecoverMax` at most while nothing serves, also when the product wraps |
| `BackoffDoubles` | while the product fits, the delay doubles up to `BackoffMax` and never gets shorter |

The hypothesis of the second is needed: `backoffLocked` takes a product for the maximum when it is
negative, zero or beyond the maximum, and one that wrapped may be none of these. With the default
base of 5 s even the last product (a shift by 30) fits 63 bits; with more than 8.58 s it does not,
and a base at most some hundred nanoseconds above a multiple of 2^34 ns (17.2 s) gets a short delay
from its thirty-first failure on.

None of the properties of `RegistryClients` is inductive alone. `SingleFlight` speaks of callers that are still working;
a caller that has delivered `DeleteDone` no longer is, yet its release is still to come, and a
re-added entry under the same key may be held by another. The invariant therefore talks of every
hold that is still to be released (`HoldInv`): it names an object no newer than the key's, two holds
on one key name different objects, and if the object is still the entry, the entry is busy. A
working caller's object *is* the entry, and while its generation matches, an ensure's entry is not
removing and a delete's is. The registry's half (`Sound`) is typing, the exact count and labels that
agree with admission. `RegistryLemmas` proves for each method that it keeps `Sound` and what it does
to identities (`Evolves`: generations only grow, objects stay, and a removing label is entered or
left only with a new generation); `RegistryProofs` lifts each to its action, one lemma per action,
and combines them.

The second half of `RegistryLemmas` says of each method what its readers see of it, in three
summaries.

- `Told` and `Rings` (the applier): how far the counter moves, that a move leaves a token, and that
  the serving set changes only with one. `Sync` announces per relay, so it may move the counter by
  the number of relays. `MembershipRings` includes the wrap: fewer relays than counter values
  cannot lead once around. The code's counter has 64 bits.
- `Softens`, `Lands` (a rollout): an answer changes one entry, keeps its terms (scope, endpoint,
  drain owed) or grants an admission for the pair it reports.
- `Rearms` (the gate): a step that moves a gate further away has armed it, with the backoff under
  the settings and the count *that step leaves*, or with what is left of the revival cadence. This
  is where `Failing` and `Demote` must take the relay out of the count before they compute the
  delay; `OutagesHeal` is that and `BackoffIsBounded`.

With these, every step other than `Sync` is an `Outcome`: each entry keeps its incarnation, is
purged, or is made with nothing in it, and an admission it gains was vouched for by a current caller.
`AdmissionEnds` and `RemovedStaysRemoved` compare that with what `Sync` makes of an entry.
`ServesItsScope` needs one invariant more (`ScopesInv`): what is desired is on record with the
desired scope, a current caller resolved the scope on record, and what serves addresses it. It is
false with `Hiccups`, and so is the property, by the behaviour described in section 3.

`GatesStand` says of a gate that is still shut that it stands where the settings of now put it,
counted from the last attempt. It is not inductive: a reload re-arms only what was attempted and,
unless paused, has failed, so the invariant (`Gated`) adds that a relay waiting behind a shut gate
is such a one, up to the age that is no longer told apart. Every method then opens the gate, arms it
from the attempt it has just stamped, or leaves the fields it is counted from (`SameGated`); a reload counts again; and the clock takes from the wait what it adds to
the age. Which ceiling holds, the outage's or the ordinary one, was settled when the gate was last
armed, so the property allows both.

### Control loop

For any relays, scopes, hosts, sharing of platforms and projects, and any allowance of edits,
faults, drifts, timeouts and stops:

| Module | Theorem | Establishes |
| --- | --- | --- |
| `FleetTasks` | `TasksAgree` | the invariant of passes and tasks |
| `FleetTasks` | `FleetTyping` | `TypeOK` |
| `FleetTasks` | `HoldsReturn` | `HoldsAreReturned` |
| `FleetTasks` | `DeploysStandFor` | `DeploysTheIncarnation` |
| `FleetProofs` | `RoutesAgree` | the invariant of applier, pool and barriers |
| `FleetProofs` | `WakeupsAreKept` | `WakeupNotLost` |
| `FleetProofs` | `AppliedShows` | `AppliedIsShown` |
| `FleetProofs` | `DeletesAreQuiet` | `DeletesOnQuiet` |
| `FleetProofs` | `RolloutsAreQuiet` | `RolloutDeploysOnQuiet` |

`RoutesAgree` and the four properties after it are proved of behaviours in which the notification
counter has room for one more step (`[]Roomy`: `seq + Cardinality(Keys) + 2 < SeqMod`). The barrier
compares `applied >= target`, which means nothing once a counter wraps; the code's is a `uint64`
and would take centuries. TLC finds `Roomy` true in all states of the `fleet_safety` instance, so
the hypothesis excludes none of what is checked there. Nothing else depends on it.

The first invariant, `TasksInv`, is typing, `Sound` and for each relay:

- `HoldInv`: a working task holds the relay, on the object and in the incarnation it captured, and
  nobody else does. `HoldsAreReturned` is its first line;
- `VerdictInv`: the admission and the debt a task read before discovery are still those at its
  verdict. This holds because the task holds the relay and `Sync` runs only between passes;
- `LabelInv`: from the barrier on the relay is not admitted, past it no drain is owed, and it is
  labelled as deploying when it deploys;
- `PhaseInv`: which task can be where in which phase. It carries the argument that a pass's deletes
  and ensures do not meet, on which `HoldInv` rests when a purge makes the entry absent;
- `ScopeInv`: the incarnation stands for the scope last resolved, or for none. With the label it
  gives `DeploysTheIncarnation`;
- `VerifiedInv`: what is admitted has an endpoint, so that a pool is built of endpoints.

A task's step is summarised once, as `Local(k)`: it leaves a sound registry, announces what it
changes, and leaves the other relays, the pass and the pool alone. The second invariant, `RoutesInv`,
is proved from that summary and never opens the registry's operators again. Its clauses are what the
settle barrier rests on:

- `ApplierInv`: what is applied was captured, what is captured was announced, and what is not
  captured has left a token. `WakeupNotLost` is the second line, which needs the other two;
- `ShownInv`: a pool, and a snapshot not yet published, that claim the present number show exactly
  the admitted. The snapshot is taken after the number is captured, so a pool may show *more* than
  it claims, which is why the clause speaks only of equality with the present number;
- `BarrierInv`: any pool that reflects a task's target is without its relay, including the one being
  built; past the barrier every pool is. Without the clause on the pool being built, an old snapshot
  published after the barrier would route to the relay again;
- `DebtInv`: a relay whose admission a rollout took owes its drain, on record, as the work of its
  task, or has paid it. This is what survives an interruption between taking the admission and the
  deploy, over any number of passes.

That what a rollout has seen drained stays drained rests on the requests: `Start` asks the pool of
that moment. `TrafficProofs` proves it of `Traffic` (`TrafficStaysDrained`), `DataPlaneProofs` of the
attempt loop (`PlaneStaysDrained`). Nothing of the kind is claimed of `Fleet` by itself, whose
requests are `Traffic`'s by definition.

### Data plane

For any roster, settings, limits and requests (the set of requests need not be finite), in
`DataPlaneProofs`:

| Theorem | Establishes |
| --- | --- |
| `PlaneCounts` | the invariant of counters and objects |
| `PlaneTyping` | `TypeOK` |
| `CountersAreExact` | `InflightExact` |
| `AttemptsStayBounded` | `AttemptsBounded` |
| `CooledComesLast` | `CooledIsLastResort` |
| `ObjectsAreSingle` | `OneLiveObject` |
| `HealthIsKept` | `HealthFollowsEndpoint` |
| `HealthIsNotInherited` | `HealthIsItsOwn` |
| `PlaneImplementsTraffic` | `ImplementsTraffic` |
| `PlaneStaysDrained` | so a relay that `AwaitIdle` answered for stays idle until a swap |

Assumptions: the roster is a sequence without repetitions, the null endpoint is none, pins are
selectors, settings and endpoints are of their types, and `MaxObjects` is a natural.

Typing is not inductive without exact counters: the end of an attempt subtracts one, and that the
result is a natural is because the attempt was counted. So `CountInv` joins the two, and with them
the numbering of health objects (`ObjectsInv`): a request ends on the object it picked, which must
have been made, although a rebuild may have dropped it since. What a request's step does is
summarised in four forms (`Waits`, `Starts`, `Carries`, `Ends`), and the invariants are proved over
those. The counter of a relay is the cardinality of the set of requests between a `begin` and its
`end`, the size skip's included; starting and ending add and take one member. `RuntimeInv` adds who owns what (`OwnersInv`: one live object per identity, that of
the owner's endpoint, on which the serving generation works), and `RequestInv` the budget, which a
request re-reads from whatever generation serves when it retries. `HealthIsNotInherited` rests on
more than the map: an attempt may keep an object that map and generations have dropped, while its
relay moves on and comes back. `OneEndpointInv` therefore says of every place an object can be held
in (map, serving and built generation, attempts) that it stands for one endpoint; a new object has a
number nobody holds.

### File

| Module | Theorem | Establishes |
| --- | --- | --- |
| `DesiredStateProofs` | `TypeCorrect` | `TypeOK`: nothing but a valid content is stored, synced or served |
| `DesiredStateProofs` | `ChangesArrive` | `ChangeNotLost`: neither one-slot channel loses a stored change |
| `DesiredStateProofs` | `AnnouncesChanges` | `ChangeIsReal` |

`ChangeNotLost` speaks of loops that are at rest. It is not inductive: while a pass runs, a change
posted meanwhile is owed by the token, and one posted before it is consumed by the read to come. The
invariant of `DesiredStateProofs` is therefore typing with `WorkerIsDue` and `GatesAreDue`, which
say for every control point of a loop that what it holds is the stored configuration, or it has yet
to read, or a token or the watcher will make it; and with `KeyIsStored`, on which `ChangeIsReal`
rests: what one poll read as one content is stored under its own hash. `split`, the history variable
it conditions on, says that a write fell between the two reads. The assumptions are that contents,
the unreadable file and "no configuration" are different things and that the bounds are naturals.

### Platform clients

For any versions and relay keys, any number of projects listed before the relay's, any page size
and any number of failures, late calls, restarts and changes by others (`PlatformsProofs`):

| Theorem | Establishes |
| --- | --- |
| `CallsAgree` | the invariant below |
| `CallTyping` | `TypeOK` |
| `DeploysKeepContract` | `DeployKeepsContract`: what `Fleet` assumes of a deploy |
| `DeletesKeepContract` | `DeleteKeepsContract`: what `Fleet` assumes of a delete |

Both contracts compare what an operation leaves when it ends with what it found when it began
(`op.was`), so each is an invariant of the steps between. `BuildInv` is what a deploy may have left
before it ends: a project that was there is there, a current worker still answers, where there was
nothing only its own worker may, and no other worker is about to. `EnvInv` is vercel's part: the version is
in the environment before the relay key is written, and both before the deployment that takes them
is posted, a retry after the project was created included. `DeleteInv` is that a delete has changed
nothing before its last call, that nothing is about to answer, and that a walk has not passed the relay's project: whatever lies on the
pages already read is listed before it. With a page that is not full (`WalkAhead`), it follows that a
walk that found nothing has nothing to find. `CallsInv` ties the control point to the operation and
the platform.

The two contracts hold for operations that nobody else disturbs (`op.clean`); the invariant holds of
all. A late call of an operation that was given up is such a disturbance, and what becomes of it is
`Converges`. Typing is not inductive without the end of the list: a walk goes on after a full page
only, so that `page` is bounded by the list, and a list gets longer only by the relay's own project.

Assumptions: the platforms are the three, the null value is neither a version nor a key, and the
bounds are naturals, `PageSize` not zero.

### With TLC only

- All liveness: `Converges` (of `Fleet` and of `Platforms`), `BarrierIsLeft`, `StopUnwinds`,
  `EveryRequestAnswered`, `FileIsFollowed`. Fairness and `ENABLED` are beyond the prover.

Every other property of the passing runs is stated by a theorem. No module declares a RECURSIVE operator.

## 5. Not modelled

- Response headers, proxy rewriting, statistics and control endpoints: they read this state and do
  not change it.
- The client cache: one value replaced when two timeouts change.
- The validation rules of the configuration loader: a sequential function of one file. Its verdict
  is in `DesiredState`, its slug check where it does not reach in `fleet_renamed`.
- The JavaScript workers (stateless, run by the platforms), sanitizing, logging, version strings.
- The arithmetic of the shutdown budget, and the width of points in time.
- The widths of `run`: all tasks of a phase may run at once, a superset.
- In `Fleet`, a stale worker that turns current long after its deploy failed. `Platforms` has it.
- In `DataPlane`, the pairing of one rebuild with one registry snapshot; `Fleet` has it.
- A project left behind on deno by a late `create` after the relay was removed, or by a walk over a
  list that shrinks: no property claims its absence.

## 6. Plan

1. An abstract rollout (a relay is served, drained, replaced) that `Fleet` implements, with the
   re-added relay (`registry.go:360`), the blip and the second flip as its exceptions.
2. The relay created while its credential is unreadable (`registry.go:380`).
3. The shutdown budget: `Stop`, clamped drains, the server's own drain.
