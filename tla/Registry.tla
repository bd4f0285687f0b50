------------------------------ MODULE Registry ------------------------------
(***************************************************************************)
(* The readiness registry: the in-memory admission gate of the gateway     *)
(* (src/internal/readiness/registry.go).                                   *)
(*                                                                         *)
(* Every method of the code runs under one mutex, so a method is a         *)
(* function from the registry to the registry it leaves behind.  The       *)
(* operators below are those functions; the modules that use them decide   *)
(* who calls which method when, and may compose two calls made back to     *)
(* back.                                                                   *)
(*                                                                         *)
(* Time is relative: the backoff gate nextTry is kept as the time left     *)
(* until it opens (wait), and LastAttempt as the time elapsed since (age). *)
(* Since and LastResult are written and never read by the gate, and are    *)
(* left out.  scopeFP is a function of scope and scopeKnown, and scopeKnown*)
(* is scope # Unknown.                                                     *)
(***************************************************************************)
EXTENDS Integers, FiniteSets

CONSTANTS
  Keys,        \* relay identities: provider and name
  Scopes,      \* the deployment scopes a credential's pins can resolve to
  Unknown,     \* a scope that has never resolved
  Gone,        \* "not in the desired configuration", in a Sync
  Endpoints,   \* the URL + relay-key pairs a verification can pass for
  NoEndpoint,  \* the zero value of an entry's url and token
  AgeCap,      \* ages are told apart up to here (beyond every gate)
  StreakCap,   \* failure streaks are told apart up to here (31: the shift is clamped)
  Doubling,    \* Doubling[n]: the factor the base delay has grown by
  DurationMod, \* width of a duration (2^64 in the code)
  SeqMod       \* width of the notification counter (2^64 in the code)

ASSUME KeysFinite == IsFiniteSet(Keys)

ASSUME BoundsAreNat ==
  /\ AgeCap \in Nat
  /\ StreakCap \in Nat \ {0}
  /\ DurationMod \in Nat \ {0}
  /\ SeqMod \in Nat \ {0}

ASSUME DoublingDoubles ==
  /\ Doubling \in [0 .. StreakCap -> Nat \ {0}]
  /\ Doubling[0] = 1
  /\ \A n \in 1 .. StreakCap : Doubling[n] = 2 * Doubling[n - 1]

ASSUME NullsDistinct ==
  /\ Unknown \notin Scopes /\ Gone \notin Scopes /\ Gone # Unknown
  /\ NoEndpoint \notin Endpoints

States == {"configured", "discovering", "discovered", "deploying",
           "verifying", "ready", "unready", "failed", "paused", "removing"}

Reasons == {"", "version_failed", "auth_failed", "probe_failed",
            "unreachable", "deploy_failed", "paused", "replacing", "missing",
            "delete_failed", "credential_failed", "scope_changed"}

Settings == [base: Nat \ {0}, max: Nat \ {0}, recover: Nat \ {0},
             pause: Nat \ {0}, demoteAfter: Nat \ {0}]

(***************************************************************************)
(* An entry.  obj tells the entry objects of one key apart: the code holds *)
(* a pointer to the entry in its release closures, and a purge followed by *)
(* a re-add makes a different object under the same key.  An absent entry  *)
(* remembers how many objects the key has had.                             *)
(***************************************************************************)
Entry == [present: BOOLEAN, obj: Nat, state: States, reason: Reasons,
          gen: Nat, streak: 0 .. StreakCap, drainPending: BOOLEAN, serving: BOOLEAN,
          url: Endpoints \cup {NoEndpoint}, scope: Scopes \cup {Unknown},
          scopeChanged: BOOLEAN, busy: BOOLEAN,
          attempted: BOOLEAN, age: Nat, wait: Nat]

Fresh(obj, scope) ==
  [present |-> TRUE, obj |-> obj, state |-> "configured", reason |-> "",
   gen |-> 1, streak |-> 0, drainPending |-> FALSE, serving |-> FALSE,
   url |-> NoEndpoint, scope |-> scope, scopeChanged |-> FALSE,
   busy |-> FALSE, attempted |-> FALSE, age |-> 0, wait |-> 0]

Absent(obj) == [Fresh(obj, Unknown) EXCEPT !.present = FALSE, !.gen = 0]

Registries == [entries: [Keys -> Entry], ready: Int, seq: Nat,
               changes: BOOLEAN, cfg: Settings]

New(cfg) ==
  [entries |-> [k \in Keys |-> Absent(0)], ready |-> 0, seq |-> 0,
   changes |-> FALSE, cfg |-> cfg]

-----------------------------------------------------------------------------
(* Reads. *)

Exists(R, k) == R.entries[k].present

\* Mutant: a completion only needs an entry to land on.
Current_AnyGeneration(R, k, g) == R.entries[k].present

Current(R, k, g) == R.entries[k].present /\ R.entries[k].gen = g

Allow(R, k) == Exists(R, k) => R.entries[k].wait = 0

IsReady(R, k) == Exists(R, k) /\ R.entries[k].serving

ServingKeys(R) == {k \in Keys : IsReady(R, k)}

\* The admission snapshot the pool builder consumes.
Serving(R) ==
  [k \in Keys |-> IF IsReady(R, k) THEN R.entries[k].url ELSE NoEndpoint]

Removing(R) == {k \in Keys : Exists(R, k) /\ R.entries[k].state = "removing"}

-----------------------------------------------------------------------------
(* Internals shared by the methods. *)

Least(a, b) == IF a < b THEN a ELSE b

Bump(streak) == Least(streak + 1, StreakCap)

\* The registry with k's entry replaced.
With(R, k, e) == [R EXCEPT !.entries[k] = e]

\* notifyLocked, n times in a row under the same lock.
NotifiedTimes(R, n) ==
  [R EXCEPT !.seq = (@ + n) % SeqMod, !.changes = @ \/ n > 0]

Notified(R) == NotifiedTimes(R, 1)

NotifiedIf(R, cond) == IF cond THEN Notified(R) ELSE R

\* A duration in two's complement.
Wrapped(n) ==
  LET m == n % DurationMod IN IF 2 * m < DurationMod THEN m ELSE m - DurationMod

Grown(base, streak) == Wrapped(base * Doubling[IF streak > 1 THEN streak - 1 ELSE 0])

\* Mutant: a product that wrapped is a delay.
Delay_Unchecked(cfg, streak, ready) ==
  LET capped == Least(Grown(cfg.base, streak), cfg.max)
  IN  IF ready = 0 THEN Least(capped, cfg.recover) ELSE capped

\* The delay backoffLocked arms for a streak while `ready` relays serve.
Delay(cfg, streak, ready) ==
  LET grown  == Grown(cfg.base, streak)
      capped == IF grown <= 0 THEN cfg.max ELSE Least(grown, cfg.max)
  IN  IF ready = 0 THEN Least(capped, cfg.recover) ELSE capped

BackedOff(R, k) ==
  LET e == R.entries[k]
  IN  With(R, k, [e EXCEPT !.wait = Delay(R.cfg, e.streak, R.ready)])

\* Mutant: the cached count is forgotten.
Revoked_KeepsCount(R, k) == With(R, k, [R.entries[k] EXCEPT !.serving = FALSE])

Revoked(R, k) ==
  IF R.entries[k].serving
  THEN [With(R, k, [R.entries[k] EXCEPT !.serving = FALSE])
          EXCEPT !.ready = @ - 1]
  ELSE R

\* The bookkeeping every completed attempt starts with.
Attempted(R, k, streak, reason) ==
  With(R, k, [R.entries[k] EXCEPT !.attempted = TRUE, !.age = 0,
                                  !.streak = streak, !.reason = reason])

Labelled(R, k, state) == With(R, k, [R.entries[k] EXCEPT !.state = state])

\* The gate is armed at the revival cadence instead of the backoff.
Parked(R, k) == With(R, k, [R.entries[k] EXCEPT !.wait = R.cfg.pause])

-----------------------------------------------------------------------------
(* Single flight. *)

\* Begin: takes the hold, creating the entry when there is none.  The
\* caller has checked CanBegin, and reads gen and obj from the result.
CanBegin(R, k) == Exists(R, k) => ~R.entries[k].busy

Begin(R, k) ==
  LET e == IF Exists(R, k) THEN R.entries[k]
           ELSE Fresh(R.entries[k].obj + 1, Unknown)
  IN  With(R, k, [e EXCEPT !.busy = TRUE])

CanBeginDelete(R, k) == k \in Removing(R) /\ ~R.entries[k].busy

\* Mutant: the closure looks the key up again.
Release_AnyObject(R, k, obj) ==
  IF Exists(R, k) THEN With(R, k, [R.entries[k] EXCEPT !.busy = FALSE]) ELSE R

\* Mutant: nothing is released on a relay that is being removed.
Release_SkipsRemoving(R, k, obj) ==
  IF Exists(R, k) /\ R.entries[k].obj = obj /\ R.entries[k].state # "removing"
  THEN With(R, k, [R.entries[k] EXCEPT !.busy = FALSE])
  ELSE R

\* The release closure clears the hold on the entry object it captured.
Release(R, k, obj) ==
  IF Exists(R, k) /\ R.entries[k].obj = obj
  THEN With(R, k, [R.entries[k] EXCEPT !.busy = FALSE])
  ELSE R

-----------------------------------------------------------------------------
(* Completions: each is discarded when the incarnation has moved on. *)

Enter(R, k, g, state, reason) ==
  LET e       == R.entries[k]
      routine == e.state = "paused" /\ state \in {"discovering", "verifying"}
      changed == e.state # state \/ e.reason # reason
      moved   == [e EXCEPT !.state = state, !.reason = reason]
      opened  == [moved EXCEPT !.streak = 0, !.wait = 0]
  IN  IF ~Current(R, k, g) \/ routine THEN R
      ELSE NotifiedIf(With(R, k, IF state = "deploying" THEN opened ELSE moved),
                      changed /\ state # "discovering")

Ready(R, k, g, url) ==
  LET e    == R.entries[k]
      done == [e EXCEPT !.url = url, !.state = "ready", !.reason = "",
                        !.attempted = TRUE, !.age = 0, !.streak = 0,
                        !.drainPending = FALSE, !.scopeChanged = FALSE,
                        !.wait = 0, !.serving = TRUE]
      S    == With(R, k, done)
  IN  CASE ~Current(R, k, g) -> R
        [] Current(R, k, g) /\ e.serving -> S
        [] OTHER -> Notified([S EXCEPT !.ready = @ + 1])

\* A failure of a relay that holds no admission; `sticky` labels stay.
OutOfPool(R, k) ==
  LET sticky == R.entries[k].state \in {"unready", "failed"}
  IN  BackedOff(IF sticky THEN R ELSE Notified(Labelled(R, k, "failed")), k)

\* Mutants: the gate is armed first; the applier is not told.
Demoted_GateFirst(R, k) ==
  Notified(Revoked(Labelled(BackedOff(R, k), k, "unready"), k))

Demoted_Silent(R, k) == BackedOff(Labelled(Revoked(R, k), k, "unready"), k)

\* Admission is revoked BEFORE the gate is armed, so that the demotion that
\* empties the serving set already gets the RecoverMax ceiling.
Demoted(R, k) == Notified(BackedOff(Labelled(Revoked(R, k), k, "unready"), k))

\* Mutant: a paused relay that fails again backs off like any other.
Failing_ForgetsPause(R, k, g, reason) ==
  LET S == Attempted(R, k, Bump(R.entries[k].streak), reason)
  IN  CASE ~Current(R, k, g) -> R
        [] Current(R, k, g) /\ ~R.entries[k].serving -> BackedOff(S, k)
        [] OTHER -> Demoted(S, k)

Failing(R, k, g, reason) ==
  LET e == R.entries[k]
      S == Attempted(R, k, Bump(e.streak), reason)
  IN  CASE ~Current(R, k, g) -> R
        [] Current(R, k, g) /\ ~e.serving /\ e.state = "paused" ->
             Parked(S, k)
        [] Current(R, k, g) /\ ~e.serving /\ e.state # "paused" ->
             OutOfPool(S, k)
        [] Current(R, k, g) /\ e.serving
             /\ Bump(e.streak) < R.cfg.demoteAfter -> BackedOff(S, k)
        [] OTHER -> Demoted(S, k)

Demote(R, k, g, reason) ==
  LET S == Attempted(R, k, Least(R.cfg.demoteAfter, StreakCap), reason)
  IN  CASE ~Current(R, k, g) -> R
        [] Current(R, k, g) /\ ~R.entries[k].serving -> OutOfPool(S, k)
        [] OTHER -> Demoted(S, k)

\* Mutant: the label changes, the admission stays.
Pause_KeepsAdmission(R, k, g, reason) ==
  IF Current(R, k, g) THEN Notified(Labelled(Parked(R, k), k, "paused")) ELSE R

Pause(R, k, g, reason) ==
  LET S == Parked(Attempted(R, k, R.entries[k].streak, reason), k)
  IN  IF Current(R, k, g)
      THEN Notified(Revoked(Labelled(S, k, "paused"), k))
      ELSE R

DeferDrain(R, k, g) ==
  IF Current(R, k, g)
  THEN With(R, k, [R.entries[k] EXCEPT !.drainPending = TRUE]) ELSE R

DrainCompleted(R, k, g) ==
  IF Current(R, k, g)
  THEN With(R, k, [R.entries[k] EXCEPT !.drainPending = FALSE]) ELSE R

\* TakeScopeChanged answers ScopeMarked and leaves ScopeMarkTaken.
ScopeMarked(R, k, g) == Current(R, k, g) /\ R.entries[k].scopeChanged

ScopeMarkTaken(R, k, g) ==
  IF Current(R, k, g)
  THEN With(R, k, [R.entries[k] EXCEPT !.scopeChanged = FALSE]) ELSE R

DeleteDone(R, k, g) ==
  IF Current(R, k, g) /\ R.entries[k].state = "removing"
  THEN Notified(With(R, k, Absent(R.entries[k].obj)))
  ELSE R

\* Unlike every other failure this one leaves LastAttempt alone.
DeleteFailed(R, k, g, reason) ==
  IF Current(R, k, g) /\ R.entries[k].state = "removing"
  THEN BackedOff(With(R, k, [R.entries[k] EXCEPT !.streak = Bump(@),
                                                 !.reason = reason]), k)
  ELSE R

-----------------------------------------------------------------------------
(* Sync: one pass over the desired members.  want[k] is the scope the      *)
(* member's credential resolved to, Unknown when it did not resolve, Gone  *)
(* when the key is not desired.                                            *)

Appears(e, m)  == ~e.present /\ m # Gone
Returns(e, m)  == e.present /\ m # Gone /\ e.state = "removing"
Leaves(e, m)   == e.present /\ m = Gone /\ e.state # "removing"
Stays(e, m)    == e.present /\ m # Gone /\ e.state # "removing"
Resolves(e, m) == Stays(e, m) /\ m # Unknown /\ e.scope = Unknown
Flips(e, m)    == Stays(e, m) /\ m # Unknown /\ e.scope # Unknown /\ m # e.scope

Returned(e, m) ==
  [e EXCEPT !.gen = @ + 1, !.state = "configured", !.reason = "",
            !.streak = 0, !.drainPending = FALSE, !.wait = 0,
            !.scope = m, !.scopeChanged = FALSE]

\* Mutants: the incarnation goes on; the admission goes on.
Left_KeepsGeneration(e) ==
  [e EXCEPT !.serving = FALSE, !.state = "removing", !.reason = "",
            !.drainPending = FALSE]

Left_KeepsAdmission(e) ==
  [e EXCEPT !.state = "removing", !.reason = "", !.gen = @ + 1,
            !.drainPending = FALSE]

Left(e) ==
  [e EXCEPT !.serving = FALSE, !.state = "removing", !.reason = "",
            !.gen = @ + 1, !.drainPending = FALSE]

\* Mutants: the flip keeps the admission, drops the drain still owed, or
\* leaves the scope of the old incarnation on record.
Flipped_KeepsAdmission(e, m) ==
  [e EXCEPT !.gen = @ + 1, !.state = "configured", !.reason = "scope_changed",
            !.streak = 0, !.wait = 0, !.scope = m, !.scopeChanged = e.serving]

Flipped_ForgetsDrain(e, m) ==
  [e EXCEPT !.serving = FALSE, !.gen = @ + 1, !.state = "configured",
            !.reason = "scope_changed", !.streak = 0, !.wait = 0, !.scope = m,
            !.drainPending = FALSE, !.scopeChanged = e.serving]

Flipped_KeepsScope(e, m) ==
  [e EXCEPT !.serving = FALSE, !.gen = @ + 1, !.state = "configured",
            !.reason = "scope_changed", !.streak = 0, !.wait = 0,
            !.scopeChanged = e.serving]

\* drainPending is carried on purpose: an old-scope straggler may still
\* stream the URL a new-scope deploy switches.
Flipped(e, m) ==
  [e EXCEPT !.serving = FALSE, !.gen = @ + 1, !.state = "configured",
            !.reason = "scope_changed", !.streak = 0, !.wait = 0,
            !.scope = m, !.scopeChanged = e.serving]

SyncEntry(e, m) ==
  CASE Appears(e, m)  -> Fresh(e.obj + 1, m)
    [] Returns(e, m)  -> Returned(e, m)
    [] Leaves(e, m)   -> Left(e)
    [] Resolves(e, m) -> [e EXCEPT !.scope = m]
    [] Flips(e, m)    -> Flipped(e, m)
    [] OTHER          -> e

SyncNotifies(e, m) ==
  Appears(e, m) \/ Returns(e, m) \/ Leaves(e, m) \/ Flips(e, m)

Sync(R, want) ==
  LET synced  == [k \in Keys |-> SyncEntry(R.entries[k], want[k])]
      revoked == {k \in ServingKeys(R) : ~synced[k].serving}
      noted   == {k \in Keys : SyncNotifies(R.entries[k], want[k])}
  IN  NotifiedTimes([R EXCEPT !.entries = synced,
                              !.ready = @ - Cardinality(revoked)],
                    Cardinality(noted))

-----------------------------------------------------------------------------
(* UpdateSettings re-arms the gates of attempted entries from LastAttempt. *)

Remaining(delay, age) == IF delay > age THEN delay - age ELSE 0

\* Mutant: the gates start anew at the reload.
Rearmed_FromNow(e, cfg, ready) ==
  CASE e.present /\ e.attempted /\ e.state = "paused" ->
         [e EXCEPT !.wait = cfg.pause]
    [] e.present /\ e.attempted /\ e.state # "paused" /\ e.streak > 0 ->
         [e EXCEPT !.wait = Delay(cfg, e.streak, ready)]
    [] OTHER -> e

Rearmed(e, cfg, ready) ==
  CASE e.present /\ e.attempted /\ e.state = "paused" ->
         [e EXCEPT !.wait = Remaining(cfg.pause, e.age)]
    [] e.present /\ e.attempted /\ e.state # "paused" /\ e.streak > 0 ->
         [e EXCEPT !.wait = Remaining(Delay(cfg, e.streak, ready), e.age)]
    [] OTHER -> e

UpdateSettings(R, cfg) ==
  [R EXCEPT !.cfg = cfg,
            !.entries = [k \in Keys |-> Rearmed(@[k], cfg, R.ready)]]

(* The applier receives from the Changes channel. *)
Received(R) == [R EXCEPT !.changes = FALSE]

(* One unit of time passes. *)
Older(e) == [e EXCEPT !.wait = IF @ > 0 THEN @ - 1 ELSE 0,
                      !.age = IF e.attempted THEN Least(@ + 1, AgeCap) ELSE @]

Tick(R) == [R EXCEPT !.entries = [k \in Keys |-> Older(@[k])]]
=============================================================================
