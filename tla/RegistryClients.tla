--------------------------- MODULE RegistryClients ---------------------------
(***************************************************************************)
(* The registry under concurrent callers.                                  *)
(*                                                                         *)
(* Clients are the ensure and delete tasks of the reconciler              *)
(* (src/internal/reconcile/reconcile.go), reduced to the contract          *)
(* registry.go states for its callers: take the single-flight hold, look   *)
(* at the state once, deliver completions in any order under the captured  *)
(* generation, release.  They run concurrently with Sync, the settings     *)
(* reload, the applier and the clock, which is more than the worker of     *)
(* this repository does (its passes are sequential) and exactly what the   *)
(* package promises ("All methods are safe for concurrent use").           *)
(***************************************************************************)
EXTENDS Registry

CONSTANTS
  Clients,
  Addresses(_, _), \* Addresses(ep, s): endpoint ep is a deployment in scope s
  SettingsChoices, \* the settings a reload can carry
  FailReasons,     \* the reasons clients fail attempts with
  Hiccups,         \* BOOLEAN: a credential read may fail during a Sync
  MaxGen,          \* bound: no Sync takes a generation beyond it
  MaxObjects       \* bound: entry objects made per key

ASSUME NonEmpty == Keys # {} /\ Scopes # {}
ASSUME BoundsPositive == MaxGen \in Nat /\ MaxObjects \in Nat
ASSUME SettingsAreSettings == SettingsChoices \subseteq Settings
ASSUME ReasonsAreReasons == FailReasons \subseteq Reasons
ASSUME HiccupsIsBoolean == Hiccups \in BOOLEAN

VARIABLES
  reg,     \* the registry
  want,    \* want[k]: the scope k's pins address, or Gone
  client   \* client[c]: what caller c holds

vars == <<reg, want, client>>

Members == [Keys -> Scopes \cup {Gone}]

(***************************************************************************)
(* phase  idle     no hold                                                 *)
(*        begun    holds the key, has not looked at its state yet          *)
(*        ensure   may deliver discovery, verification and deploy outcomes *)
(*        delete   may deliver the outcome of the remote delete            *)
(*        done     delivered its last completion, release still to come    *)
(***************************************************************************)
Phases == {"idle", "begun", "ensure", "delete", "done"}

ClientStates ==
  [phase: Phases, key: Keys, gen: Nat, obj: Nat, scope: Scopes]

Working(c) == client[c].phase \in {"begun", "ensure", "delete"}

NoHold == [phase |-> "idle", key |-> CHOOSE k \in Keys : TRUE, gen |-> 0,
           obj |-> 0, scope |-> CHOOSE s \in Scopes : TRUE]

Init ==
  /\ \E cfg \in SettingsChoices : reg = New(cfg)
  /\ want = [k \in Keys |-> Gone]
  /\ client = [c \in Clients |-> NoHold]

-----------------------------------------------------------------------------
Claims(w, hiccup) == [k \in Keys |-> IF w[k] # Gone /\ k \in hiccup
                                     THEN Unknown ELSE w[k]]

InBounds(R) == \A k \in Keys : /\ R.entries[k].gen <= MaxGen
                               /\ R.entries[k].obj <= MaxObjects

\* A reconciliation pass hands the desired members to the registry.
SyncMembers ==
  \E w \in Members, hiccup \in (IF Hiccups THEN SUBSET Keys ELSE {{}}) :
    /\ reg' = Sync(reg, Claims(w, hiccup))
    /\ InBounds(reg')
    /\ want' = w
    /\ UNCHANGED client

Hold(c, k, phase) ==
  /\ client[c].phase = "idle"
  /\ client' = [client EXCEPT ![c].phase = phase, ![c].key = k,
                              ![c].gen = reg'.entries[k].gen,
                              ![c].obj = reg'.entries[k].obj]
  /\ UNCHANGED want

BeginEnsure(c, k) ==
  /\ CanBegin(reg, k)
  /\ reg' = Begin(reg, k)
  /\ InBounds(reg')
  /\ Hold(c, k, "begun")

\* The look ensureRelay takes at the state after Begin, and the credential
\* it resolves for itself: the scope its deployment lives in.
LookAndResolve(c) ==
  LET k == client[c].key IN
  /\ client[c].phase = "begun"
  /\ Exists(reg, k) /\ k \notin Removing(reg)
  /\ \E s \in Scopes :
       /\ want[k] = s
       /\ client' = [client EXCEPT ![c].phase = "ensure", ![c].scope = s]
  /\ UNCHANGED <<reg, want>>

BeginRemoteDelete(c, k) ==
  /\ CanBeginDelete(reg, k)
  /\ reg' = Begin(reg, k)
  /\ Hold(c, k, "delete")

Deliver(c, R) == reg' = R /\ UNCHANGED <<want, client>>

\* One completion of an ensure task.
EnsureOutcome(c) ==
  LET k == client[c].key
      g == client[c].gen
  IN  /\ client[c].phase = "ensure"
      /\ \/ \E s \in {"discovering", "discovered", "deploying", "verifying"} :
              Deliver(c, Enter(reg, k, g, s, ""))
         \/ \E ep \in Endpoints : /\ Addresses(ep, client[c].scope)
                                  /\ Deliver(c, Ready(reg, k, g, ep))
         \/ \E r \in FailReasons : \/ Deliver(c, Failing(reg, k, g, r))
                                   \/ Deliver(c, Demote(reg, k, g, r))
                                   \/ Deliver(c, Pause(reg, k, g, r))
         \/ Deliver(c, DeferDrain(reg, k, g))
         \/ Deliver(c, DrainCompleted(reg, k, g))
         \/ Deliver(c, ScopeMarkTaken(reg, k, g))

\* The outcome of a remote delete is a caller's last word.
DeleteOutcome(c) ==
  LET k == client[c].key
      g == client[c].gen
  IN  /\ client[c].phase = "delete"
      /\ \/ reg' = DeleteDone(reg, k, g)
         \/ reg' = DeleteFailed(reg, k, g, "delete_failed")
      /\ client' = [client EXCEPT ![c].phase = "done"]
      /\ UNCHANGED want

Finish(c) ==
  /\ client[c].phase # "idle"
  /\ reg' = Release(reg, client[c].key, client[c].obj)
  /\ client' = [client EXCEPT ![c] = NoHold]
  /\ UNCHANGED want

Reload == /\ \E cfg \in SettingsChoices : reg' = UpdateSettings(reg, cfg)
          /\ UNCHANGED <<want, client>>

Receive == /\ reg.changes
           /\ reg' = Received(reg)
           /\ UNCHANGED <<want, client>>

Elapse == reg' = Tick(reg) /\ UNCHANGED <<want, client>>

Step(c) == \/ \E k \in Keys : BeginEnsure(c, k) \/ BeginRemoteDelete(c, k)
           \/ LookAndResolve(c)
           \/ EnsureOutcome(c)
           \/ DeleteOutcome(c)
           \/ Finish(c)

Next == \/ SyncMembers
        \/ \E c \in Clients : Step(c)
        \/ Reload
        \/ Receive
        \/ Elapse

Spec == Init /\ [][Next]_vars

-----------------------------------------------------------------------------
(* Properties. *)

\* Every field stays in its declared range.
TypeOK ==
  /\ reg \in Registries
  /\ want \in Members
  /\ client \in [Clients -> ClientStates]

\* The cached readyCount is the number of entries that hold admission, after
\* any interleaving of the six places that grant or revoke it (registry.go
\* Sync, Ready, Failing, Demote, Pause): it decides the outage ceiling of
\* every retry gate.
ReadyCountExact == reg.ready = Cardinality(ServingKeys(reg))

\* At most one caller works on a relay, and it owns the very entry object it
\* began on (registry.go Begin/BeginDelete: "that caller is the only one
\* operating on it"; release closures of purged objects change nothing).
SingleFlight ==
  \A c \in Clients : Working(c) =>
    /\ Exists(reg, client[c].key)
    /\ reg.entries[client[c].key].obj = client[c].obj
    /\ reg.entries[client[c].key].busy
    /\ \A d \in Clients \ {c} : Working(d) => client[d].key # client[c].key

\* A completion that is not discarded belongs to the incarnation it was
\* started for: a caller whose generation still matches is not holding a
\* purged and re-created entry (registry.go DeleteDone, the ABA note), an
\* ensure never acts on a removing relay, a delete only ever on one.
NoStaleCompletion ==
  \A c \in Clients :
    LET k == client[c].key IN
    Working(c) /\ Current(reg, k, client[c].gen) =>
      /\ reg.entries[k].obj = client[c].obj
      /\ client[c].phase = "ensure" => k \notin Removing(reg)
      /\ client[c].phase = "delete" => k \in Removing(reg)

\* The hold is never leaked: a busy entry has a caller that will release that
\* very object (registry.go Begin: the closure captures the entry).
HoldHasOwner ==
  \A k \in Keys : Exists(reg, k) /\ reg.entries[k].busy =>
    \E c \in Clients : /\ client[c].phase # "idle"
                       /\ client[c].key = k
                       /\ client[c].obj = reg.entries[k].obj

\* A relay labelled with a phase that means "out" holds no admission, whatever
\* was in flight when it got the label (registry.go Sync, Pause, Failing).
OutMeansOut ==
  \A k \in Keys : reg.entries[k].serving =>
    reg.entries[k].state \notin
      {"configured", "failed", "unready", "paused", "removing"}

\* What serves was verified in the scope the entry is recorded under
\* (registry.go Sync: "nothing verified for it may keep serving"), as long as
\* every Sync resolved the scope: a relay created while its credential could
\* not be read adopts the first scope it resolves to as its own.
ServesOwnScope ==
  \A k \in Keys : IsReady(reg, k) /\ reg.entries[k].scope # Unknown =>
    Addresses(reg.entries[k].url, reg.entries[k].scope)

\* A shut gate stands where the settings of now put it, counted from the last
\* attempt: a reload moves it, and neither forgives nor forgets the time the
\* relay has waited (registry.go UpdateSettings: "a lowered ceiling or revival
\* cadence takes effect without waiting for an unrelated future failure").
\* Which of the two ceilings holds was settled when the gate was last armed.
\* A failed delete arms its gate without stamping the attempt, and is not here.
GateFollowsSettings ==
  \A k \in Keys :
    LET e == reg.entries[k] IN
    e.present /\ e.wait > 0 /\ e.age < AgeCap =>
      /\ e.serving \/ e.state \in {"failed", "unready"} =>
           \E n \in {0, 1} : e.age + e.wait = Delay(reg.cfg, e.streak, n)
      /\ e.state = "paused" => e.age + e.wait = reg.cfg.pause

\* Admission never crosses an incarnation: the step that bumps a generation
\* leaves the relay out of the pool (registry.go Sync).
AdmissionEndsWithIncarnation ==
  [][\A k \in Keys : reg'.entries[k].gen # reg.entries[k].gen
                       => ~reg'.entries[k].serving]_vars

\* A removing relay is only ever purged, or re-added by a Sync that desires it
\* (registry.go Sync, DeleteDone); no completion brings it back.
NoResurrection ==
  [][\A k \in Removing(reg) : k \notin Removing(reg') =>
       \/ ~Exists(reg', k)
       \/ want'[k] # Gone /\ reg'.entries[k].gen > reg.entries[k].gen]_vars

\* Whoever changes pool membership signals the applier in the same critical
\* section (registry.go notifyLocked, Changes).
MembershipNotified ==
  [][ServingKeys(reg') # ServingKeys(reg) =>
       reg'.changes /\ reg'.seq # reg.seq]_vars

\* A gate armed by a step after which nothing serves obeys the RecoverMax
\* ceiling, the step that empties the serving set included (registry.go
\* Failing/Demote, "a total outage heals quickly").
OutageHealsQuickly ==
  [][\A k \in Keys :
       /\ ServingKeys(reg') = {}
       /\ reg'.cfg = reg.cfg
       /\ reg'.entries[k].state # "paused"
       /\ reg'.entries[k].wait > reg.entries[k].wait
       => reg'.entries[k].wait <= reg.cfg.recover]_vars

\* A paused relay keeps the revival cadence whatever routine answers arrive:
\* while it stays paused, a step that re-arms its gate arms the pause gate,
\* never the ordinary backoff (registry.go Failing, Enter).
PauseKeepsCadence ==
  [][\A k \in Keys :
       /\ reg.entries[k].state = "paused" /\ reg'.entries[k].state = "paused"
       /\ reg'.entries[k].wait > reg.entries[k].wait
       => reg'.entries[k].wait
            = Remaining(reg'.cfg.pause, reg'.entries[k].age)]_vars

-----------------------------------------------------------------------------
(***************************************************************************)
(* The inductive invariant behind SingleFlight and NoStaleCompletion.  A   *)
(* caller that has not delivered its last completion owns the entry object *)
(* it began on; every hold still to be released names an object of its     *)
(* own, and if that object is still the entry, the entry is busy.          *)
(***************************************************************************)
Holds(c) == client[c].phase # "idle"

OwnEntry(c) ==
  LET e == reg.entries[client[c].key] IN
  /\ client[c].obj <= e.obj
  /\ e.present /\ e.obj = client[c].obj => e.busy
  /\ Working(c) => e.present /\ e.obj = client[c].obj /\ client[c].gen <= e.gen
  /\ client[c].phase = "ensure" /\ e.gen = client[c].gen => e.state # "removing"
  /\ client[c].phase = "delete" /\ e.gen = client[c].gen => e.state = "removing"

HoldInv ==
  /\ \A c \in Clients : Holds(c) => OwnEntry(c)
  /\ \A c, d \in Clients :
       c # d /\ Holds(c) /\ Holds(d) /\ client[c].key = client[d].key
       => client[c].obj # client[d].obj
=============================================================================
