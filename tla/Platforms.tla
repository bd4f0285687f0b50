------------------------------ MODULE Platforms ------------------------------
(***************************************************************************)
(* One relay on one platform: the calls by which the three platform        *)
(* clients discover, deploy and delete it                                  *)
(* (src/internal/deploy/{vercel,cloudflare,deno,platform}.go), driven by   *)
(* ensureRelay, rollout and runDeletes of src/internal/reconcile, against  *)
(* a platform where a call the gateway gave up may still land, a           *)
(* deployment answers some time after it was accepted, and others change   *)
(* the account.                                                            *)
(*                                                                         *)
(* Module Fleet has one step where this module has a client's sequence of  *)
(* calls; DeployKeepsContract and DeleteKeepsContract say that what it     *)
(* assumes of them (module Contract) is what the sequences leave behind.   *)
(***************************************************************************)
EXTENDS Contract, Naturals

CONSTANTS
  Kinds,     \* the platforms, of "vercel", "cloudflare", "deno"
  Versions,  \* worker versions a gateway binary may ship
  RelayKeys, \* values of the relay key
  None,      \* no value
  Ahead,     \* projects of the deno organization listed before the relay's
  PageSize,  \* projects on a full page of the list
  MaxUpsets  \* bound: disturbances

ASSUME KindsAreKnown == Kinds \subseteq {"vercel", "cloudflare", "deno"}
ASSUME NoneIsNoValue == None \notin Versions \cup RelayKeys
ASSUME BoundsAreNat == Ahead \in Nat /\ PageSize \in Nat \ {0} /\ MaxUpsets \in Nat

VARIABLES
  kind,    \* the platform
  cloud,   \* what the platform holds
  late,    \* calls that were given up and may still be carried out
  want,    \* the version this process ships and the relay key in force
  desired, \* the relay is configured
  label,   \* its registry entry
  op,      \* the operation that holds it, with its local variables
  upsets   \* disturbances so far

vars == <<kind, cloud, late, want, desired, label, op, upsets>>

Workers == [ver: Versions, key: RelayKeys]
Values  == [ver: Versions \cup {None}, key: RelayKeys \cup {None}]
Nobody  == [ver |-> None, key |-> None]

(***************************************************************************)
(* The platform.  env is vercel's project environment, which a deployment  *)
(* takes when it is accepted; next an accepted deployment (or none), live  *)
(* the one that answers, open the workers.dev route, ahead how many        *)
(* projects the organization's list shows before the relay's.              *)
(***************************************************************************)
Nothing == [exists |-> FALSE, env |-> Nobody, next |-> Nobody, live |-> Nobody,
            open |-> FALSE, ahead |-> IF kind = "deno" THEN Ahead ELSE 0]

Empty(c) == [c EXCEPT !.exists = TRUE]

Gone(c) == [Nothing EXCEPT !.ahead = c.ahead]

\* The worker behind the relay's URL.
Answering(c) == IF c.exists /\ (kind = "cloudflare" => c.open) THEN c.live ELSE Nobody

\* What discovery and verify would find, for a gateway that ships w.
Life(c, w) == IF ~c.exists THEN "none"
              ELSE IF Answering(c) = w THEN "current" ELSE "stale"

\* A call: what it does, for which values, to which environment variable.
Call(do, w, var) == [do |-> do, w |-> w, var |-> var]

\* The platform after a call; one it answers with 404 or 409 changes nothing.
\* A deployment creates a missing vercel project or cloudflare script.
Effect(c, call) ==
  CASE call.do = "create" -> Empty(c)
    [] call.do = "upsert" /\ c.exists -> [c EXCEPT !.env[call.var] = call.w[call.var]]
    [] call.do = "post" /\ kind = "vercel" -> [Empty(c) EXCEPT !.next = c.env]
    [] call.do = "post" /\ kind = "deno" /\ c.exists -> [c EXCEPT !.next = call.w]
    [] call.do = "put" -> [Empty(c) EXCEPT !.next = call.w]
    [] call.do = "enable" /\ c.exists -> [c EXCEPT !.open = TRUE]
    [] call.do = "remove" -> Gone(c)
    [] OTHER -> c

Writes == {"create", "upsert", "post", "put", "enable", "remove"}
Reads  == {"find", "ready", "live", "probe", "forward"}

(***************************************************************************)
(* op.goal  ensure  discover and verify   deploy  Client.Deploy            *)
(*          check   verify what it left   delete  Client.Delete            *)
(* op.pc is the call it makes next, op.w what it deploys and verifies,     *)
(* page, var and again are its position in a walk or in ensureEnv, void    *)
(* says that the registry drops its result: the identity left, or left and *)
(* came back.  was and clean are history: what the client call found, and  *)
(* whether nobody else has touched the platform since, and nothing but the *)
(* worker being deployed was about to answer.                              *)
(***************************************************************************)
Idle == [goal |-> "ensure", pc |-> "idle", w |-> Nobody, page |-> 1, var |-> "ver",
         again |-> FALSE, void |-> FALSE, was |-> "none", clean |-> FALSE]

Init ==
  /\ kind \in Kinds
  /\ cloud \in {Nothing} \cup
       {[Empty(Nothing) EXCEPT !.env = IF kind = "vercel" THEN w ELSE Nobody,
                               !.live = w, !.open = kind = "cloudflare"] : w \in Workers}
  /\ late = {} /\ want \in Workers /\ desired = TRUE /\ label = "absent"
  /\ op = Idle /\ upsets = 0

-----------------------------------------------------------------------------
(* The reconciler: ensureRelay, rollout, runDeletes. *)

FirstCall(goal) ==
  CASE goal = "check" -> "probe"
    [] goal # "check" /\ (goal = "ensure" \/ kind = "deno") -> "find"
    [] goal = "deploy" /\ kind # "deno" -> IF kind = "vercel" THEN "upsert" ELSE "put"
    [] goal = "delete" /\ kind # "deno" -> "remove"

Enter(goal, w) ==
  op' = [Idle EXCEPT !.goal = goal, !.pc = FirstCall(goal), !.w = w, !.void = op.void,
                     !.was = Life(cloud, w),
                     !.clean = cloud.next \in {Nobody} \cup IF goal = "deploy" THEN {w} ELSE {}]

\* The operation ends, with one of these labels if its result still counts.
Over(labels) == /\ op' = Idle
                /\ label' \in IF op.void THEN {label} ELSE labels

\* A verification only demotes a serving relay when its streak is used up
\* (module Registry); a failed delete stays to be retried.
Fail == Over(CASE op.goal = "ensure" -> {label, "unready"}
               [] op.goal = "delete" -> {label}
               [] OTHER -> {"unready"})

Goto(pc) == op' = [op EXCEPT !.pc = pc] /\ UNCHANGED label

StartEnsure ==
  /\ op.pc = "idle" /\ desired
  /\ Enter("ensure", want)
  /\ label' = IF label = "absent" THEN "unready" ELSE label
  /\ UNCHANGED <<kind, cloud, late, want, desired, upsets>>

StartDelete ==
  /\ op.pc = "idle" /\ label = "removing"
  /\ Enter("delete", want)
  /\ UNCHANGED <<kind, cloud, late, want, desired, label, upsets>>

\* rollout, past its settle and drain (module Fleet has those).
Rollout == Enter("deploy", op.w) /\ label' = IF op.void THEN label ELSE "unready"

-----------------------------------------------------------------------------
(* The calls, each answered. *)

Ask == UNCHANGED <<kind, cloud, late, want, desired, upsets>>
Do(do) == /\ cloud' = Effect(cloud, Call(do, op.w, op.var))
          /\ UNCHANGED <<kind, late, want, desired, upsets>>

\* Discover by name; cloudflare's account and subdomain reads are part of it.
Look ==
  /\ op.pc = "find" /\ kind # "deno"
  /\ IF cloud.exists THEN Goto("probe") ELSE Rollout
  /\ Ask

\* What the list shows on and up to page n.
OnPage(n) == /\ cloud.exists
             /\ (n - 1) * PageSize <= cloud.ahead /\ cloud.ahead < n * PageSize
Full(n)   == n * PageSize <= cloud.ahead + IF cloud.exists THEN 1 ELSE 0

\* findProject has the answer its caller asked for.
Found == Goto(CASE op.goal = "ensure" -> "probe"
                [] op.goal = "deploy" -> "post"
                [] op.goal = "delete" -> "remove")
NotFound == CASE op.goal = "ensure" -> Rollout
              [] op.goal = "deploy" -> Goto("create")
              [] op.goal = "delete" -> Over({"absent"})

\* Mutant: the first page is taken for the list.
Walk_OnePage ==
  /\ op.pc = "find" /\ kind = "deno"
  /\ IF OnPage(op.page) THEN Found ELSE NotFound
  /\ Ask

\* Mutant: a short page does not end the walk.
Walk_On ==
  /\ op.pc = "find" /\ kind = "deno"
  /\ IF OnPage(op.page) THEN Found
     ELSE IF op.page * PageSize <= cloud.ahead + 2
     THEN op' = [op EXCEPT !.page = @ + 1] /\ UNCHANGED label
     ELSE NotFound
  /\ Ask

\* findProject: page after page until the name or a short page.
Walk ==
  /\ op.pc = "find" /\ kind = "deno"
  /\ IF OnPage(op.page) THEN Found
     ELSE IF Full(op.page) THEN op' = [op EXCEPT !.page = @ + 1] /\ UNCHANGED label
     ELSE NotFound
  /\ Ask

\* Mutant: the deployment is created before the relay key is in place.
UpsertEnv_VersionOnly ==
  /\ op.pc = "upsert"
  /\ Do("upsert")
  /\ \/ cloud.exists /\ Goto("post")
     \/ ~cloud.exists /\ ~op.again /\ Goto("create")
     \/ ~cloud.exists /\ op.again /\ Fail

\* ensureEnv: version, then relay key, each tried again once after the project
\* it needs was created.
UpsertEnv ==
  /\ op.pc = "upsert"
  /\ Do("upsert")
  /\ \/ cloud.exists /\ op.var = "ver" /\ UNCHANGED label
        /\ op' = [op EXCEPT !.var = "key", !.again = FALSE]
     \/ cloud.exists /\ op.var = "key" /\ Goto("post")
     \/ ~cloud.exists /\ ~op.again /\ Goto("create")
     \/ ~cloud.exists /\ op.again /\ Fail

\* createProject: a conflict is vercel's desired end state and deno's error.
CreateProject ==
  /\ op.pc = "create"
  /\ Do("create")
  /\ \/ kind = "vercel" /\ UNCHANGED label
        /\ op' = [op EXCEPT !.pc = "upsert", !.again = TRUE]
     \/ kind = "deno" /\ ~cloud.exists /\ Goto("post")
     \/ kind = "deno" /\ cloud.exists /\ Fail

PostDeployment ==
  /\ op.pc = "post"
  /\ Do("post")
  /\ IF kind = "deno" /\ ~cloud.exists THEN Fail ELSE Goto("ready")

PutScript ==
  /\ op.pc = "put"
  /\ Do("put")
  /\ Goto("enable")

EnableRoute ==
  /\ op.pc = "enable"
  /\ Do("enable")
  /\ IF cloud.exists THEN Goto("live") ELSE Fail

\* The status poll ends with READY or success; traffic may switch later.
PollReady ==
  /\ op.pc = "ready"
  /\ Goto("live")
  /\ Ask

\* awaitLive compares the version and nothing else.
AwaitLive ==
  /\ op.pc = "live" /\ Answering(cloud).ver = op.w.ver
  /\ Enter("check", op.w)
  /\ UNCHANGED label
  /\ Ask

\* Its deadline: what was accepted, if anything, has answered by then.
Deadline ==
  /\ op.pc = "live" /\ Answering(cloud).ver # op.w.ver
  /\ cloud.next = Nobody
  /\ Fail
  /\ Ask

Remove ==
  /\ op.pc = "remove"
  /\ Do("remove")
  /\ Over({"absent"})

\* What a failed verification leads to.
Misfit == IF op.goal = "ensure" THEN Rollout ELSE Fail

ProbeVersion ==
  /\ op.pc = "probe"
  /\ IF Answering(cloud).ver = op.w.ver THEN Goto("forward") ELSE Misfit
  /\ Ask

\* Mutant: the version is proof enough.
ForwardProbe_AnyKey ==
  /\ op.pc = "forward"
  /\ Over({"ready"})
  /\ Ask

ForwardProbe ==
  /\ op.pc = "forward"
  /\ IF Answering(cloud).key = op.w.key THEN Over({"ready"}) ELSE Misfit
  /\ Ask

-----------------------------------------------------------------------------
(* The platform, and what goes wrong. *)

Propagate ==
  /\ cloud.next # Nobody
  /\ cloud' = [cloud EXCEPT !.live = cloud.next, !.next = Nobody]
  /\ UNCHANGED <<kind, late, want, desired, label, op, upsets>>

\* A call that was given up is carried out after all, or never.
Land(call) ==
  /\ late' = late \ {call}
  /\ cloud' = Effect(cloud, call)
  /\ op' = [op EXCEPT !.clean = FALSE]
  /\ UNCHANGED <<kind, want, desired, label, upsets>>

Lose(call) ==
  /\ late' = late \ {call}
  /\ UNCHANGED <<kind, cloud, want, desired, label, op, upsets>>

Upset == upsets < MaxUpsets /\ upsets' = upsets + 1

Outgoing == {Call(do, op.w, op.var) : do \in Writes \cap {op.pc}}

\* A call times out, or is answered with an error.
CallFails ==
  /\ Upset /\ op.pc \in Writes \cup Reads
  /\ late' = late \cup Outgoing
  /\ Fail
  /\ UNCHANGED <<kind, cloud, want, desired>>

\* The status poll ends with ERROR, CANCELED or failed.
BuildFails ==
  /\ Upset /\ op.pc = "ready" /\ cloud.next # Nobody
  /\ cloud' = [cloud EXCEPT !.next = Nobody]
  /\ Fail
  /\ UNCHANGED <<kind, late, want, desired>>

\* The process ends, by a crash or within Stop, and another one, of any
\* version, starts with an empty registry.
Restart ==
  /\ Upset
  /\ late' = late \cup Outgoing
  /\ op' = Idle /\ label' = "absent"
  /\ want' \in {[want EXCEPT !.ver = v] : v \in Versions}
  /\ UNCHANGED <<kind, cloud, desired>>

RotateKey ==
  /\ Upset
  /\ want' \in {[want EXCEPT !.key = k] : k \in RelayKeys \ {want.key}}
  /\ UNCHANGED <<kind, cloud, late, desired, label, op>>

\* The relay leaves the configuration, or comes back.
Toggle ==
  /\ Upset
  /\ desired' = ~desired
  /\ label' = IF label = "absent" THEN label
              ELSE IF desired THEN "removing" ELSE "unready"
  /\ op' = [op EXCEPT !.void = op.pc # "idle"]
  /\ UNCHANGED <<kind, cloud, late, want>>

\* Somebody removes the project, or deploys another worker to it.
Drift ==
  /\ Upset /\ cloud.exists
  /\ cloud' \in {Gone(cloud)} \cup {[cloud EXCEPT !.live = w] : w \in Workers}
  /\ op' = [op EXCEPT !.clean = FALSE]
  /\ UNCHANGED <<kind, late, want, desired, label>>

\* Another project leaves the organization; later ones move up, and one of
\* them may move to a page a walk has already seen.
Leave ==
  /\ Upset /\ cloud.ahead > 0
  /\ cloud' = [cloud EXCEPT !.ahead = @ - 1]
  /\ op' = [op EXCEPT !.clean = @ /\ op.pc # "find"]
  /\ UNCHANGED <<kind, late, want, desired, label>>

-----------------------------------------------------------------------------
Step ==
  \/ StartEnsure \/ StartDelete \/ Look \/ Walk
  \/ UpsertEnv \/ CreateProject \/ PostDeployment \/ PutScript \/ EnableRoute
  \/ PollReady \/ AwaitLive \/ Deadline \/ Remove \/ ProbeVersion \/ ForwardProbe

Disturb == CallFails \/ BuildFails \/ Restart \/ RotateKey \/ Toggle \/ Drift \/ Leave

Next == \/ Step \/ Propagate \/ Disturb
        \/ \E call \in late : Land(call) \/ Lose(call)

\* Passes run on the verify interval, waits have deadlines, and an accepted
\* deployment is live at some time.
Spec == Init /\ [][Next]_vars /\ WF_vars(Step) /\ WF_vars(Propagate)

-----------------------------------------------------------------------------
(* Properties. *)

Clouds == [exists: BOOLEAN, env: Values, next: Values, live: Values,
           open: BOOLEAN, ahead: 0 .. Ahead]

Calls == [do: Writes, w: Workers, var: {"ver", "key"}]

Goals == {"ensure", "deploy", "check", "delete"}

Operations == [goal: Goals, pc: {"idle"} \cup Reads \cup Writes, w: Workers \cup {Nobody},
               page: Nat \ {0}, var: {"ver", "key"}, again: BOOLEAN, void: BOOLEAN,
               was: Lives, clean: BOOLEAN]

\* Types; a walk asks for one page past the last full one and no more, and
\* nothing of a project outlives it.
TypeOK ==
  /\ kind \in Kinds /\ cloud \in Clouds /\ late \subseteq Calls /\ want \in Workers
  /\ desired \in BOOLEAN /\ label \in {"absent", "unready", "ready", "removing"}
  /\ op \in Operations /\ upsets \in 0 .. MaxUpsets
  /\ ~cloud.exists => cloud = Gone(cloud)
  /\ (op.page - 1) * PageSize <= Ahead + 1

\* A Deploy that nobody interferes with leaves what module Contract says, and
\* so what module Fleet assumes: also when it fails between two of its calls,
\* or starts over what a failed one left behind (deploy.go Client; vercel.go
\* Deploy and ensureEnv, cloudflare.go Deploy, deno.go Deploy).
DeployKeepsContract ==
  [][op.goal = "deploy" /\ op.clean /\ op'.goal # "deploy"
       => Life(cloud', op.w) \in IF op'.goal = "check" THEN AfterDeploy(op.was)
                                 ELSE FailedDeploy(op.was)]_vars

\* Likewise Delete, which only fails by a failed call: what it answers with
\* success is gone.  For deno this holds of a list no other project leaves
\* while it is walked (deno.go findProject, Delete).
DeleteKeepsContract ==
  [][op.goal = "delete" /\ op.clean /\ op'.goal # "delete"
       => Life(cloud', op.w) \in IF upsets' = upsets THEN AfterDelete
                                 ELSE FailedDelete(op.was)]_vars

\* Whatever calls failed, landed late or were cut off by the end of the
\* process, once things are left alone the relay is served by the shipped
\* worker under the key in force, or its removal has ended (reconcile.go Stop:
\* "every deploy is idempotent, so the next start simply retries from
\* discovery").
Converges ==
  <>[](IF desired THEN label = "ready" /\ Answering(cloud) = want ELSE label = "absent")
=============================================================================
