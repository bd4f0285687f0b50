--------------------------- MODULE PlatformsProofs ---------------------------
(***************************************************************************)
(* What TLAPS proves of module Platforms, for any platforms, versions and  *)
(* relay keys, any number of projects ahead of the relay's and any page    *)
(* size, and any number of failures, late calls, crashes and drifts: the   *)
(* sequences of calls of the three clients keep module Contract.           *)
(***************************************************************************)
EXTENDS Platforms, TLAPS

-----------------------------------------------------------------------------
(***************************************************************************)
(* The inductive invariant: where an operation can be, and what a deploy or*)
(* a delete that nobody interfered with has left so far.                   *)
(***************************************************************************)

DeployCalls == CASE kind = "vercel" -> {"upsert", "create", "post", "ready", "live"}
                 [] kind = "cloudflare" -> {"put", "enable", "live"}
                 [] kind = "deno" -> {"find", "create", "post", "ready", "live"}

CallsInv ==
  /\ op.pc # "idle" => op.w \in Workers
  /\ op.goal = "ensure" => op.pc \in {"idle", "find", "probe", "forward"}
  /\ op.goal = "check" => op.pc \in {"probe", "forward"}
  /\ op.goal = "deploy" => op.pc \in DeployCalls
  /\ op.goal = "delete" => \/ op.pc = "remove"
                           \/ op.pc = "find" /\ kind = "deno"

\* A deploy loses nothing that was there and puts nothing but its worker in
\* place.
BuildInv ==
  /\ op.was # "none" => cloud.exists
  /\ op.was = "current" => Answering(cloud) = op.w
  /\ op.was = "none" => cloud.live \in {Nobody, op.w}
  /\ cloud.next \in {Nobody, op.w}

\* A deployment takes the environment when both variables are in place.
EnvInv ==
  /\ op.pc = "create" => op.var = "ver"
  /\ op.pc = "upsert" /\ op.var = "key" => cloud.exists /\ cloud.env.ver = op.w.ver
  /\ op.pc \in {"post", "ready", "live"} => cloud.env = op.w

DeployInv == op.goal = "deploy" /\ op.clean =>
               BuildInv /\ (kind = "vercel" => EnvInv)

\* A delete has changed nothing before its last call, and a walk has not passed
\* the relay's project by.
DeleteInv ==
  op.goal = "delete" /\ op.clean =>
    /\ cloud.next = Nobody
    /\ Life(cloud, op.w) = op.was
    /\ op.pc = "find" /\ cloud.exists => (op.page - 1) * PageSize <= cloud.ahead

IInv == TypeOK /\ CallsInv /\ DeployInv /\ DeleteInv

-----------------------------------------------------------------------------
(* Lemmas about the operators. *)

Labels == {"absent", "unready", "ready", "removing"}

\* What every step owes to everything but the operation.
Placed ==
  /\ kind' = kind /\ cloud' \in Clouds /\ (~cloud.exists => cloud = Gone(cloud))'
  /\ late' \subseteq Calls /\ want' \in Workers /\ desired' \in BOOLEAN
  /\ label' \in Labels /\ upsets' \in 0 .. MaxUpsets

\* No value is a worker's, and the values a project starts from are values.
LEMMA NobodyWorks ==
  /\ Nobody \notin Workers /\ Nobody \in Values /\ Workers \subseteq Values
  /\ \A w \in Workers : w.ver # None /\ w.key # None
BY NoneIsNoValue DEF Nobody, Workers, Values

\* What a removed project leaves, and that a project which was not there had
\* nothing.
LEMMA GoneFields ==
  ASSUME NEW c
  PROVE  /\ Gone(c).exists = FALSE /\ Gone(c).open = FALSE /\ Gone(c).ahead = c.ahead
         /\ Gone(c).env = Nobody /\ Gone(c).next = Nobody /\ Gone(c).live = Nobody
         /\ c \in Clouds => Gone(c) \in Clouds /\ Gone(c) = Gone(Gone(c))
BY NobodyWorks DEF Gone, Nothing, Clouds

LEMMA EmptyFields ==
  ASSUME NEW c \in Clouds
  PROVE  /\ Empty(c) \in Clouds /\ Empty(c).exists = TRUE /\ Empty(c).open = c.open
         /\ Empty(c).ahead = c.ahead /\ Empty(c).env = c.env
         /\ Empty(c).next = c.next /\ Empty(c).live = c.live
BY DEF Empty, Clouds

\* One variable of the environment is set.
LEMMA UpsertFields ==
  ASSUME NEW c \in Clouds, NEW w \in Workers, NEW var \in {"ver", "key"}
  PROVE  LET d == [c EXCEPT !.env[var] = w[var]]
         IN  /\ d \in Clouds /\ d.exists = c.exists /\ d.open = c.open
             /\ d.ahead = c.ahead /\ d.next = c.next /\ d.live = c.live
             /\ d.env[var] = w[var]
             /\ var = "key" => d.env.ver = c.env.ver
<1>1. CASE var = "ver"
  BY <1>1 DEF Clouds, Workers, Values
<1>2. CASE var = "key"
  BY <1>2 DEF Clouds, Workers, Values
<1> QED
  BY <1>1, <1>2
\* A call leaves a platform; one on a project that is not there, and makes
\* none, leaves nothing.
LEMMA EffectType ==
  ASSUME kind \in Kinds, NEW c \in Clouds, ~c.exists => c = Gone(c), NEW call \in Calls
  PROVE  /\ Effect(c, call) \in Clouds
         /\ ~Effect(c, call).exists => Effect(c, call) = Gone(Effect(c, call))
<1> DEFINE d == Effect(c, call)
<1>1. call.w \in Workers /\ call.var \in {"ver", "key"} /\ Workers \subseteq Values
  BY NobodyWorks DEF Calls
<1>2. Empty(c) \in Clouds /\ Empty(c).exists
  BY EmptyFields
<1>3. \A v \in Values : /\ [c EXCEPT !.next = v] \in Clouds
                        /\ [c EXCEPT !.next = v].exists = c.exists
                        /\ [Empty(c) EXCEPT !.next = v] \in Clouds
                        /\ [Empty(c) EXCEPT !.next = v].exists
  BY <1>2 DEF Clouds
<1>4. /\ [c EXCEPT !.open = TRUE] \in Clouds
      /\ [c EXCEPT !.open = TRUE].exists = c.exists
  BY DEF Clouds
<1>5. /\ [c EXCEPT !.env[call.var] = call.w[call.var]] \in Clouds
      /\ [c EXCEPT !.env[call.var] = call.w[call.var]].exists = c.exists
  BY <1>1, UpsertFields
<1>6. Gone(c) \in Clouds /\ Gone(c) = Gone(Gone(c))
  BY GoneFields
<1>7. c.env \in Values
  BY DEF Clouds
<1>8. \/ d \in {c, Empty(c), [Empty(c) EXCEPT !.next = c.env],
                [Empty(c) EXCEPT !.next = call.w], Gone(c)}
      \/ c.exists /\ d \in {[c EXCEPT !.env[call.var] = call.w[call.var]],
                            [c EXCEPT !.next = call.w], [c EXCEPT !.open = TRUE]}
  BY DEF Effect
<1> HIDE DEF d
<1> QED
  BY <1>1, <1>2, <1>3, <1>4, <1>5, <1>6, <1>7, <1>8 DEF d

\* The fields of an operation that has just begun, and of none.
LEMMA EnterFields ==
  ASSUME NEW goal \in Goals, NEW w, Enter(goal, w)
  PROVE  /\ op'.goal = goal /\ op'.pc = FirstCall(goal) /\ op'.w = w /\ op'.page = 1
         /\ op'.var = "ver" /\ op'.again = FALSE /\ op'.void = op.void
         /\ op'.was = Life(cloud, w)
         /\ op'.clean = (cloud.next \in {Nobody} \cup IF goal = "deploy" THEN {w} ELSE {})
         /\ (w \in Workers /\ op \in Operations /\ FirstCall(goal) \in Reads \cup Writes)
              => op' \in Operations
<1> DEFINE was == Life(cloud, w)
           clean == cloud.next \in {Nobody} \cup IF goal = "deploy" THEN {w} ELSE {}
           first == FirstCall(goal)
<1>1. op' = [Idle EXCEPT !.goal = goal, !.pc = first, !.w = w, !.void = op.void,
                         !.was = was, !.clean = clean]
  BY DEF Enter
<1>2. was \in Lives /\ clean \in BOOLEAN
  BY DEF Life, Lives
<1> HIDE DEF was, clean, first
<1>3. /\ op'.goal = goal /\ op'.pc = first /\ op'.w = w /\ op'.page = 1
      /\ op'.var = "ver" /\ op'.again = FALSE /\ op'.void = op.void
      /\ op'.was = was /\ op'.clean = clean
  BY <1>1 DEF Idle
<1>4. ASSUME w \in Workers, op \in Operations, first \in Reads \cup Writes
      PROVE  op' \in Operations
  <2>1. Idle \in Operations
    BY DEF Idle, Operations, Goals, Lives
  <2> QED
    BY <1>1, <1>2, <1>4, <2>1 DEF Operations
<1> QED
  BY <1>3, <1>4 DEF was, clean, first

-----------------------------------------------------------------------------
(* Steps that end an operation, and steps that begin one. *)

\* No operation has nothing to answer for.
LEMMA EndStep ==
  ASSUME IInv, Placed, op' = Idle
  PROVE  IInv'
<1>1. Idle \in Operations /\ Idle.page = 1 /\ Idle.goal = "ensure" /\ Idle.pc = "idle"
  BY DEF Idle, Operations, Goals, Lives
<1>2. (op.page - 1) * PageSize <= Ahead + 1 /\ TypeOK'
  <2>1. (1 - 1) * PageSize <= Ahead + 1
    BY BoundsAreNat
  <2> QED
    BY <1>1, <2>1 DEF IInv, TypeOK, Placed, Labels
<1> QED
  BY <1>1, <1>2 DEF IInv, CallsInv, DeployInv, DeleteInv

\* An operation begins on what its history records.
LEMMA EnterStep ==
  ASSUME IInv, Placed, cloud' = cloud, NEW goal \in Goals, NEW w \in Workers,
         Enter(goal, w)
  PROVE  IInv'
<1>1. /\ op'.goal = goal /\ op'.pc = FirstCall(goal) /\ op'.w = w /\ op'.page = 1
      /\ op'.var = "ver" /\ op'.was = Life(cloud, w)
      /\ op'.clean = (cloud.next \in {Nobody} \cup IF goal = "deploy" THEN {w} ELSE {})
      /\ FirstCall(goal) \in Reads \cup Writes => op' \in Operations
  BY EnterFields DEF IInv, TypeOK
<1>2. kind \in {"vercel", "cloudflare", "deno"} /\ kind' = kind
  BY KindsAreKnown DEF IInv, TypeOK, Placed
<1>3. /\ goal = "check" => FirstCall(goal) = "probe"
      /\ goal = "ensure" => FirstCall(goal) = "find"
      /\ goal = "deploy" => FirstCall(goal) = IF kind = "deno" THEN "find"
                                              ELSE IF kind = "vercel" THEN "upsert" ELSE "put"
      /\ goal = "delete" => FirstCall(goal) = IF kind = "deno" THEN "find" ELSE "remove"
  BY DEF FirstCall
<1>4. op' \in Operations
  BY <1>1, <1>2, <1>3 DEF Goals, Reads, Writes
<1>5. TypeOK'
  <2>1. (op'.page - 1) * PageSize <= Ahead + 1
    BY <1>1, BoundsAreNat
  <2> QED
    BY <1>4, <2>1 DEF IInv, TypeOK, Placed, Labels
<1>6. CallsInv'
  BY <1>1, <1>2, <1>3 DEF CallsInv, DeployCalls, Goals
<1>7. /\ Life(cloud, w)' = Life(cloud, w) /\ Answering(cloud)' = Answering(cloud)
      /\ ~cloud.exists => cloud.live = Nobody
  <2>1. cloud \in Clouds /\ (~cloud.exists => cloud = Gone(cloud))
    BY DEF IInv, TypeOK
  <2> QED
    BY <1>2, <2>1, GoneFields DEF Life, Answering
<1>8. DeployInv'
  <2>1. /\ Life(cloud, w) # "none" => cloud.exists
        /\ Life(cloud, w) = "current" => Answering(cloud) = w
        /\ Life(cloud, w) = "none" => ~cloud.exists
    BY DEF Life
  <2> QED
    BY <1>1, <1>2, <1>3, <1>7, <2>1 DEF DeployInv, BuildInv, EnvInv
<1>9. DeleteInv'
  <2>1. (1 - 1) * PageSize <= cloud.ahead
    BY BoundsAreNat DEF IInv, TypeOK, Clouds
  <2> QED
    BY <1>1, <1>2, <1>7, <2>1 DEF DeleteInv
<1> QED
  BY <1>5, <1>6, <1>8, <1>9 DEF IInv
-----------------------------------------------------------------------------
(* What the calls do, and what they leave alone. *)

LEMMA EffectCases ==
  ASSUME NEW c, NEW w, NEW var
  PROVE  /\ Effect(c, Call("create", w, var)) = Empty(c)
         /\ Effect(c, Call("upsert", w, var))
              = IF c.exists THEN [c EXCEPT !.env[var] = w[var]] ELSE c
         /\ kind = "vercel" =>
              Effect(c, Call("post", w, var)) = [Empty(c) EXCEPT !.next = c.env]
         /\ kind = "deno" =>
              Effect(c, Call("post", w, var))
                = IF c.exists THEN [c EXCEPT !.next = w] ELSE c
         /\ Effect(c, Call("put", w, var)) = [Empty(c) EXCEPT !.next = w]
         /\ Effect(c, Call("remove", w, var)) = Gone(c)
BY DEF Effect, Call

\* The labels an operation may end with.
LEMMA OverLabels ==
  ASSUME IInv, NEW labels \in SUBSET Labels, Over(labels)
  PROVE  op' = Idle /\ label' \in Labels
BY DEF IInv, TypeOK, Labels, Over

LEMMA FailLabels ==
  ASSUME IInv, Fail
  PROVE  op' = Idle /\ label' \in Labels
<1>1. label \in Labels
  BY DEF IInv, TypeOK, Labels
<1>2. \E labels \in {{label, "unready"}, {label}, {"unready"}} : Over(labels)
  BY DEF Fail
<1> QED
  BY <1>1, <1>2, OverLabels DEF Labels

\* A call that only asks.
LEMMA AskPlaced ==
  ASSUME IInv, Ask, label' \in Labels
  PROVE  Placed /\ cloud' = cloud
<1>1. Nothing' = Nothing
  BY DEF Ask, Nothing
<1> QED
  BY <1>1 DEF IInv, TypeOK, Ask, Placed, Gone

\* What a client sends is a call.
LEMMA CallType ==
  ASSUME IInv, op.pc \in Writes
  PROVE  op.w \in Workers /\ Call(op.pc, op.w, op.var) \in Calls
<1>1. op.w \in Workers
  BY DEF IInv, CallsInv, Writes
<1>2. op.var \in {"ver", "key"}
  BY DEF IInv, TypeOK, Operations
<1> QED
  BY <1>1, <1>2 DEF Call, Calls

\* A call that writes.
LEMMA DoPlaced ==
  ASSUME IInv, op.pc \in Writes, Do(op.pc), label' \in Labels
  PROVE  Placed
<1>1. /\ cloud' = Effect(cloud, Call(op.pc, op.w, op.var))
      /\ UNCHANGED <<kind, late, want, desired, upsets>>
  BY DEF Do
<1>2. cloud' \in Clouds /\ (~cloud'.exists => cloud' = Gone(cloud'))
  BY <1>1, CallType, EffectType DEF IInv, TypeOK
<1>3. (\A c : Gone(c)' = Gone(c))
  BY <1>1 DEF Gone, Nothing
<1> QED
  BY <1>1, <1>2, <1>3 DEF IInv, TypeOK, Placed

\* An operation that goes on to its next call.
LEMMA GotoFields ==
  ASSUME op \in Operations, NEW pc \in Reads \cup Writes, op' = [op EXCEPT !.pc = pc]
  PROVE  /\ op' \in Operations /\ op'.pc = pc /\ op'.goal = op.goal /\ op'.w = op.w
         /\ op'.page = op.page /\ op'.var = op.var /\ op'.again = op.again
         /\ op'.was = op.was /\ op'.clean = op.clean
BY DEF Operations

\* What a deploy leaves in place of what it found.
Builds ==
  /\ cloud.exists => cloud'.exists
  /\ cloud.open => cloud'.open
  /\ cloud'.live = cloud.live
  /\ cloud'.next \in {cloud.next, op.w}

LEMMA BuildsOn ==
  ASSUME IInv, kind' = kind, op.goal = "deploy", op.clean, Builds,
         op'.w = op.w, op'.was = op.was
  PROVE  BuildInv'
<1>1. BuildInv /\ op.w \in Workers
  <2>1. op.pc # "idle"
    BY KindsAreKnown DEF IInv, TypeOK, CallsInv, DeployCalls
  <2> QED
    BY <2>1 DEF IInv, DeployInv, CallsInv
<1>2. Answering(cloud) = op.w => Answering(cloud)' = op.w
  BY <1>1, NobodyWorks DEF Answering, Builds
<1> QED
  BY <1>1, <1>2 DEF BuildInv, Builds

\* A step of a deploy.
LEMMA DeployStep ==
  ASSUME IInv, Placed, op.goal = "deploy", NEW pc \in DeployCalls,
         op' = [op EXCEPT !.pc = pc],
         op.clean => Builds /\ (kind = "vercel" => EnvInv')
  PROVE  IInv'
<1>1. op \in Operations /\ kind' = kind /\ kind \in {"vercel", "cloudflare", "deno"}
  BY KindsAreKnown DEF IInv, TypeOK, Placed
<1>2. pc \in Reads \cup Writes /\ pc # "idle" /\ op.pc # "idle"
  BY <1>1 DEF DeployCalls, Reads, Writes, IInv, CallsInv
<1>3. /\ op' \in Operations /\ op'.pc = pc /\ op'.goal = op.goal /\ op'.w = op.w
      /\ op'.page = op.page /\ op'.was = op.was /\ op'.clean = op.clean
  BY <1>1, <1>2, GotoFields
<1>4. TypeOK'
  BY <1>3 DEF IInv, TypeOK, Placed, Labels
<1>5. CallsInv'
  BY <1>1, <1>2, <1>3 DEF IInv, CallsInv, DeployCalls
<1>6. DeployInv'
  BY <1>1, <1>3, BuildsOn DEF DeployInv
<1> QED
  BY <1>3, <1>4, <1>5, <1>6 DEF IInv, DeleteInv

\* A step of a discovery or a verification.
LEMMA ViewStep ==
  ASSUME IInv, Placed, op.goal \in {"ensure", "check"}, op.pc # "idle",
         NEW pc \in {"probe", "forward"}, op' = [op EXCEPT !.pc = pc]
  PROVE  IInv'
<1>1. /\ op' \in Operations /\ op'.pc = pc /\ op'.goal = op.goal /\ op'.w = op.w
      /\ op'.page = op.page
  BY GotoFields DEF IInv, TypeOK, Reads
<1>2. TypeOK'
  BY <1>1 DEF IInv, TypeOK, Placed, Labels
<1>3. CallsInv'
  BY <1>1 DEF IInv, CallsInv
<1> QED
  BY <1>1, <1>2, <1>3 DEF IInv, DeployInv, DeleteInv
-----------------------------------------------------------------------------
(* The reconciler's and the client's steps. *)

\* What the misfit of a discovery leads to.
LEMMA RolloutStep ==
  ASSUME IInv, Ask, op.pc # "idle", Rollout
  PROVE  IInv'
<1>1. label' \in Labels /\ Enter("deploy", op.w)
  BY DEF IInv, TypeOK, Labels, Rollout
<1>2. op.w \in Workers
  BY DEF IInv, CallsInv
<1> QED
  BY <1>1, <1>2, AskPlaced, EnterStep DEF Goals

LEMMA StartStep ==
  ASSUME IInv, StartEnsure \/ StartDelete
  PROVE  IInv'
<1>1. Placed /\ cloud' = cloud
  <2>1. Ask /\ label' \in Labels
    BY DEF StartEnsure, StartDelete, Ask, IInv, TypeOK, Labels
  <2> QED
    BY <2>1, AskPlaced
<1>2. Enter("ensure", want) \/ Enter("delete", want)
  BY DEF StartEnsure, StartDelete
<1> QED
  BY <1>1, <1>2, EnterStep DEF IInv, TypeOK, Goals

LEMMA LookStep ==
  ASSUME IInv, Look
  PROVE  IInv'
<1>1. op.goal = "ensure" /\ op.pc = "find" /\ Ask
  BY KindsAreKnown
     DEF Look, IInv, TypeOK, Operations, Goals, CallsInv, DeployCalls
<1>2. CASE Goto("probe")
  <2>1. Placed
    BY <1>1, <1>2, AskPlaced DEF IInv, TypeOK, Labels, Goto
  <2> QED
    BY <1>1, <1>2, <2>1, ViewStep DEF Goto
<1>3. CASE Rollout
  BY <1>1, <1>3, RolloutStep
<1> QED
  BY <1>2, <1>3 DEF Look

\* The arithmetic of a walk: what is not on a page that was read is on a later
\* one, and the list ends with a short page.
LEMMA WalkAhead ==
  ASSUME IInv
  PROVE  /\ op.page \in Nat \ {0} /\ cloud.ahead \in Nat /\ op.page * PageSize \in Nat
         /\ Full(op.page) => op.page * PageSize <= Ahead + 1
         /\ cloud.exists /\ ~OnPage(op.page) /\ (op.page - 1) * PageSize <= cloud.ahead
              => op.page * PageSize <= cloud.ahead
         /\ cloud.exists /\ op.page * PageSize <= cloud.ahead => Full(op.page)
<1>1. /\ op.page \in Nat \ {0} /\ cloud.ahead \in 0 .. Ahead
      /\ PageSize \in Nat /\ Ahead \in Nat
  BY BoundsAreNat DEF IInv, TypeOK, Operations, Clouds
<1>2. op.page * PageSize \in Nat
  BY <1>1
<1> QED
  BY <1>1, <1>2 DEF Full, OnPage

LEMMA WalkStep ==
  ASSUME IInv, Walk
  PROVE  IInv'
<1>1. /\ op.pc = "find" /\ kind = "deno" /\ Ask /\ op \in Operations
      /\ op.goal \in {"ensure", "deploy", "delete"} /\ label \in Labels
  BY DEF Walk, IInv, TypeOK, Operations, Goals, CallsInv, Labels
<1>2. label' \in Labels => Placed /\ cloud' = cloud /\ kind' = kind
  BY <1>1, AskPlaced DEF Ask
<1>3. CASE Found
  <2>1. CASE op.goal = "ensure"
    <3>1. op' = [op EXCEPT !.pc = "probe"] /\ label' = label
      BY <1>3, <2>1 DEF Found, Goto
    <3> QED
      BY <1>1, <1>2, <2>1, <3>1, ViewStep
  <2>2. CASE op.goal = "deploy"
    <3>1. op' = [op EXCEPT !.pc = "post"] /\ label' = label
      BY <1>3, <2>2 DEF Found, Goto
    <3>2. "post" \in DeployCalls /\ Builds
      BY <1>1, <1>2, <3>1 DEF DeployCalls, Builds
    <3> QED
      BY <1>1, <1>2, <2>2, <3>1, <3>2, DeployStep
  <2>3. CASE op.goal = "delete"
    <3>1. op' = [op EXCEPT !.pc = "remove"] /\ label' = label
      BY <1>3, <2>3 DEF Found, Goto
    <3>2. /\ op' \in Operations /\ op'.pc = "remove" /\ op'.goal = op.goal
          /\ op'.w = op.w /\ op'.page = op.page /\ op'.was = op.was
          /\ op'.clean = op.clean
      BY <1>1, <3>1, GotoFields DEF Writes
    <3>3. TypeOK'
      BY <1>1, <1>2, <3>1, <3>2 DEF IInv, TypeOK, Placed, Labels
    <3>4. Life(cloud, op.w)' = Life(cloud, op.w)
      BY <1>1, <1>2, <3>1, <3>2 DEF Life, Answering
    <3> QED
      BY <1>1, <1>2, <2>3, <3>1, <3>2, <3>3, <3>4
         DEF IInv, CallsInv, DeployInv, DeleteInv
  <2> QED
    BY <1>1, <2>1, <2>2, <2>3
<1>4. CASE NotFound
  <2>1. CASE op.goal = "ensure"
    BY <1>1, <1>4, <2>1, RolloutStep DEF NotFound
  <2>2. CASE op.goal = "deploy"
    <3>1. op' = [op EXCEPT !.pc = "create"] /\ label' = label
      BY <1>4, <2>2 DEF NotFound, Goto
    <3>2. "create" \in DeployCalls /\ Builds
      BY <1>1, <1>2, <3>1 DEF DeployCalls, Builds
    <3> QED
      BY <1>1, <1>2, <2>2, <3>1, <3>2, DeployStep
  <2>3. CASE op.goal = "delete"
    <3>1. Over({"absent"})
      BY <1>4, <2>3 DEF NotFound
    <3> QED
      BY <1>2, <3>1, OverLabels, EndStep DEF Labels
  <2> QED
    BY <1>1, <2>1, <2>2, <2>3
<1>5. CASE ~OnPage(op.page) /\ Full(op.page) /\ op' = [op EXCEPT !.page = @ + 1]
           /\ UNCHANGED label
  <2>1. /\ op' \in Operations /\ op'.page = op.page + 1 /\ op'.pc = op.pc
        /\ op'.goal = op.goal /\ op'.w = op.w /\ op'.was = op.was
        /\ op'.clean = op.clean
    BY <1>1, <1>5 DEF Operations
  <2>2. (op'.page - 1) * PageSize = op.page * PageSize
    BY <2>1, WalkAhead
  <2>3. TypeOK'
    BY <1>1, <1>2, <1>5, <2>1, <2>2, WalkAhead DEF IInv, TypeOK, Placed, Labels
  <2>4. DeployInv'
    <3>1. ASSUME op.goal = "deploy", op.clean PROVE BuildInv'
      BY <1>1, <1>2, <1>5, <2>1, <3>1, BuildsOn DEF Builds
    <3> QED
      BY <1>1, <1>2, <1>5, <2>1, <3>1 DEF DeployInv
  <2>5. DeleteInv'
    <3>1. Life(cloud, op.w)' = Life(cloud, op.w)
      BY <1>1, <1>2, <1>5, <2>1 DEF Life, Answering
    <3> QED
      BY <1>1, <1>2, <1>5, <2>1, <2>2, <3>1, WalkAhead DEF IInv, DeleteInv
  <2>6. CallsInv'
    BY <1>1, <1>2, <1>5, <2>1 DEF IInv, CallsInv, DeployCalls
  <2> QED
    BY <2>3, <2>4, <2>5, <2>6 DEF IInv
<1> QED
  BY <1>3, <1>4, <1>5 DEF Walk

LEMMA UpsertEnvStep ==
  ASSUME IInv, UpsertEnv
  PROVE  IInv'
<1> DEFINE d == [cloud EXCEPT !.env[op.var] = op.w[op.var]]
<1>1. /\ op.pc = "upsert" /\ Do("upsert") /\ op \in Operations /\ cloud \in Clouds
      /\ op.goal = "deploy" /\ kind = "vercel" /\ label \in Labels
      /\ op.var \in {"ver", "key"} /\ op.w \in Workers
  BY KindsAreKnown
     DEF UpsertEnv, IInv, TypeOK, Operations, Goals, CallsInv, DeployCalls, Labels
<1>2. label' \in Labels => Placed
  BY <1>1, DoPlaced DEF Writes
<1>3. kind' = kind /\ cloud' = IF cloud.exists THEN d ELSE cloud
  BY <1>1, EffectCases DEF Do
<1>4. /\ d.exists = cloud.exists /\ d.open = cloud.open /\ d.next = cloud.next
      /\ d.live = cloud.live /\ d.env[op.var] = op.w[op.var] /\ d \in Clouds
      /\ op.var = "key" => d.env.ver = cloud.env.ver
  BY <1>1, UpsertFields
<1> HIDE DEF d
<1>5. Builds
  BY <1>3, <1>4 DEF Builds
<1>6. CASE /\ cloud.exists /\ op.var = "ver" /\ UNCHANGED label
           /\ op' = [op EXCEPT !.var = "key", !.again = FALSE]
  <2>1. /\ op' \in Operations /\ op'.page = op.page /\ op'.pc = op.pc
        /\ op'.goal = op.goal /\ op'.w = op.w /\ op'.was = op.was
        /\ op'.clean = op.clean /\ op'.var = "key"
    BY <1>1, <1>6 DEF Operations
  <2>2. TypeOK'
    BY <1>1, <1>2, <1>6, <2>1 DEF IInv, TypeOK, Placed, Labels
  <2>3. CallsInv'
    BY <1>1, <1>3, <2>1 DEF IInv, CallsInv, DeployCalls
  <2>4. EnvInv'
    BY <1>1, <1>3, <1>4, <1>6, <2>1 DEF EnvInv
  <2>5. DeployInv'
    <3>1. ASSUME op.clean PROVE BuildInv'
      BY <1>1, <1>3, <1>5, <2>1, <3>1, BuildsOn
    <3> QED
      BY <2>1, <2>4, <3>1 DEF DeployInv
  <2> QED
    BY <1>1, <2>1, <2>2, <2>3, <2>5 DEF IInv, DeleteInv
<1>7. CASE cloud.exists /\ op.var = "key" /\ Goto("post")
  <2>1. op' = [op EXCEPT !.pc = "post"] /\ label' = label
    BY <1>7 DEF Goto
  <2>2. "post" \in DeployCalls /\ "post" \in Writes
    BY <1>1 DEF DeployCalls, Writes
  <2>3. op'.pc = "post" /\ op'.w = op.w
    BY <1>1, <2>1, <2>2, GotoFields
  <2>4. ASSUME op.clean PROVE EnvInv'
    <3>1. cloud.env.ver = op.w.ver
      BY <1>1, <1>7, <2>4 DEF IInv, DeployInv, EnvInv
    <3>2. cloud'.env = op.w
      <4>1. cloud'.env.ver = op.w.ver /\ cloud'.env.key = op.w.key
        BY <1>3, <1>4, <1>7, <3>1
      <4>2. cloud'.env \in Values /\ op.w \in Values
        BY <1>1, <1>3, <1>4, <1>7, NobodyWorks DEF Clouds
      <4> QED
        BY <4>1, <4>2 DEF Values
    <3> QED
      BY <2>3, <3>2 DEF EnvInv
  <2> QED
    BY <1>1, <1>2, <1>5, <2>1, <2>2, <2>4, DeployStep
<1>8. CASE ~cloud.exists /\ Goto("create")
  <2>1. op' = [op EXCEPT !.pc = "create"] /\ label' = label
    BY <1>8 DEF Goto
  <2>2. "create" \in DeployCalls /\ "create" \in Writes
    BY <1>1 DEF DeployCalls, Writes
  <2>3. op'.pc = "create" /\ op'.var = op.var
    BY <1>1, <2>1, <2>2, GotoFields
  <2>4. ASSUME op.clean PROVE EnvInv'
    BY <1>1, <1>8, <2>3, <2>4 DEF IInv, DeployInv, EnvInv
  <2> QED
    BY <1>1, <1>2, <1>5, <2>1, <2>2, <2>4, DeployStep
<1>9. CASE Fail
  BY <1>2, <1>9, FailLabels, EndStep
<1> QED
  BY <1>6, <1>7, <1>8, <1>9 DEF UpsertEnv
LEMMA CreateStep ==
  ASSUME IInv, CreateProject
  PROVE  IInv'
<1>1. /\ op.pc = "create" /\ Do("create") /\ op \in Operations /\ cloud \in Clouds
      /\ op.goal = "deploy" /\ kind \in {"vercel", "deno"} /\ label \in Labels
  BY KindsAreKnown
     DEF CreateProject, IInv, TypeOK, Operations, Goals, CallsInv, DeployCalls, Labels
<1>2. label' \in Labels => Placed
  BY <1>1, DoPlaced DEF Writes
<1>3. kind' = kind /\ cloud' = Empty(cloud)
  BY <1>1, EffectCases DEF Do
<1>4. Builds
  BY <1>1, <1>3, EmptyFields DEF Builds
<1>5. CASE /\ kind = "vercel" /\ UNCHANGED label
           /\ op' = [op EXCEPT !.pc = "upsert", !.again = TRUE]
  <2>1. /\ op' \in Operations /\ op'.page = op.page /\ op'.pc = "upsert"
        /\ op'.goal = op.goal /\ op'.w = op.w /\ op'.was = op.was
        /\ op'.clean = op.clean /\ op'.var = op.var
    BY <1>1, <1>5 DEF Operations, Writes
  <2>2. TypeOK'
    BY <1>1, <1>2, <1>5, <2>1 DEF IInv, TypeOK, Placed, Labels
  <2>3. CallsInv'
    BY <1>1, <1>3, <1>5, <2>1 DEF IInv, CallsInv, DeployCalls
  <2>4. op.clean => EnvInv'
    BY <1>1, <1>5, <2>1 DEF IInv, DeployInv, EnvInv
  <2>5. DeployInv'
    <3>1. ASSUME op.clean PROVE BuildInv'
      BY <1>1, <1>3, <1>4, <2>1, <3>1, BuildsOn
    <3> QED
      BY <2>1, <2>4, <3>1 DEF DeployInv
  <2> QED
    BY <1>1, <2>1, <2>2, <2>3, <2>5 DEF IInv, DeleteInv
<1>6. CASE kind = "deno" /\ Goto("post")
  <2>1. op' = [op EXCEPT !.pc = "post"] /\ label' = label
    BY <1>6 DEF Goto
  <2>2. "post" \in DeployCalls
    BY <1>6 DEF DeployCalls
  <2> QED
    BY <1>1, <1>2, <1>4, <1>6, <2>1, <2>2, DeployStep
<1>7. CASE Fail
  BY <1>2, <1>7, FailLabels, EndStep
<1> QED
  BY <1>5, <1>6, <1>7 DEF CreateProject

LEMMA PostStep ==
  ASSUME IInv, PostDeployment
  PROVE  IInv'
<1>1. /\ op.pc = "post" /\ Do("post") /\ op \in Operations /\ cloud \in Clouds
      /\ op.goal = "deploy" /\ kind \in {"vercel", "deno"} /\ label \in Labels
      /\ op.w \in Workers
  BY KindsAreKnown
     DEF PostDeployment, IInv, TypeOK, Operations, Goals, CallsInv, DeployCalls, Labels
<1>2. label' \in Labels => Placed
  BY <1>1, DoPlaced DEF Writes
<1>3. cloud' = Effect(cloud, Call("post", op.w, op.var)) /\ kind' = kind
  BY <1>1 DEF Do
<1>4. CASE Goto("ready")
  <2>1. op' = [op EXCEPT !.pc = "ready"] /\ label' = label
    BY <1>4 DEF Goto
  <2>2. "ready" \in DeployCalls /\ "ready" \in Reads
    BY <1>1 DEF DeployCalls, Reads
  <2>3. op'.pc = "ready" /\ op'.w = op.w /\ op'.var = op.var
    BY <1>1, <2>1, <2>2, GotoFields
  <2>4. CASE kind = "vercel"
    <3> DEFINE m == Empty(cloud)
    <3>1. cloud' = [m EXCEPT !.next = cloud.env]
      BY <1>3, <2>4, EffectCases
    <3>2. /\ m \in Clouds /\ m.exists = TRUE /\ m.open = cloud.open
          /\ m.env = cloud.env /\ m.live = cloud.live
      BY <1>1, EmptyFields
    <3> HIDE DEF m
    <3>3. /\ cloud'.exists = TRUE /\ cloud'.open = cloud.open
          /\ cloud'.live = cloud.live /\ cloud'.env = cloud.env
          /\ cloud'.next = cloud.env
      BY <3>1, <3>2 DEF Clouds
    <3>4. op.clean => cloud.env = op.w
      BY <1>1, <2>4 DEF IInv, DeployInv, EnvInv
    <3>5. op.clean => Builds /\ EnvInv'
      BY <2>3, <3>3, <3>4 DEF Builds, EnvInv
    <3> QED
      BY <1>1, <1>2, <2>1, <2>2, <3>5, DeployStep
  <2>5. CASE kind = "deno"
    <3>1. cloud' = IF cloud.exists THEN [cloud EXCEPT !.next = op.w] ELSE cloud
      BY <1>3, <2>5, EffectCases
    <3>2. Builds
      BY <1>1, <3>1 DEF Builds, Clouds
    <3> QED
      BY <1>1, <1>2, <2>1, <2>2, <2>5, <3>2, DeployStep
  <2> QED
    BY <1>1, <2>4, <2>5
<1>5. CASE Fail
  BY <1>2, <1>5, FailLabels, EndStep
<1> QED
  BY <1>4, <1>5 DEF PostDeployment

\* Cloudflare's two calls.
LEMMA ScriptStep ==
  ASSUME IInv, PutScript \/ EnableRoute
  PROVE  IInv'
<1>1. /\ op \in Operations /\ cloud \in Clouds /\ op.w \in Workers
      /\ op.goal = "deploy" /\ kind = "cloudflare" /\ label \in Labels
      /\ op.pc \in {"put", "enable"}
  BY KindsAreKnown
     DEF PutScript, EnableRoute, IInv, TypeOK, Operations, Goals, CallsInv,
         DeployCalls, Labels
<1>2. Do(op.pc) /\ (label' \in Labels => Placed) /\ kind' = kind
  BY <1>1, DoPlaced DEF PutScript, EnableRoute, Writes, Do
<1>3. Builds
  <2>1. CASE op.pc = "put"
    <3> DEFINE m == Empty(cloud)
    <3>1. cloud' = [m EXCEPT !.next = op.w]
      BY <1>2, <2>1, EffectCases DEF Do
    <3>2. m \in Clouds /\ m.exists = TRUE /\ m.open = cloud.open /\ m.live = cloud.live
      BY <1>1, EmptyFields
    <3> HIDE DEF m
    <3> QED
      BY <1>1, <3>1, <3>2 DEF Builds, Clouds
  <2>2. CASE op.pc = "enable"
    <3>1. cloud' = IF cloud.exists THEN [cloud EXCEPT !.open = TRUE] ELSE cloud
      <4>1. cloud' = Effect(cloud, Call("enable", op.w, op.var))
        BY <1>2, <2>2 DEF Do
      <4>2. Effect(cloud, Call("enable", op.w, op.var))
              = IF cloud.exists THEN [cloud EXCEPT !.open = TRUE] ELSE cloud
        BY DEF Effect, Call
      <4> QED
        BY <4>1, <4>2
    <3> QED
      BY <1>1, <3>1 DEF Builds, Clouds
  <2> QED
    BY <1>1, <2>1, <2>2
<1>4. ASSUME NEW pc \in {"enable", "live"}, Goto(pc) PROVE IInv'
  <2>1. op' = [op EXCEPT !.pc = pc] /\ label' = label
    BY <1>4 DEF Goto
  <2>2. pc \in DeployCalls
    BY <1>1 DEF DeployCalls
  <2> QED
    BY <1>1, <1>2, <1>3, <2>1, <2>2, DeployStep
<1>5. CASE Fail
  BY <1>2, <1>5, FailLabels, EndStep
<1> QED
  BY <1>4, <1>5 DEF PutScript, EnableRoute

\* The waits at the end of a deploy.
LEMMA AwaitStep ==
  ASSUME IInv, PollReady \/ AwaitLive \/ Deadline
  PROVE  IInv'
<1>1. /\ op \in Operations /\ op.goal = "deploy" /\ label \in Labels
      /\ op.pc \in {"ready", "live"} /\ op.w \in Workers /\ Ask
      /\ op.pc = "ready" => kind \in {"vercel", "deno"}
      /\ kind \in {"vercel", "cloudflare", "deno"}
  BY KindsAreKnown
     DEF PollReady, AwaitLive, Deadline, IInv, TypeOK, Operations, Goals, CallsInv,
         DeployCalls, Labels
<1>2. (label' \in Labels => Placed) /\ cloud' = cloud /\ kind' = kind
  BY <1>1, AskPlaced DEF Ask
<1>3. CASE PollReady
  <2>1. op' = [op EXCEPT !.pc = "live"] /\ label' = label /\ op.pc = "ready"
    BY <1>3 DEF PollReady, Goto
  <2>2. "live" \in DeployCalls /\ Builds
    BY <1>1, <1>2, <2>1 DEF DeployCalls, Builds
  <2>3. op'.pc = "live" /\ op'.w = op.w
    BY <1>1, <2>1, GotoFields DEF Reads
  <2>4. ASSUME op.clean, kind = "vercel" PROVE EnvInv'
    BY <1>1, <1>2, <2>1, <2>3, <2>4 DEF IInv, DeployInv, EnvInv
  <2> QED
    BY <1>1, <1>2, <2>1, <2>2, <2>4, DeployStep
<1>4. CASE AwaitLive
  BY <1>1, <1>2, <1>4, EnterStep DEF AwaitLive, Goals
<1>5. CASE Deadline
  BY <1>2, <1>5, FailLabels, EndStep DEF Deadline
<1> QED
  BY <1>3, <1>4, <1>5

LEMMA RemoveStep ==
  ASSUME IInv, Remove
  PROVE  IInv'
<1>1. op' = Idle /\ label' \in Labels
  BY OverLabels DEF Remove, Labels
<1>2. Placed
  BY <1>1, DoPlaced DEF Remove, Writes
<1> QED
  BY <1>1, <1>2, EndStep

LEMMA VerifyStep ==
  ASSUME IInv, ProbeVersion \/ ForwardProbe
  PROVE  IInv'
<1>1. /\ op.goal \in {"ensure", "check"} /\ op.pc # "idle" /\ Ask /\ label \in Labels
  BY KindsAreKnown
     DEF ProbeVersion, ForwardProbe, IInv, TypeOK, Operations, Goals, CallsInv,
         DeployCalls, Labels
<1>2. CASE Goto("forward")
  <2>1. op' = [op EXCEPT !.pc = "forward"] /\ label' = label
    BY <1>2 DEF Goto
  <2> QED
    BY <1>1, <2>1, AskPlaced, ViewStep
<1>3. CASE Over({"ready"})
  BY <1>1, <1>3, OverLabels, AskPlaced, EndStep DEF Labels
<1>4. CASE Rollout
  BY <1>1, <1>4, RolloutStep
<1>5. CASE Fail
  BY <1>1, <1>5, FailLabels, AskPlaced, EndStep
<1> QED
  BY <1>2, <1>3, <1>4, <1>5 DEF ProbeVersion, ForwardProbe, Misfit

-----------------------------------------------------------------------------
(* The platform's steps and the disturbances. *)

\* A disturbance that leaves the platform and the operation alone, or ends it.
LEMMA PlacedStays ==
  ASSUME IInv, UNCHANGED <<kind, cloud>>, late' \subseteq Calls, want' \in Workers,
         desired' \in BOOLEAN, label' \in Labels, upsets' \in 0 .. MaxUpsets
  PROVE  Placed
<1>1. \A c : Gone(c)' = Gone(c)
  BY DEF Gone, Nothing
<1> QED
  BY <1>1 DEF IInv, TypeOK, Placed

LEMMA PropagateStep ==
  ASSUME IInv, Propagate
  PROVE  IInv'
<1>1. /\ cloud' = [cloud EXCEPT !.live = cloud.next, !.next = Nobody]
      /\ UNCHANGED <<kind, late, want, desired, label, op, upsets>>
      /\ cloud.next # Nobody /\ cloud \in Clouds
  BY DEF Propagate, IInv, TypeOK
<1>2. /\ cloud' \in Clouds /\ cloud'.exists = cloud.exists /\ cloud'.env = cloud.env
      /\ cloud'.live = cloud.next /\ cloud'.next = Nobody
      /\ cloud'.open = cloud.open /\ cloud'.ahead = cloud.ahead
  BY <1>1, NobodyWorks DEF Clouds
<1>3. cloud.exists
  BY <1>1, GoneFields DEF IInv, TypeOK
<1>4. TypeOK'
  BY <1>1, <1>2, <1>3 DEF IInv, TypeOK
<1>5. CallsInv'
  BY <1>1 DEF IInv, CallsInv, DeployCalls
<1>6. DeployInv'
  <2>1. ASSUME op.goal = "deploy", op.clean PROVE BuildInv' /\ (kind = "vercel" => EnvInv')
    <3>1. cloud.next = op.w /\ BuildInv /\ (kind = "vercel" => EnvInv)
      BY <1>1, <2>1 DEF IInv, DeployInv, BuildInv
    <3>2. op.w # Nobody
      BY <1>1, <3>1
    <3>3. Answering(cloud) = op.w => Answering(cloud)' = op.w
      BY <1>1, <1>2, <3>1, <3>2 DEF Answering
    <3> QED
      BY <1>1, <1>2, <1>3, <3>1, <3>3 DEF BuildInv, EnvInv
  <2> QED
    BY <1>1, <2>1 DEF DeployInv
<1>7. DeleteInv'
  BY <1>1 DEF IInv, DeleteInv
<1> QED
  BY <1>4, <1>5, <1>6, <1>7 DEF IInv

\* Whatever touches the platform between two calls, nothing is claimed of the
\* operation under way.
LEMMA SoiledStep ==
  ASSUME IInv, Placed, op' = [op EXCEPT !.clean = FALSE]
  PROVE  IInv'
<1>1. /\ op' \in Operations /\ op'.page = op.page /\ op'.pc = op.pc
      /\ op'.goal = op.goal /\ op'.w = op.w /\ op'.clean = FALSE
  BY DEF IInv, TypeOK, Operations
<1> QED
  BY <1>1 DEF IInv, TypeOK, Placed, Labels, CallsInv, DeployCalls, DeployInv, DeleteInv

\* A platform that is another one's, but of the same kind.
LEMMA CloudPlaced ==
  ASSUME IInv, UNCHANGED <<kind, want, desired, label>>, late' \subseteq late,
         upsets' \in 0 .. MaxUpsets, cloud' \in Clouds,
         ~cloud'.exists => cloud' = Gone(cloud')
  PROVE  Placed
<1>1. \A c : Gone(c)' = Gone(c)
  BY DEF Gone, Nothing
<1> QED
  BY <1>1 DEF IInv, TypeOK, Placed, Labels

LEMMA LateStep ==
  ASSUME IInv, NEW call \in late, Land(call) \/ Lose(call)
  PROVE  IInv'
<1>1. CASE Land(call)
  <2>1. call \in Calls /\ kind \in Kinds /\ cloud \in Clouds
        /\ (~cloud.exists => cloud = Gone(cloud)) /\ upsets \in 0 .. MaxUpsets
    BY DEF IInv, TypeOK
  <2>2. Effect(cloud, call) \in Clouds
        /\ (~Effect(cloud, call).exists => Effect(cloud, call) = Gone(Effect(cloud, call)))
    BY <2>1, EffectType
  <2>3. Placed
    BY <1>1, <2>1, <2>2, CloudPlaced DEF Land
  <2> QED
    BY <1>1, <2>3, SoiledStep DEF Land
<1>2. CASE Lose(call)
  <2>1. TypeOK'
    BY <1>2 DEF Lose, IInv, TypeOK, Gone, Nothing
  <2> QED
    BY <1>2, <2>1
       DEF Lose, IInv, CallsInv, DeployCalls, DeployInv, BuildInv, EnvInv, DeleteInv,
           Life, Answering
<1> QED
  BY <1>1, <1>2

\* The bound on disturbances.
LEMMA UpsetType ==
  ASSUME IInv, Upset
  PROVE  upsets' \in 0 .. MaxUpsets
BY BoundsAreNat DEF IInv, TypeOK, Upset

LEMMA LateType ==
  ASSUME IInv
  PROVE  late \cup Outgoing \subseteq Calls
<1>1. ASSUME op.pc \in Writes PROVE Call(op.pc, op.w, op.var) \in Calls
  BY <1>1, CallType
<1>2. Outgoing \subseteq Calls
  BY <1>1 DEF Outgoing
<1> QED
  BY <1>2 DEF IInv, TypeOK

LEMMA CutStep ==
  ASSUME IInv, CallFails \/ BuildFails \/ Restart
  PROVE  IInv'
<1>1. op' = Idle /\ label' \in Labels
  BY FailLabels DEF CallFails, BuildFails, Restart, Labels
<1>2. upsets' \in 0 .. MaxUpsets
  BY UpsetType DEF CallFails, BuildFails, Restart
<1>3. CASE CallFails \/ Restart
  <2>1. want' \in Workers
    BY <1>3 DEF CallFails, Restart, IInv, TypeOK, Workers
  <2> QED
    BY <1>1, <1>2, <1>3, <2>1, LateType, PlacedStays, EndStep
       DEF CallFails, Restart, IInv, TypeOK
<1>4. CASE BuildFails
  <2>1. /\ cloud' = [cloud EXCEPT !.next = Nobody] /\ cloud.exists /\ cloud \in Clouds
        /\ UNCHANGED <<kind, late, want, desired>>
    BY <1>4, GoneFields DEF BuildFails, IInv, TypeOK
  <2>2. cloud' \in Clouds /\ cloud'.exists
    BY <2>1, NobodyWorks DEF Clouds
  <2>3. Placed
    BY <1>1, <1>2, <2>1, <2>2 DEF Placed, IInv, TypeOK
  <2> QED
    BY <1>1, <2>3, EndStep
<1> QED
  BY <1>3, <1>4

\* A rotation, or the relay leaves or comes back: the operation goes on.
LEMMA OrderStep ==
  ASSUME IInv, RotateKey \/ Toggle
  PROVE  IInv'
<1>1. Placed
  <2>1. want' \in Workers
    BY DEF RotateKey, Toggle, IInv, TypeOK, Workers
  <2>2. label' \in Labels /\ desired' \in BOOLEAN
    BY DEF RotateKey, Toggle, IInv, TypeOK, Labels
  <2>3. upsets' \in 0 .. MaxUpsets
    BY UpsetType DEF RotateKey, Toggle
  <2> QED
    BY <2>1, <2>2, <2>3, PlacedStays DEF RotateKey, Toggle, IInv, TypeOK
<1>2. /\ op' \in Operations /\ op'.page = op.page /\ op'.pc = op.pc /\ op'.var = op.var
      /\ op'.goal = op.goal /\ op'.w = op.w /\ op'.was = op.was /\ op'.clean = op.clean
      /\ cloud' = cloud /\ kind' = kind
  <2>1. op \in Operations /\ (op.pc # "idle") \in BOOLEAN
    BY DEF IInv, TypeOK
  <2> QED
    BY <2>1 DEF RotateKey, Toggle, Operations
<1> QED
  BY <1>1, <1>2
     DEF IInv, TypeOK, Placed, Labels, CallsInv, DeployCalls, DeployInv, BuildInv,
         EnvInv, DeleteInv, Life, Answering

LEMMA DriftStep ==
  ASSUME IInv, Drift
  PROVE  IInv'
<1>1. /\ cloud \in Clouds /\ cloud.exists /\ op' = [op EXCEPT !.clean = FALSE]
      /\ cloud' \in {Gone(cloud)} \cup {[cloud EXCEPT !.live = w] : w \in Workers}
      /\ UNCHANGED <<kind, late, want, desired, label>> /\ upsets' \in 0 .. MaxUpsets
  BY UpsetType DEF Drift, IInv, TypeOK
<1>2. \A w \in Workers : /\ [cloud EXCEPT !.live = w] \in Clouds
                         /\ [cloud EXCEPT !.live = w].exists
  BY <1>1, NobodyWorks DEF Clouds
<1>3. Gone(cloud) \in Clouds /\ Gone(cloud) = Gone(Gone(cloud))
  BY <1>1, GoneFields
<1>4. Placed
  BY <1>1, <1>2, <1>3, CloudPlaced
<1> QED
  BY <1>1, <1>4, SoiledStep

LEMMA LeaveStep ==
  ASSUME IInv, Leave
  PROVE  IInv'
<1>1. /\ cloud \in Clouds /\ cloud.ahead > 0 /\ op \in Operations
      /\ cloud' = [cloud EXCEPT !.ahead = @ - 1]
      /\ op' = [op EXCEPT !.clean = @ /\ op.pc # "find"]
      /\ UNCHANGED <<kind, late, want, desired, label>> /\ upsets' \in 0 .. MaxUpsets
  BY UpsetType DEF Leave, IInv, TypeOK
<1>2. /\ cloud' \in Clouds /\ cloud'.exists = cloud.exists /\ cloud'.env = cloud.env
      /\ cloud'.live = cloud.live /\ cloud'.next = cloud.next
      /\ cloud'.open = cloud.open
  BY <1>1, BoundsAreNat DEF Clouds
<1>3. ~cloud'.exists => cloud' = Gone(cloud')
  <2>1. ASSUME ~cloud.exists PROVE cloud' = Gone(cloud')
    <3>1. cloud = Gone(cloud)
      BY <2>1 DEF IInv, TypeOK
    <3> QED
      BY <1>1, <3>1 DEF Gone, Nothing
  <2> QED
    BY <1>2, <2>1
<1>4. Placed
  BY <1>1, <1>2, <1>3, CloudPlaced
<1>5. /\ op' \in Operations /\ op'.page = op.page /\ op'.pc = op.pc /\ op'.var = op.var
      /\ op'.goal = op.goal /\ op'.w = op.w /\ op'.was = op.was
      /\ op'.clean => op.clean /\ op.pc # "find"
  <2>1. (op.clean /\ op.pc # "find") \in BOOLEAN
    OBVIOUS
  <2> QED
    BY <1>1, <2>1 DEF Operations
<1>6. TypeOK' /\ CallsInv' /\ kind' = kind
  BY <1>4, <1>5 DEF IInv, TypeOK, Placed, Labels, CallsInv, DeployCalls
<1>7. Answering(cloud)' = Answering(cloud) /\ Life(cloud, op.w)' = Life(cloud, op.w)
  BY <1>2, <1>5, <1>6 DEF Life, Answering
<1>8. DeployInv'
  BY <1>2, <1>5, <1>6, <1>7 DEF IInv, DeployInv, BuildInv, EnvInv
<1>9. DeleteInv'
  BY <1>2, <1>5, <1>7 DEF IInv, DeleteInv
<1> QED
  BY <1>6, <1>8, <1>9 DEF IInv
LEMMA NextStep ==
  ASSUME IInv, [Next]_vars
  PROVE  IInv'
<1>1. CASE UNCHANGED vars
  <2>1. /\ kind' = kind /\ cloud' = cloud /\ late' = late /\ want' = want
        /\ desired' = desired /\ label' = label /\ op' = op /\ upsets' = upsets
    BY <1>1 DEF vars
  <2>2. Life(cloud, op.w)' = Life(cloud, op.w) /\ Answering(cloud)' = Answering(cloud)
    BY <2>1 DEF Life, Answering
  <2>3. Gone(cloud)' = Gone(cloud)
    BY <2>1 DEF Gone, Nothing
  <2>4. TypeOK'
    BY <2>1, <2>3 DEF IInv, TypeOK
  <2>5. CallsInv'
    BY <2>1 DEF IInv, CallsInv, DeployCalls
  <2>6. DeployInv'
    BY <2>1, <2>2 DEF IInv, DeployInv, BuildInv, EnvInv
  <2>7. DeleteInv'
    BY <2>1, <2>2 DEF IInv, DeleteInv
  <2> QED
    BY <2>4, <2>5, <2>6, <2>7 DEF IInv
<1>2. CASE Step
  BY <1>2, StartStep, LookStep, WalkStep, UpsertEnvStep, CreateStep, PostStep,
     ScriptStep, AwaitStep, RemoveStep, VerifyStep DEF Step
<1>3. CASE Propagate
  BY <1>3, PropagateStep
<1>4. CASE Disturb
  BY <1>4, CutStep, OrderStep, DriftStep, LeaveStep DEF Disturb
<1>5. CASE \E call \in late : Land(call) \/ Lose(call)
  BY <1>5, LateStep
<1> QED
  BY <1>1, <1>2, <1>3, <1>4, <1>5 DEF Next

LEMMA InitStep == Init => IInv
<1> SUFFICES ASSUME Init PROVE IInv
  OBVIOUS
<1>1. Idle \in Operations /\ Idle.page = 1 /\ Idle.goal = "ensure" /\ Idle.pc = "idle"
  BY DEF Idle, Operations, Goals, Lives
<1>2. (op.page - 1) * PageSize <= Ahead + 1
  <2> DEFINE page == op.page
  <2>0. page = 1
    BY <1>1, Zenon DEF Init
  <2> HIDE DEF page
  <2>3. page - 1 = 0
    BY <2>0
  <2>1. op.page - 1 = 0
    BY <2>3 DEF page
  <2>2. 0 * PageSize = 0 /\ 0 <= Ahead + 1
    BY BoundsAreNat
  <2> QED
    BY <2>1, <2>2
<1>3. Nothing \in Clouds /\ Nothing = Gone(Nothing)
  <2> DEFINE ahead == IF kind = "deno" THEN Ahead ELSE 0
  <2>1. ahead \in 0 .. Ahead
    BY BoundsAreNat
  <2>2. Nothing = [exists |-> FALSE, env |-> Nobody, next |-> Nobody, live |-> Nobody,
                   open |-> FALSE, ahead |-> ahead]
    BY DEF Nothing
  <2> HIDE DEF ahead
  <2>3. Nothing \in Clouds
    BY <2>1, <2>2, NobodyWorks DEF Clouds
  <2>4. [Nothing EXCEPT !.ahead = Nothing.ahead] = Nothing
    BY <2>2
  <2> QED
    BY <2>3, <2>4 DEF Gone
<1>4. cloud \in Clouds /\ (~cloud.exists => cloud = Gone(cloud))
  <2> DEFINE m == Empty(Nothing)
  <2>1. m \in Clouds /\ m.exists
    BY <1>3, EmptyFields
  <2> HIDE DEF m
  <2>2. CASE cloud = Nothing
    BY <1>3, <2>2
  <2>3. ASSUME NEW w \in Workers,
               cloud = [m EXCEPT !.env = IF kind = "vercel" THEN w ELSE Nobody,
                                 !.live = w, !.open = kind = "cloudflare"]
        PROVE  cloud \in Clouds /\ cloud.exists
    <3> DEFINE env == IF kind = "vercel" THEN w ELSE Nobody
               open == kind = "cloudflare"
    <3>1. env \in Values /\ w \in Values /\ open \in BOOLEAN
      BY NobodyWorks
    <3>2. cloud = [m EXCEPT !.env = env, !.live = w, !.open = open]
      BY <2>3
    <3> HIDE DEF env, open
    <3> QED
      BY <2>1, <3>1, <3>2 DEF Clouds
  <2> QED
    BY <2>2, <2>3 DEF Init, m
<1>5. TypeOK
  <2>1. upsets \in 0 .. MaxUpsets
    <3>1. 0 \in 0 .. MaxUpsets
      BY BoundsAreNat
    <3> QED
      BY <3>1, Zenon DEF Init
  <2>2. op \in Operations
    BY <1>1 DEF Init
  <2> QED
    BY <1>2, <1>4, <2>1, <2>2 DEF Init, TypeOK
<1> QED
  BY <1>1, <1>5 DEF Init, IInv, CallsInv, DeployInv, DeleteInv

-----------------------------------------------------------------------------
(* What follows for every behaviour. *)

\* Where an operation is, and what it has left so far, is as the invariant says
\* at every call, whatever fails, lands late or is changed by others.
THEOREM CallsAgree == Spec => []IInv
BY InitStep, NextStep, PTL DEF Spec

\* Every variable stays in range: no call is sent without a worker to deploy,
\* nothing of a project outlives it, and a walk ends (deno.go findProject).
THEOREM CallTyping == Spec => []TypeOK
<1>1. IInv => TypeOK
  BY DEF IInv
<1> QED
  BY <1>1, CallsAgree, PTL

\* What a deploy that fails has left.
LEMMA FailLeaves ==
  ASSUME IInv, op.goal = "deploy", op.clean,
         cloud.exists => cloud'.exists, cloud.open => cloud'.open,
         cloud'.live = cloud.live
  PROVE  Life(cloud', op.w) \in FailedDeploy(op.was)
<1>1. BuildInv /\ op.w \in Workers /\ op.was \in Lives
  <2>1. op.pc # "idle"
    BY KindsAreKnown DEF IInv, TypeOK, CallsInv, DeployCalls
  <2> QED
    BY <2>1 DEF IInv, TypeOK, Operations, DeployInv, CallsInv
<1>2. Answering(cloud) = op.w => Answering(cloud') = op.w /\ cloud'.exists
  BY <1>1, NobodyWorks DEF Answering
<1> QED
  BY <1>1, <1>2 DEF BuildInv, Life, Lives, FailedDeploy

\* How a deploy ends.
LEMMA DeployEnds ==
  ASSUME IInv, [Next]_vars, op.goal = "deploy", op'.goal # "deploy"
  PROVE  \/ AwaitLive
         \/ /\ op' = Idle
            /\ cloud.exists => cloud'.exists
            /\ cloud.open => cloud'.open
            /\ cloud'.live = cloud.live
<1>1. /\ op \in Operations /\ cloud \in Clouds /\ op.pc \in DeployCalls
      /\ kind \in {"vercel", "cloudflare", "deno"}
  BY KindsAreKnown DEF IInv, TypeOK, CallsInv
<1>2. op.pc \notin {"idle", "probe", "forward", "remove"}
  BY <1>1 DEF DeployCalls
<1>3. Goals = {"ensure", "deploy", "check", "delete"}
  BY DEF Goals
<1>4. \A pc : op' = [op EXCEPT !.pc = pc] => op'.goal = op.goal
  BY <1>1 DEF Operations
<1>5. Fail => op' = Idle
  BY DEF Fail, Over
<1>6. CASE Step
  <2>1. CASE UpsertEnv
    <3> DEFINE d == [cloud EXCEPT !.env[op.var] = op.w[op.var]]
    <3>1. cloud' = IF cloud.exists THEN d ELSE cloud
      BY <2>1, EffectCases DEF UpsertEnv, Do
    <3>2. op.w \in Workers /\ op.var \in {"ver", "key"}
      BY <1>1, <1>2 DEF IInv, CallsInv, Operations
    <3>3. d.exists = cloud.exists /\ d.open = cloud.open /\ d.live = cloud.live
      BY <1>1, <3>2, UpsertFields
    <3> HIDE DEF d
    <3>4. [op EXCEPT !.var = "key", !.again = FALSE].goal = op.goal
      BY <1>1 DEF Operations
    <3> QED
      BY <1>4, <1>5, <2>1, <3>1, <3>3, <3>4 DEF UpsertEnv, Goto
  <2>2. CASE CreateProject
    <3>1. cloud' = Empty(cloud)
      BY <2>2, EffectCases DEF CreateProject, Do
    <3>2. [op EXCEPT !.pc = "upsert", !.again = TRUE].goal = op.goal
      BY <1>1 DEF Operations
    <3> QED
      BY <1>1, <1>4, <1>5, <2>2, <3>1, <3>2, EmptyFields DEF CreateProject, Goto
  <2>3. CASE PostDeployment
    <3>1. Fail /\ kind = "deno" /\ ~cloud.exists
      BY <1>4, <2>3 DEF PostDeployment, Goto
    <3>2. cloud' = cloud
      BY <2>3, <3>1, EffectCases DEF PostDeployment, Do
    <3> QED
      BY <1>5, <3>1, <3>2
  <2>4. CASE EnableRoute
    <3>1. Fail /\ ~cloud.exists
      BY <1>4, <2>4 DEF EnableRoute, Goto
    <3>2. cloud' = Effect(cloud, Call("enable", op.w, op.var))
      BY <2>4 DEF EnableRoute, Do
    <3>3. cloud' = cloud
      BY <3>1, <3>2 DEF Effect, Call
    <3> QED
      BY <1>5, <3>1, <3>3
  <2>5. CASE PutScript \/ PollReady
    BY <1>4, <2>5 DEF PutScript, PollReady, Goto
  <2>6. CASE Walk
    <3>1. [op EXCEPT !.page = @ + 1].goal = op.goal
      BY <1>1 DEF Operations
    <3> QED
      BY <1>4, <2>6, <3>1 DEF Walk, Found, NotFound, Goto
  <2>7. CASE Look
    BY <1>1, <2>7 DEF Look, DeployCalls
  <2>8. CASE Deadline
    BY <1>5, <2>8 DEF Deadline, Ask
  <2>9. CASE StartEnsure \/ StartDelete \/ Remove \/ ProbeVersion \/ ForwardProbe
    BY <1>2, <2>9 DEF StartEnsure, StartDelete, Remove, ProbeVersion, ForwardProbe
  <2> QED
    BY <1>6, <2>1, <2>2, <2>3, <2>4, <2>5, <2>6, <2>7, <2>8, <2>9 DEF Step
<1>7. CASE Disturb
  <2>1. CASE CallFails \/ Restart
    BY <1>5, <2>1 DEF CallFails, Restart
  <2>2. CASE BuildFails
    BY <1>1, <1>5, <2>2 DEF BuildFails, Clouds
  <2>3. CASE RotateKey \/ Toggle \/ Drift \/ Leave
    <3>1. /\ [op EXCEPT !.void = op.pc # "idle"].goal = op.goal
          /\ [op EXCEPT !.clean = FALSE].goal = op.goal
          /\ [op EXCEPT !.clean = @ /\ op.pc # "find"].goal = op.goal
      BY <1>1 DEF Operations
    <3> QED
      BY <2>3, <3>1 DEF RotateKey, Toggle, Drift, Leave
  <2> QED
    BY <1>7, <2>1, <2>2, <2>3 DEF Disturb
<1>8. CASE UNCHANGED vars \/ Propagate \/ \E call \in late : Land(call) \/ Lose(call)
  <2>1. [op EXCEPT !.clean = FALSE].goal = op.goal
    BY <1>1 DEF Operations
  <2> QED
    BY <1>8, <2>1 DEF vars, Propagate, Land, Lose
<1> QED
  BY <1>6, <1>7, <1>8 DEF Next

\* A Deploy that nobody interferes with leaves what module Contract says, after
\* success and after a failure of any of its calls, whatever an earlier one left
\* behind (deploy.go Client; vercel.go, cloudflare.go, deno.go Deploy).
THEOREM DeploysKeepContract == Spec => DeployKeepsContract
<1>1. ASSUME IInv, [Next]_vars, op.goal = "deploy", op.clean, op'.goal # "deploy"
      PROVE  Life(cloud', op.w) \in IF op'.goal = "check" THEN AfterDeploy(op.was)
                                    ELSE FailedDeploy(op.was)
  <2>1. CASE AwaitLive
    <3>1. /\ Answering(cloud).ver = op.w.ver /\ cloud' = cloud /\ op'.goal = "check"
      BY <2>1, EnterFields DEF AwaitLive, Ask, Goals
    <3>2. BuildInv /\ op.w \in Workers /\ op.was \in Lives /\ cloud \in Clouds
      BY <1>1, <2>1 DEF AwaitLive, IInv, TypeOK, Operations, DeployInv, CallsInv
    <3>3. Nobody.ver # op.w.ver
      BY <3>2, NobodyWorks DEF Nobody
    <3>4. cloud.exists /\ Answering(cloud) = cloud.live /\ cloud.live # Nobody
      BY <3>1, <3>3 DEF Answering
    <3>5. op.was = "none" => Life(cloud, op.w) = "current"
      BY <3>2, <3>4 DEF BuildInv, Life
    <3>6. op.was = "current" => Life(cloud, op.w) = "current"
      BY <3>2, <3>4 DEF BuildInv, Life
    <3>7. Life(cloud, op.w) \in {"stale", "current"}
      BY <3>4 DEF Life
    <3> QED
      BY <3>1, <3>2, <3>5, <3>6, <3>7 DEF AfterDeploy, Lives
  <2>2. CASE /\ op' = Idle
             /\ cloud.exists => cloud'.exists
             /\ cloud.open => cloud'.open
             /\ cloud'.live = cloud.live
    <3>1. op'.goal # "check"
      BY <2>2 DEF Idle
    <3>2. Life(cloud', op.w) \in FailedDeploy(op.was)
      BY <1>1, <2>2, FailLeaves
    <3> QED
      BY <3>1, <3>2
  <2> QED
    BY <1>1, <2>1, <2>2, DeployEnds
<1>2. IInv /\ [Next]_vars =>
        [op.goal = "deploy" /\ op.clean /\ op'.goal # "deploy"
           => Life(cloud', op.w) \in IF op'.goal = "check" THEN AfterDeploy(op.was)
                                     ELSE FailedDeploy(op.was)]_vars
  BY <1>1
<1> QED
  BY <1>2, CallsAgree, PTL DEF Spec, DeployKeepsContract

\* A Delete that nobody interferes with leaves nothing when it answers success,
\* and nothing or what it found when a call fails; a walk of any length finds
\* the project of a list that nobody shortens meanwhile (deno.go findProject).
THEOREM DeletesKeepContract == Spec => DeleteKeepsContract
<1>1. ASSUME IInv, [Next]_vars, op.goal = "delete", op.clean, op'.goal # "delete"
      PROVE  Life(cloud', op.w) \in IF upsets' = upsets THEN AfterDelete
                                    ELSE FailedDelete(op.was)
  <2>1. /\ op \in Operations /\ cloud \in Clouds /\ upsets \in Nat /\ DeleteInv
        /\ op.pc = "remove" \/ (op.pc = "find" /\ kind = "deno")
    <3>1. op \in Operations /\ cloud \in Clouds /\ DeleteInv /\ CallsInv
      BY <1>1 DEF IInv, TypeOK
    <3>2. upsets \in 0 .. MaxUpsets
      BY <1>1 DEF IInv, TypeOK
    <3>3. op.pc = "remove" \/ (op.pc = "find" /\ kind = "deno")
      BY <1>1, <3>1 DEF CallsInv
    <3> QED
      BY <3>1, <3>2, <3>3, BoundsAreNat
  <2>2. cloud.next = Nobody /\ Life(cloud, op.w) = op.was
    BY <1>1, <2>1 DEF DeleteInv
  <2>3. \A pc : [op EXCEPT !.pc = pc].goal = op.goal
    BY <2>1 DEF Operations
  <2>4. CASE Remove
    <3>1. cloud' = Gone(cloud) /\ upsets' = upsets
      BY <2>4, EffectCases DEF Remove, Do
    <3> QED
      BY <3>1, GoneFields DEF Life, AfterDelete
  <2>5. CASE Walk
    <3>1. cloud' = cloud /\ upsets' = upsets /\ ~OnPage(op.page) /\ ~Full(op.page)
          /\ op.pc = "find"
      <4>1. [op EXCEPT !.page = @ + 1].goal = op.goal
        BY <2>1 DEF Operations
      <4> QED
        BY <1>1, <2>3, <2>5, <4>1 DEF Walk, Found, Goto, Ask
    <3>2. ~cloud.exists
      BY <1>1, <2>1, <3>1, WalkAhead DEF DeleteInv
    <3> QED
      BY <3>1, <3>2 DEF Life, AfterDelete
  <2>6. CASE CallFails \/ Restart
    <3>1. upsets' # upsets /\ cloud' = cloud
      BY <2>1, <2>6 DEF CallFails, Restart, Upset
    <3> QED
      BY <2>2, <3>1 DEF FailedDelete
  <2>7. CASE \/ BuildFails \/ RotateKey \/ Toggle \/ Drift \/ Leave \/ Propagate
             \/ UNCHANGED vars \/ \E call \in late : Land(call) \/ Lose(call)
    <3>1. /\ [op EXCEPT !.void = op.pc # "idle"].goal = op.goal
          /\ [op EXCEPT !.clean = FALSE].goal = op.goal
          /\ [op EXCEPT !.clean = @ /\ op.pc # "find"].goal = op.goal
      BY <2>1 DEF Operations
    <3> QED
      BY <1>1, <2>1, <2>7, <3>1
         DEF BuildFails, RotateKey, Toggle, Drift, Leave, Propagate, vars, Land, Lose
  <2>8. CASE \/ StartEnsure \/ StartDelete \/ Look \/ UpsertEnv \/ CreateProject
             \/ PostDeployment \/ PutScript \/ EnableRoute \/ PollReady \/ AwaitLive
             \/ Deadline \/ ProbeVersion \/ ForwardProbe
    BY <2>1, <2>8
       DEF StartEnsure, StartDelete, Look, UpsertEnv, CreateProject, PostDeployment,
           PutScript, EnableRoute, PollReady, AwaitLive, Deadline, ProbeVersion,
           ForwardProbe
  <2> QED
    BY <1>1, <2>4, <2>5, <2>6, <2>7, <2>8 DEF Next, Step, Disturb
<1>2. IInv /\ [Next]_vars =>
        [op.goal = "delete" /\ op.clean /\ op'.goal # "delete"
           => Life(cloud', op.w) \in IF upsets' = upsets THEN AfterDelete
                                     ELSE FailedDelete(op.was)]_vars
  BY <1>1
<1> QED
  BY <1>2, CallsAgree, PTL DEF Spec, DeleteKeepsContract
=============================================================================
