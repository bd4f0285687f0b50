------------------------------ MODULE DataPlane ------------------------------
(***************************************************************************)
(* The data plane: the attempt loop every inbound request runs             *)
(* (src/internal/gateway/gateway.go relay), the serving generation it      *)
(* picks from (src/internal/pool/pool.go), the runtime health that         *)
(* outlives generations (src/internal/pool/runtime.go), and the applier    *)
(* that rebuilds and swaps generations under the requests                  *)
(* (src/cmd/http-relay-gateway/main.go buildState).                        *)
(*                                                                         *)
(* What reaches the applier (admissions, desired identities, settings) is  *)
(* arbitrary here; module Fleet says where it comes from.  RelayState      *)
(* objects are numbered per identity, because a request keeps the pointer  *)
(* it picked with after the runtime map has dropped it.                    *)
(***************************************************************************)
EXTENDS Integers, Sequences, FiniteSets, SequencesExt

CONSTANTS
  Roster,        \* the relay identities in pool order (sorted by key)
  ProviderOf(_), \* the provider of an identity
  MaxBody(_),    \* the body limit of a provider
  Endpoints,     \* scope, URL and relay key an identity can be verified for
  NoEndpoint,
  EndpointsOf(_),\* the endpoints an identity can be verified for
  Requests,      \* concurrent inbound requests
  Sizes,         \* body sizes
  Pins,          \* the selectors requests ask for: "all" or a provider
  SettingsChoices,       \* the settings a generation can be built with
  MaxObjects(_)  \* bound: RelayState objects made for an identity

Ids == ToSet(Roster)
Selectors == {"all"} \cup {ProviderOf(i) : i \in Ids}

ASSUME RosterIsOrder == Roster \in Seq(Ids) /\ IsInjective(Roster)
ASSUME NoEndpointIsNone == NoEndpoint \notin Endpoints
ASSUME PinsAreSelectors == Pins \subseteq Selectors
ASSUME ChoicesAreSettings ==
  SettingsChoices \subseteq [retries: Nat, stream: Nat, threshold: Nat \ {0}, cooldown: Nat]
ASSUME EndpointsAreEndpoints == \A i \in Ids : EndpointsOf(i) \subseteq Endpoints
ASSUME MaxObjectsIsNat == \A i \in Ids : MaxObjects(i) \in Nat

VARIABLES
  gen,      \* the serving State: settings, and per identity [ep, obj]
  next,     \* the State the applier has built and not swapped in yet
  entries,  \* RuntimeState.entries: the object of each identity and endpoint
  owner,    \* RuntimeState.owners
  cursor,   \* RuntimeState.rr
  heap,     \* the RelayState objects
  made,     \* objects made so far, per identity
  wanted,   \* the desired identities of the rebuild under way
  inflight, \* the per-identity request counters
  req       \* the local variables of each request

runtime == <<entries, owner, made, wanted>>
vars == <<gen, next, runtime, cursor, heap, inflight, req>>

NotServing == [ep |-> NoEndpoint, obj |-> 0]
Healthy == [fails |-> 0, down |-> 0]
NoState == [built |-> FALSE, set |-> CHOOSE c \in SettingsChoices : TRUE,
            relay |-> [i \in Ids |-> NotServing]]

(***************************************************************************)
(* pc  idle   between requests       begun registered: the size check, then *)
(*     entry  the pin is accepted          the upstream round trip          *)
(*     pick   at the top of the loop copy  headers sent, body being copied  *)
(*                                   done  answered                         *)
(***************************************************************************)
NoRequest == [pc |-> "idle", key |-> "all", size |-> 0, streaming |-> FALSE,
              attempts |-> 0, skipped |-> 0, id |-> Roster[1], ep |-> NoEndpoint,
              obj |-> 0, set |-> NoState.set, said |-> 0]

Init ==
  /\ \E c \in SettingsChoices : gen = [NoState EXCEPT !.built = TRUE, !.set = c]
  /\ next = NoState
  /\ entries = [i \in Ids |-> [e \in Endpoints |-> 0]]
  /\ owner = [i \in Ids |-> NoEndpoint]
  /\ cursor = [s \in Selectors |-> 0]
  /\ heap = [i \in Ids |-> [o \in 1 .. MaxObjects(i) |-> Healthy]]
  /\ made = [i \in Ids |-> 0]
  /\ wanted = {}
  /\ inflight = [i \in Ids |-> 0]
  /\ req = [r \in Requests |-> NoRequest]

-----------------------------------------------------------------------------
(* The applier. *)

InPool(g, i) == g.relay[i].ep # NoEndpoint

\* Mutant: a rebuild keeps the health of what serves now, and no other.
PrunedEntries_NotServing(desired) ==
  [i \in Ids |-> IF i \in desired /\ InPool(gen, i) THEN entries[i]
                 ELSE [e \in Endpoints |-> 0]]

\* Prune: identities out of the desired state lose entries and ownership,
\* selectors that can no longer occur lose their cursor.
PrunedEntries(desired) ==
  [i \in Ids |-> IF i \in desired THEN entries[i] ELSE [e \in Endpoints |-> 0]]

PrunedOwner(desired) ==
  [i \in Ids |-> IF i \in desired THEN owner[i] ELSE NoEndpoint]

PrunedCursor(desired) ==
  [s \in Selectors |->
     IF s = "all" \/ \E i \in desired : ProviderOf(i) = s THEN cursor[s] ELSE 0]

\* Mutant: the old endpoint's object survives.
Attach_KeepsPrevious(held, prev, ep, count) ==
  IF held[ep] # 0 THEN held ELSE [held EXCEPT ![ep] = count + 1]

\* Mutant: the identity's object moves with it to the new endpoint.
Attach_Rehomes(held, prev, ep, count) ==
  IF held[ep] # 0 THEN held
  ELSE [e \in Endpoints |->
          IF e # ep THEN 0
          ELSE IF prev # NoEndpoint THEN held[prev] ELSE count + 1]

\* Attach: an identity that moved to another endpoint drops the old one's
\* object; a first sight of an endpoint makes a new object.
Attach(held, prev, ep, count) ==
  LET kept == IF prev \notin {NoEndpoint, ep} THEN [held EXCEPT ![prev] = 0]
              ELSE held
  IN  IF kept[ep] # 0 THEN kept ELSE [kept EXCEPT ![ep] = count + 1]

\* buildState up to the Swap: prune, attach the serving relays.
Rebuild ==
  /\ ~next.built
  /\ \E serving \in [Ids -> Endpoints \cup {NoEndpoint}],
        desired \in SUBSET Ids, c \in SettingsChoices :
       /\ \A i \in Ids : serving[i] \in EndpointsOf(i) \cup {NoEndpoint}
       /\ LET kept == PrunedEntries(desired)
              own  == PrunedOwner(desired)
              in   == {i \in Ids : serving[i] # NoEndpoint}
              now  == [i \in Ids |-> IF i \in in
                                     THEN Attach(kept[i], own[i], serving[i], made[i])
                                     ELSE kept[i]]
          IN  /\ entries' = now
              /\ owner' = [i \in Ids |-> IF i \in in THEN serving[i] ELSE own[i]]
              /\ made' = [i \in Ids |->
                            IF i \in in /\ kept[i][serving[i]] = 0
                            THEN made[i] + 1 ELSE made[i]]
              /\ \A i \in Ids : made'[i] <= MaxObjects(i)
              /\ cursor' = PrunedCursor(desired)
              /\ wanted' = desired
              /\ next' = [built |-> TRUE, set |-> c,
                          relay |-> [i \in Ids |->
                                       IF i \in in
                                       THEN [ep |-> serving[i], obj |-> now[i][serving[i]]]
                                       ELSE NotServing]]
  /\ UNCHANGED <<gen, heap, inflight, req>>

Swap ==
  /\ next.built
  /\ gen' = next
  /\ next' = NoState
  /\ wanted' = {}
  /\ UNCHANGED <<entries, owner, made, cursor, heap, inflight, req>>

-----------------------------------------------------------------------------
(* One request. *)

\* The largest limit of the generation's providers.
BufferCap(g) ==
  LET limits == {MaxBody(ProviderOf(i)) : i \in {j \in Ids : InPool(g, j)}} \cup {0}
  IN  CHOOSE m \in limits : \A n \in limits : n <= m

Answer(r, status) ==
  req' = [req EXCEPT ![r] = [NoRequest EXCEPT !.pc = "done", !.said = status]]

\* parseProvider / headerProvider: a pin is known when a relay of its provider
\* serves; while nothing serves every pin passes, and is answered 503 later.
KnownPin(key) == \/ key = "all"
                 \/ \E i \in Ids : InPool(gen, i) /\ ProviderOf(i) = key
                 \/ \A i \in Ids : ~InPool(gen, i)

\* An unknown pin is refused.
Route(r) ==
  /\ req[r].pc = "idle"
  /\ \E key \in Pins, size \in Sizes :
       LET fresh == [NoRequest EXCEPT !.key = key, !.size = size]
       IN  req' = [req EXCEPT ![r] =
                     IF KnownPin(key) THEN [fresh EXCEPT !.pc = "entry"]
                     ELSE [fresh EXCEPT !.pc = "done", !.said = 404]]
  /\ UNCHANGED <<gen, next, runtime, cursor, heap, inflight>>

\* The zero-ready short circuit and the body acquisition, on the entry
\* snapshot: refused, buffered whole, or streamed; 400 when the body breaks.
Enter(r) ==
  LET streaming == gen.set.stream > 0 /\ req[r].size > gen.set.stream
      empty     == \A i \in Ids : ~InPool(gen, i)
      tooLarge  == gen.set.stream = 0 /\ req[r].size > BufferCap(gen)
  IN  /\ req[r].pc = "entry"
      /\ \/ empty /\ Answer(r, 503)
         \/ ~empty /\ tooLarge /\ Answer(r, 413)
         \/ ~empty /\ ~tooLarge
            /\ req' = [req EXCEPT ![r].pc = "pick", ![r].streaming = streaming]
         \/ ~empty /\ Answer(r, 400)
      /\ UNCHANGED <<gen, next, runtime, cursor, heap, inflight>>

\* Pick's candidates for a selector, and the one its cursor points at.
Up(g, i) == heap[i][g.relay[i].obj].down = 0

Candidates(g, key) == {i \in Ids : InPool(g, i) /\ key \in {"all", ProviderOf(i)}}

\* Mutant: cooldowns are not looked at.
Usable_IgnoresHealth(g, key) == Candidates(g, key)

Usable(g, key) ==
  LET up == {i \in Candidates(g, key) : Up(g, i)}
  IN  IF up = {} THEN Candidates(g, key) ELSE up

\* The index of a relay in the list Pick has built, which keeps pool order.
Earlier(i, j) == \E m, n \in DOMAIN Roster : m < n /\ Roster[m] = i /\ Roster[n] = j

Index(use, id) == Cardinality({i \in use : Earlier(i, id)})

\* Mutant: max_retries counts the first attempt out once too often.
AttemptBudget_OneMore(g, r) == IF req[r].streaming THEN 1 ELSE g.set.retries + 2

\* The attempts a request may make under generation g.
AttemptBudget(g, r) == IF req[r].streaming THEN 1 ELSE g.set.retries + 1

\* Mutant: a generation that is built and not swapped in is picked from.
Bound_Unswapped(r) == IF next.built THEN next ELSE gen

\* The generation a pass through the loop binds to: the one serving now.
Bound(r) == gen

\* The pass ends the loop: attempts spent, or nothing to pick.
GiveUp(r) ==
  /\ req[r].pc = "pick"
  /\ \/ /\ req[r].attempts >= AttemptBudget(Bound(r), r)
        /\ Answer(r, IF req[r].skipped = req[r].attempts THEN 413 ELSE 502)
     \/ /\ req[r].attempts < AttemptBudget(Bound(r), r)
        /\ Candidates(Bound(r), req[r].key) = {}
        /\ Answer(r, 503)
  /\ UNCHANGED <<gen, next, runtime, cursor, heap, inflight>>

\* CursorFor: whose turn it is among n candidates.
Turn(key, n) == cursor[key] % n

\* What the attempt keeps of the generation it has bound to.
Begun(r, g, id) ==
  [req[r] EXCEPT !.pc = "begun", !.attempts = @ + 1, !.id = id,
                 !.ep = g.relay[id].ep, !.obj = g.relay[id].obj, !.set = g.set]

\* Pick and begin, under the mutex that guards the swap.
Pick(r) ==
  LET g   == Bound(r)
      key == req[r].key
      use == Usable(g, key)
      at  == Turn(key, Cardinality(use))
  IN  /\ req[r].pc = "pick"
      /\ req[r].attempts < AttemptBudget(g, r)
      /\ use # {}
      /\ cursor' = [cursor EXCEPT ![key] = at + 1]
      /\ \E id \in use : /\ Index(use, id) = at
                         /\ inflight' = [inflight EXCEPT ![id] = @ + 1]
                         /\ req' = [req EXCEPT ![r] = Begun(r, g, id)]
      /\ UNCHANGED <<gen, next, runtime, heap>>

Ended(r) == inflight' = [inflight EXCEPT ![req[r].id] = @ - 1]

\* The next pass: nothing of the generation the last one was bound to.
Again(r) == [req[r] EXCEPT !.pc = "pick", !.id = NoRequest.id, !.ep = NoEndpoint,
                           !.obj = 0, !.set = NoRequest.set]

\* A buffered body is held to the picked provider's limit.
Fits(r) == req[r].streaming \/ req[r].size <= MaxBody(ProviderOf(req[r].id))

\* Mutant: a skip gives its attempt back.
Skipped_Free(r) == [Again(r) EXCEPT !.attempts = @ - 1, !.skipped = 1]

\* A skip has cost an attempt like any other.
Skipped(r) == [Again(r) EXCEPT !.skipped = @ + 1]

\* Mutant: the skip goes on to the next relay without its end.
Skip_NoEnd(r) ==
  /\ req[r].pc = "begun"
  /\ ~Fits(r)
  /\ req' = [req EXCEPT ![r] = Skipped(r)]
  /\ UNCHANGED <<gen, next, runtime, cursor, heap, inflight>>

\* The size check, after the mutex is released: a relay too small is ended
\* and passed over.
Skip(r) ==
  /\ req[r].pc = "begun"
  /\ ~Fits(r)
  /\ Ended(r)
  /\ req' = [req EXCEPT ![r] = Skipped(r)]
  /\ UNCHANGED <<gen, next, runtime, cursor, heap>>

\* RecordFailure under the policy of the generation the attempt bound to.
Hit(h, set) ==
  IF h.fails + 1 >= set.threshold
  THEN [fails |-> 0, down |-> set.cooldown]
  ELSE [h EXCEPT !.fails = @ + 1]

Recorded(r, h) == heap' = [heap EXCEPT ![req[r].id][req[r].obj] = h]

Blame(r) == Recorded(r, Hit(heap[req[r].id][req[r].obj], req[r].set))

Praise(r) == Recorded(r, Healthy)

\* Mutant: the attempt is ended when its headers arrive, and after the copy.
Trip_EndsAtHeaders(r) ==
  /\ req[r].pc = "begun"
  /\ Fits(r)
  /\ Ended(r)
  /\ \/ req' = [req EXCEPT ![r].pc = "copy"] /\ UNCHANGED heap
     \/ Answer(r, 499) /\ UNCHANGED heap
     \/ /\ Blame(r)
        /\ IF req[r].streaming THEN Answer(r, 502)
           ELSE req' = [req EXCEPT ![r] = Again(r)]
  /\ UNCHANGED <<gen, next, runtime, cursor>>

\* The round trip: response headers, a dead client, or a transport failure,
\* after which a buffered body is tried again.
Trip(r) ==
  /\ req[r].pc = "begun"
  /\ Fits(r)
  /\ \/ /\ req' = [req EXCEPT ![r].pc = "copy"]
        /\ UNCHANGED <<heap, inflight>>
     \/ Ended(r) /\ Answer(r, 499) /\ UNCHANGED heap
     \/ /\ Ended(r) /\ Blame(r)
        /\ IF req[r].streaming THEN Answer(r, 502)
           ELSE req' = [req EXCEPT ![r] = Again(r)]
  /\ UNCHANGED <<gen, next, runtime, cursor>>

\* The body copy: completed, abandoned by the client, or broken mid-stream.
Copy(r) ==
  /\ req[r].pc = "copy"
  /\ Ended(r)
  /\ Answer(r, 200)
  /\ Praise(r) \/ UNCHANGED heap \/ Blame(r)
  /\ UNCHANGED <<gen, next, runtime, cursor>>

Leave(r) ==
  /\ req[r].pc = "done"
  /\ req' = [req EXCEPT ![r] = NoRequest]
  /\ UNCHANGED <<gen, next, runtime, cursor, heap, inflight>>

\* Cooldowns run out.
Elapse ==
  /\ heap' = [i \in Ids |-> [o \in 1 .. MaxObjects(i) |->
                [heap[i][o] EXCEPT !.down = IF @ > 0 THEN @ - 1 ELSE 0]]]
  /\ UNCHANGED <<gen, next, runtime, cursor, inflight, req>>

Serve(r) == Enter(r) \/ Pick(r) \/ GiveUp(r) \/ Skip(r) \/ Trip(r) \/ Copy(r)

Next == \/ Rebuild \/ Swap \/ Elapse
        \/ \E r \in Requests : Route(r) \/ Serve(r) \/ Leave(r)

Spec == Init /\ [][Next]_vars /\ \A r \in Requests : WF_vars(Serve(r))

-----------------------------------------------------------------------------
(* Properties. *)

\* Between its begin and its end.
Registered(r) == req[r].pc \in {"begun", "copy"}

\* The values a generation and the locals of a request take.
Serving == [ep: Endpoints \cup {NoEndpoint}, obj: Nat]

Generation == [built: BOOLEAN, set: SettingsChoices, relay: [Ids -> Serving]]

Locals == [pc: {"idle", "entry", "pick", "begun", "copy", "done"}, key: Selectors,
           size: Sizes \cup {0}, streaming: BOOLEAN, attempts: Nat, skipped: Nat,
           id: Ids \cup {NoRequest.id}, ep: Endpoints \cup {NoEndpoint}, obj: Nat,
           set: SettingsChoices, said: Nat]

\* Every variable stays in its declared range.
TypeOK ==
  /\ gen \in Generation /\ next \in Generation
  /\ entries \in [Ids -> [Endpoints -> Nat]]
  /\ owner \in [Ids -> Endpoints \cup {NoEndpoint}]
  /\ cursor \in [Selectors -> 0 .. Len(Roster)]
  /\ DOMAIN heap = Ids
  /\ \A i \in Ids : heap[i] \in [1 .. MaxObjects(i) -> [fails: Nat, down: Nat]]
  /\ made \in [Ids -> Nat]
  /\ wanted \subseteq Ids
  /\ inflight \in [Ids -> Nat]
  /\ req \in [Requests -> Locals]

\* The counter AwaitIdle reads is the number of requests between a begin and
\* its end: every way on from a begin, the size skip included, ends it exactly
\* once, on the relay it began on (gateway.go inflight.begin, inflight.end).
InflightExact ==
  \A i \in Ids : inflight[i] = Cardinality({r \in Requests : Registered(r) /\ req[r].id = i})

\* The drain can trust the counter: the loop implements module Traffic, where
\* an attempt starts only on what the serving pool holds at that moment,
\* whatever its request saw at entry, and a drained relay stays drained
\* (gateway.go Swap, relay: pick and begin under g.mu).
Wire == INSTANCE Traffic WITH
          pool <- [i \in Ids |-> gen.relay[i].ep],
          busy <- [i \in Ids |-> {req[r].ep : r \in {q \in Requests :
                                                      Registered(q) /\ req[q].id = i}}]

ImplementsTraffic == Wire!Spec

\* An attempt never goes to a cooled relay while a healthy one of the same
\* selector serves (pool.go Pick).
CooledIsLastResort ==
  [][\A r \in Requests :
       Registered(r)' /\ ~Registered(r) /\ heap[req'[r].id][req'[r].obj].down > 0
       => \A i \in Ids : InPool(gen, i) /\ (req[r].key \in {"all", ProviderOf(i)})
                           => ~Up(gen, i)]_vars

\* A body is never sent twice unless it is buffered, and no settings churn
\* lifts a request beyond the largest budget (gateway.go, attemptsMade).
AttemptsBounded ==
  \A r \in Requests :
    /\ \E c \in SettingsChoices : req[r].attempts <= c.retries + 1
    /\ req[r].streaming => req[r].attempts <= 1

\* Runtime health belongs to the endpoint: as long as an identity is desired
\* and its endpoint has not moved, rebuilds hand out the same object, also
\* across generations it was not serving in (runtime.go Attach, Prune).
HealthFollowsEndpoint ==
  [][\A i \in wanted' : owner[i] # NoEndpoint /\ owner'[i] = owner[i]
       => entries'[i][owner[i]] = entries[i][owner[i]]]_vars

\* A serving relay works on the object the runtime map holds for it, and an
\* identity has at most one (runtime.go owners).
OneLiveObject ==
  /\ \A i \in Ids, e \in Endpoints : entries[i][e] # 0 => e = owner[i]
  /\ ~next.built => \A i \in Ids : InPool(gen, i) =>
       entries[i][gen.relay[i].ep] = gen.relay[i].obj

\* A verdict that comes late says nothing of another endpoint: the object an
\* attempt was bound to is never the one its relay works on elsewhere, however
\* often it moves while the attempt runs (runtime.go Attach, RuntimeKey).
HealthIsItsOwn ==
  \A r \in Requests : Registered(r) =>
    \A e \in Endpoints : entries[req[r].id][e] = req[r].obj => e = req[r].ep

\* Every request that entered the loop is answered, however often the
\* generation is swapped under it (gateway.go, the budget comment).
EveryRequestAnswered ==
  \A r \in Requests : req[r].pc = "entry" ~> req[r].pc = "done"

\* "413 is returned only when the pin leaves no accepting provider or the
\* body exceeds every provider limit" (README.md, Body limits).
RefusedOnlyWhenNoneAccepts ==
  [][\A r \in Requests : req[r].pc = "pick" /\ req'[r].said = 413
       => \A i \in Ids : InPool(gen, i) /\ (req[r].key \in {"all", ProviderOf(i)})
                           => req[r].size > MaxBody(ProviderOf(i))]_vars
=============================================================================
