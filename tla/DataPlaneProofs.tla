--------------------------- MODULE DataPlaneProofs ---------------------------
(***************************************************************************)
(* What TLAPS proves of module DataPlane, for every roster, any number of  *)
(* concurrent requests and every choice of limits and settings.  The       *)
(* invariant is built in parts: the types with the numbering of the        *)
(* RelayState objects (TypeInv), the bookkeeping of the runtime map        *)
(* (RuntimeInv), and what a request holds (RequestInv).                    *)
(***************************************************************************)
EXTENDS DataPlane, FiniteSetTheorems, TLAPS

-----------------------------------------------------------------------------
(* Lemmas about the operators. *)

\* A list of relays is no longer than the roster (pool.go newPool).
LEMMA RosterBounds ==
  /\ IsFiniteSet(Ids)
  /\ \A use \in SUBSET Ids : Cardinality(use) \in Nat /\ Cardinality(use) <= Len(Roster)
<1>0. Roster \in Seq(Ids) /\ Len(Roster) \in Nat BY RosterIsOrder
<1>1. IsFiniteSet(1 .. Len(Roster)) /\ Cardinality(1 .. Len(Roster)) = Len(Roster)
  <2> DEFINE n == Len(Roster)
  <2> HIDE DEF n
  <2>1. n \in Nat BY <1>0 DEF n
  <2>2. IsFiniteSet(1 .. n) /\ Cardinality(1 .. n) = n
    BY <2>1, FS_Interval
  <2> QED BY <2>2 DEF n
<1>2. \A x \in Ids : \E n \in 1 .. Len(Roster) : Roster[n] = x
  BY <1>0 DEF Ids, ToSet
<1>3. Roster \in Surjection(1 .. Len(Roster), Ids)
  BY <1>0, <1>2 DEF Surjection
<1>4. IsFiniteSet(Ids) /\ Cardinality(Ids) <= Len(Roster)
  BY <1>1, <1>3, FS_Surjection
<1>5. Cardinality(Ids) \in Nat BY <1>4, FS_CardinalityType
<1>6. ASSUME NEW use \in SUBSET Ids
      PROVE  Cardinality(use) \in Nat /\ Cardinality(use) <= Len(Roster)
  <2>1. IsFiniteSet(use) /\ Cardinality(use) <= Cardinality(Ids)
    BY <1>4, FS_Subset
  <2>2. Cardinality(use) \in Nat BY <2>1, FS_CardinalityType
  <2> QED BY <2>1, <2>2, <1>0, <1>4, <1>5
<1> QED BY <1>4, <1>6

\* The cursor a pick leaves behind stays within the list it rotated over
\* (runtime.go CursorFor).
LEMMA TurnBounds ==
  ASSUME NEW key \in Selectors, cursor[key] \in Nat,
         NEW use \in SUBSET Ids, use # {}
  PROVE  Turn(key, Cardinality(use)) + 1 \in 0 .. Len(Roster)
<1> DEFINE n == Cardinality(use)
<1>1. n \in Nat /\ n <= Len(Roster) /\ IsFiniteSet(use)
  BY RosterBounds, FS_Subset
<1>2. n # 0 BY <1>1, FS_EmptySet
<1>3. Len(Roster) \in Nat BY RosterIsOrder
<1>4. n \in Nat \ {0} BY <1>1, <1>2
<1> HIDE DEF n
<1>5. cursor[key] % n \in 0 .. n - 1 BY <1>4
<1>6. Turn(key, n) = cursor[key] % n BY DEF Turn
<1>7. Turn(key, n) + 1 \in 0 .. Len(Roster) BY <1>1, <1>3, <1>4, <1>5, <1>6
<1> QED BY <1>7 DEF n

\* What Pick picks from serves, and carries the selector (pool.go Pick).
LEMMA UsableServe ==
  ASSUME NEW g, NEW key
  PROVE  /\ Usable(g, key) \subseteq Candidates(g, key)
         /\ Candidates(g, key) \subseteq Ids
         /\ \A i \in Usable(g, key) : i \in Ids /\ InPool(g, i)
BY DEF Usable, Candidates

\* Attach drops the object of the endpoint the identity has left
\* (runtime.go Attach).
LEMMA AttachDrops ==
  ASSUME NEW held \in [Endpoints -> Nat], NEW prev, NEW ep \in Endpoints, NEW count \in Nat,
         NEW now, now = Attach(held, prev, ep, count)
  PROVE  /\ now \in [Endpoints -> Nat]
         /\ prev \in Endpoints \ {ep} => now[prev] = 0
<1> DEFINE kept == IF prev \notin {NoEndpoint, ep} THEN [held EXCEPT ![prev] = 0] ELSE held
<1>1. now = IF kept[ep] # 0 THEN kept ELSE [kept EXCEPT ![ep] = count + 1]
  BY DEF Attach
<1>2. /\ kept \in [Endpoints -> Nat]
      /\ prev \in Endpoints \ {ep} => kept[prev] = 0
  BY NoEndpointIsNone
<1> HIDE DEF kept
<1> QED BY <1>1, <1>2

\* Attach hands out the object the map holds, or makes the next one
\* (runtime.go Attach).
LEMMA AttachGives ==
  ASSUME NEW held \in [Endpoints -> Nat], NEW prev, NEW ep \in Endpoints, NEW count \in Nat,
         NEW now, now = Attach(held, prev, ep, count)
  PROVE  now[ep] = IF held[ep] # 0 THEN held[ep] ELSE count + 1
BY NoEndpointIsNone DEF Attach

\* The values a request and a generation start from.
LEMMA Blanks ==
  ASSUME SettingsChoices # {}
  PROVE  /\ NoRequest \in Locals
         /\ NoState \in Generation
         /\ \A i \in Ids : ~InPool(NoState, i)
<1>1. "all" \in Selectors BY DEF Selectors
<1>2. NoState.set \in SettingsChoices BY DEF NoState
<1>3. NotServing \in Serving BY DEF NotServing, Serving
<1>4. NoState \in Generation BY <1>2, <1>3 DEF NoState, Generation
<1>5. NoRequest.id = Roster[1] /\ NoRequest.id \in Ids \cup {NoRequest.id} BY DEF NoRequest
<1>6. NoRequest \in Locals BY <1>1, <1>2, <1>5 DEF NoRequest, Locals
<1>7. \A i \in Ids : ~InPool(NoState, i) BY DEF InPool, NoState, NotServing
<1> QED BY <1>4, <1>6, <1>7

-----------------------------------------------------------------------------
(* What a step does to one request, in the terms the invariants need.      *)

\* The objects are numbered as they are made, and what serves, what is built
\* and what is on the wire holds an object that was made (runtime.go Attach).
ObjectsInv ==
  /\ \A i \in Ids : made[i] <= MaxObjects(i)
  /\ \A i \in Ids, e \in Endpoints : entries[i][e] <= made[i]
  /\ \A i \in Ids : InPool(gen, i) => gen.relay[i].obj \in 1 .. made[i]
  /\ \A i \in Ids : InPool(next, i) => next.relay[i].obj \in 1 .. made[i]
  /\ \A r \in Requests : Registered(r) => /\ req[r].id \in Ids
                                      /\ req[r].obj \in 1 .. made[req[r].id]

TypeInv == TypeOK /\ ObjectsInv

\* No other request moves.
Alone(r) == /\ req' \in [Requests -> Locals]
            /\ \A q \in Requests : q # r => req'[q] = req[q]

\* The request leaves its loop, or has not entered it: nothing is spent.
Fresh(r) == req'[r].attempts = 0 /\ req'[r].streaming = FALSE

\* The request stays off the wire.
Waits(r) ==
  /\ ~Registered(r) /\ ~Registered(r)' /\ UNCHANGED <<heap, inflight>>
  /\ \/ Fresh(r)
     \/ req[r].pc = "entry" /\ req'[r].pc = "pick" /\ req'[r].attempts = req[r].attempts

\* The request begins an attempt on a relay of the serving pool.
Starts(r) ==
  /\ req[r].pc = "pick" /\ req'[r].pc = "begun" /\ UNCHANGED heap
  /\ req[r].attempts < AttemptBudget(gen, r)
  /\ req'[r].attempts = req[r].attempts + 1
  /\ req'[r].streaming = req[r].streaming
  /\ LET id == req'[r].id
     IN  /\ id \in Usable(gen, req[r].key)
         /\ req'[r].ep = gen.relay[id].ep /\ req'[r].obj = gen.relay[id].obj
         /\ inflight' = [inflight EXCEPT ![id] = @ + 1]

\* The attempt goes on.
Carries(r) ==
  /\ req[r].pc = "begun" /\ req'[r].pc = "copy" /\ UNCHANGED <<heap, inflight>>
  /\ \A f \in {"attempts", "streaming", "id", "ep", "obj"} : req'[r][f] = req[r][f]

\* The attempt ends, with a verdict on its relay or without one.
Ends(r) ==
  /\ Registered(r) /\ ~Registered(r)' /\ Ended(r)
  /\ Praise(r) \/ Blame(r) \/ UNCHANGED heap
  /\ \/ Fresh(r)
     \/ /\ req'[r].pc = "pick" /\ req'[r].attempts = req[r].attempts
        /\ req'[r].streaming = FALSE

Moves(r) == Alone(r) /\ (Waits(r) \/ Starts(r) \/ Carries(r) \/ Ends(r))

\* Every answer of the loop leaves it (gateway.go relay).
LEMMA AnswerEffects ==
  ASSUME TypeOK, NEW r \in Requests, NEW status \in Nat, Answer(r, status)
  PROVE  Alone(r) /\ Fresh(r) /\ req'[r].pc = "done"
<1> DEFINE rec == [NoRequest EXCEPT !.pc = "done", !.said = status]
<1>1. NoRequest \in Locals BY Blanks DEF TypeOK, Generation
<1>2. rec \in Locals BY <1>1 DEF Locals
<1>3. rec.pc = "done" /\ rec.attempts = 0 /\ rec.streaming = FALSE BY DEF NoRequest
<1>4. req' = [req EXCEPT ![r] = rec] BY DEF Answer
<1>5. req \in [Requests -> Locals] BY DEF TypeOK
<1> HIDE DEF rec
<1> QED BY <1>2, <1>3, <1>4, <1>5 DEF Alone, Fresh

\* A request is routed, or refused for its pin (gateway.go handleRelay).
LEMMA RouteEffects ==
  ASSUME TypeOK, NEW r \in Requests, Route(r)
  PROVE  Moves(r)
<1>1. PICK key \in Pins, size \in Sizes :
        req' = [req EXCEPT ![r] =
          IF KnownPin(key)
          THEN [[NoRequest EXCEPT !.key = key, !.size = size] EXCEPT !.pc = "entry"]
          ELSE [[NoRequest EXCEPT !.key = key, !.size = size]
                  EXCEPT !.pc = "done", !.said = 404]]
  BY DEF Route
<1> DEFINE fresh == [NoRequest EXCEPT !.key = key, !.size = size]
           rec == IF KnownPin(key) THEN [fresh EXCEPT !.pc = "entry"]
                  ELSE [fresh EXCEPT !.pc = "done", !.said = 404]
<1>2. NoRequest \in Locals BY Blanks DEF TypeOK, Generation
<1>3. key \in Selectors BY PinsAreSelectors
<1>4. fresh \in Locals BY <1>2, <1>3 DEF Locals
<1>5. fresh.attempts = 0 /\ fresh.streaming = FALSE BY DEF NoRequest
<1> HIDE DEF fresh
<1>6. /\ rec \in Locals /\ rec.pc \in {"entry", "done"}
      /\ rec.attempts = 0 /\ rec.streaming = FALSE
  <2>1. CASE KnownPin(key)
    <3>1. rec = [fresh EXCEPT !.pc = "entry"] BY <2>1
    <3> HIDE DEF rec
    <3> QED BY <3>1, <1>4, <1>5 DEF Locals
  <2>2. CASE ~KnownPin(key)
    <3>1. rec = [fresh EXCEPT !.pc = "done", !.said = 404] BY <2>2
    <3> HIDE DEF rec
    <3>2. ASSUME NEW status \in Nat, rec = [fresh EXCEPT !.pc = "done", !.said = status]
          PROVE  /\ rec \in Locals /\ rec.pc = "done"
                 /\ rec.attempts = 0 /\ rec.streaming = FALSE
      BY <3>2, <1>4, <1>5 DEF Locals
    <3>3. 404 \in Nat OBVIOUS
    <3> QED BY <3>1, <3>2, <3>3, Zenon
  <2> QED BY <2>1, <2>2
<1> HIDE DEF rec
<1>7. req' = [req EXCEPT ![r] = rec] BY <1>1 DEF rec, fresh
<1>8. req \in [Requests -> Locals] BY DEF TypeOK
<1>9. Alone(r) /\ Fresh(r) /\ ~Registered(r)'
  BY <1>6, <1>7, <1>8 DEF Alone, Fresh, Registered
<1>10. ~Registered(r) /\ UNCHANGED <<heap, inflight>> BY DEF Route, Registered
<1> QED BY <1>9, <1>10 DEF Moves, Waits

\* The body is acquired, or the request is answered (gateway.go relay).
LEMMA EnterEffects ==
  ASSUME TypeOK, NEW r \in Requests, Enter(r)
  PROVE  Moves(r)
<1>1. req[r].pc = "entry" /\ ~Registered(r) /\ UNCHANGED <<heap, inflight>>
  BY DEF Enter, Registered
<1>2. CASE \E status \in {503, 413, 400} : Answer(r, status)
  <2>1. PICK status \in {503, 413, 400} : Answer(r, status) BY <1>2
  <2>2. Alone(r) /\ Fresh(r) /\ req'[r].pc = "done" BY <2>1, AnswerEffects
  <2> QED BY <1>1, <2>2 DEF Moves, Waits, Registered
<1>3. CASE \E b \in BOOLEAN : req' = [req EXCEPT ![r].pc = "pick", ![r].streaming = b]
  <2>1. PICK b \in BOOLEAN : req' = [req EXCEPT ![r].pc = "pick", ![r].streaming = b]
    BY <1>3
  <2> DEFINE rec == [req[r] EXCEPT !.pc = "pick", !.streaming = b]
  <2>2. req \in [Requests -> Locals] BY DEF TypeOK
  <2>3. rec \in Locals /\ rec.pc = "pick" /\ rec.attempts = req[r].attempts
    BY <2>2 DEF Locals
  <2>4. req' = [req EXCEPT ![r] = rec] BY <2>1
  <2> HIDE DEF rec
  <2>5. Alone(r) /\ req'[r].pc = "pick" /\ req'[r].attempts = req[r].attempts
    BY <2>2, <2>3, <2>4 DEF Alone
  <2> QED BY <1>1, <2>5 DEF Moves, Waits, Registered
<1> QED
  <2> DEFINE b == gen.set.stream > 0 /\ req[r].size > gen.set.stream
  <2>1. b \in BOOLEAN OBVIOUS
  <2>2. \/ Answer(r, 503) \/ Answer(r, 413) \/ Answer(r, 400)
        \/ req' = [req EXCEPT ![r].pc = "pick", ![r].streaming = b]
    BY DEF Enter
  <2> HIDE DEF b
  <2> QED BY <1>2, <1>3, <2>1, <2>2

\* The loop is given up (gateway.go relay).
LEMMA GiveUpEffects ==
  ASSUME TypeOK, NEW r \in Requests, GiveUp(r)
  PROVE  Moves(r)
<1>1. req[r].pc = "pick" /\ ~Registered(r) /\ UNCHANGED <<heap, inflight>>
  BY DEF GiveUp, Registered
<1>2. PICK status \in {413, 502, 503} : Answer(r, status)
  BY DEF GiveUp
<1>3. Alone(r) /\ Fresh(r) /\ req'[r].pc = "done" BY <1>2, AnswerEffects
<1> QED BY <1>1, <1>3 DEF Moves, Waits, Registered

\* The next request starts over (the caller).
LEMMA LeaveEffects ==
  ASSUME TypeOK, NEW r \in Requests, Leave(r)
  PROVE  Moves(r)
<1>1. NoRequest \in Locals BY Blanks DEF TypeOK, Generation
<1>2. NoRequest.pc = "idle" /\ NoRequest.attempts = 0 /\ NoRequest.streaming = FALSE
  BY DEF NoRequest
<1>3. req \in [Requests -> Locals] BY DEF TypeOK
<1>4. req' = [req EXCEPT ![r] = NoRequest] BY DEF Leave
<1>5. Alone(r) /\ Fresh(r) /\ ~Registered(r)' BY <1>1, <1>2, <1>3, <1>4 DEF Alone, Fresh, Registered
<1>6. ~Registered(r) /\ UNCHANGED <<heap, inflight>> BY DEF Leave, Registered
<1> QED BY <1>5, <1>6 DEF Moves, Waits

\* A pass picks a relay of the serving generation and begins an attempt on it
\* (gateway.go relay; pool.go Pick).
LEMMA PickEffects ==
  ASSUME TypeOK, NEW r \in Requests, Pick(r)
  PROVE  /\ Moves(r)
         /\ cursor' \in [Selectors -> 0 .. Len(Roster)]
<1> DEFINE use == Usable(gen, req[r].key)
           at  == Turn(req[r].key, Cardinality(use))
<1>1. /\ req[r].pc = "pick" /\ req[r].attempts < AttemptBudget(gen, r)
      /\ use # {} /\ cursor' = [cursor EXCEPT ![req[r].key] = at + 1]
      /\ UNCHANGED heap
  BY DEF Pick, Bound
<1>2. PICK id \in use : /\ inflight' = [inflight EXCEPT ![id] = @ + 1]
                        /\ req' = [req EXCEPT ![r] = Begun(r, gen, id)]
  BY DEF Pick, Bound
<1>3. /\ req \in [Requests -> Locals] /\ req[r] \in Locals
      /\ gen \in Generation /\ cursor \in [Selectors -> 0 .. Len(Roster)]
  BY DEF TypeOK
<1>4. id \in Ids /\ use \subseteq Ids BY UsableServe
<1>5. cursor' \in [Selectors -> 0 .. Len(Roster)]
  <2>1. req[r].key \in Selectors BY <1>3 DEF Locals
  <2>2. cursor[req[r].key] \in Nat BY <1>3, <2>1
  <2>3. at + 1 \in 0 .. Len(Roster) BY <1>1, <1>4, <2>1, <2>2, TurnBounds
  <2> HIDE DEF at
  <2> QED BY <1>1, <1>3, <2>3
<1> DEFINE n  == req[r].attempts + 1
           ep == gen.relay[id].ep
           o  == gen.relay[id].obj
           rec == Begun(r, gen, id)
<1> HIDE DEF rec
<1>6. req' = [req EXCEPT ![r] = rec] BY <1>2 DEF rec
<1>7. /\ ep \in Endpoints \cup {NoEndpoint} /\ o \in Nat
      /\ gen.set \in SettingsChoices /\ n \in Nat
  BY <1>3, <1>4 DEF Generation, Serving, Locals
<1>8. rec = [req[r] EXCEPT !.pc = "begun", !.attempts = n, !.id = id,
                           !.ep = ep, !.obj = o, !.set = gen.set]
  BY DEF rec, Begun
<1> HIDE DEF n, ep, o
<1>9. rec \in Locals BY <1>3, <1>4, <1>7, <1>8 DEF Locals
<1>10. /\ rec.pc = "begun" /\ rec.attempts = n /\ rec.streaming = req[r].streaming
       /\ rec.id = id /\ rec.ep = ep /\ rec.obj = o
  BY <1>3, <1>8 DEF Locals
<1>11. Alone(r) /\ req'[r] = rec BY <1>3, <1>6, <1>9 DEF Alone
<1>12. Starts(r) BY <1>1, <1>2, <1>10, <1>11 DEF Starts, n, ep, o
<1> QED BY <1>5, <1>11, <1>12 DEF Moves

\* What a request keeps when it goes round once more.
LEMMA AgainKeeps ==
  ASSUME TypeOK, NEW r \in Requests
  PROVE  /\ Again(r) \in Locals /\ Again(r).pc = "pick"
         /\ Again(r).attempts = req[r].attempts
         /\ Again(r).streaming = req[r].streaming
         /\ Again(r).skipped = req[r].skipped
<1>1. req[r] \in Locals BY DEF TypeOK
<1>2. NoRequest.set \in SettingsChoices BY Blanks DEF TypeOK, Generation, Locals
<1> QED BY <1>1, <1>2 DEF Again, Locals

\* A relay too small is ended where it was begun (gateway.go relay, the size
\* check).
LEMMA SkipEffects ==
  ASSUME TypeOK, NEW r \in Requests, Skip(r)
  PROVE  Moves(r)
<1>1. /\ Registered(r) /\ Ended(r) /\ UNCHANGED heap /\ ~Fits(r)
      /\ req' = [req EXCEPT ![r] = Skipped(r)]
  BY DEF Skip, Registered
<1>2. req \in [Requests -> Locals] /\ req[r] \in Locals BY DEF TypeOK
<1>3. req[r].streaming = FALSE BY <1>1, <1>2 DEF Fits, Locals
<1> DEFINE again == Again(r)
           m == req[r].skipped + 1
           rec == [again EXCEPT !.skipped = m]
<1>4. /\ again \in Locals /\ again.pc = "pick" /\ again.attempts = req[r].attempts
      /\ again.streaming = req[r].streaming /\ again.skipped = req[r].skipped
  BY AgainKeeps
<1> HIDE DEF again
<1>5. m \in Nat BY <1>2 DEF Locals
<1>6. Skipped(r) = rec BY <1>4 DEF Skipped, again
<1> HIDE DEF m
<1>7. /\ rec \in Locals /\ rec.pc = "pick" /\ rec.attempts = req[r].attempts
      /\ rec.streaming = req[r].streaming
  BY <1>4, <1>5 DEF Locals
<1> HIDE DEF rec
<1>8. Alone(r) /\ req'[r] = rec BY <1>1, <1>2, <1>6, <1>7 DEF Alone
<1>9. Ends(r) BY <1>1, <1>3, <1>7, <1>8 DEF Ends, Registered
<1> QED BY <1>8, <1>9 DEF Moves

\* The round trip hands over to the copy, or the attempt ends (gateway.go relay).
LEMMA TripEffects ==
  ASSUME TypeOK, NEW r \in Requests, Trip(r)
  PROVE  Moves(r)
<1>1. req[r].pc = "begun" /\ Registered(r) BY DEF Trip, Registered
<1>2. req \in [Requests -> Locals] /\ req[r] \in Locals BY DEF TypeOK
<1>3. CASE req' = [req EXCEPT ![r].pc = "copy"] /\ UNCHANGED <<heap, inflight>>
  <2> DEFINE rec == [req[r] EXCEPT !.pc = "copy"]
  <2>1. rec \in Locals /\ rec.pc = "copy" BY <1>2 DEF Locals
  <2>2. \A f \in {"attempts", "streaming", "id", "ep", "obj"} : rec[f] = req[r][f]
    BY <1>2 DEF Locals
  <2>3. req' = [req EXCEPT ![r] = rec] BY <1>3
  <2> HIDE DEF rec
  <2>4. Alone(r) /\ req'[r] = rec BY <1>2, <2>1, <2>3 DEF Alone
  <2>5. Carries(r) BY <1>1, <1>3, <2>1, <2>2, <2>4 DEF Carries
  <2> QED BY <2>4, <2>5 DEF Moves
<1>4. ASSUME Ended(r), Praise(r) \/ Blame(r) \/ UNCHANGED heap,
             NEW status \in Nat, Answer(r, status)
      PROVE  Moves(r)
  <2>1. Alone(r) /\ Fresh(r) /\ req'[r].pc = "done" BY <1>4, AnswerEffects
  <2> QED BY <1>1, <1>4, <2>1 DEF Moves, Ends, Registered
<1>5. CASE /\ Ended(r) /\ Blame(r) /\ req[r].streaming = FALSE
           /\ req' = [req EXCEPT ![r] = Again(r)]
  <2>1. /\ Again(r) \in Locals /\ Again(r).pc = "pick"
        /\ Again(r).attempts = req[r].attempts /\ Again(r).streaming = FALSE
    BY <1>5, AgainKeeps
  <2>2. Alone(r) /\ req'[r] = Again(r) BY <1>2, <1>5, <2>1 DEF Alone
  <2>3. Ends(r) BY <1>1, <1>5, <2>1, <2>2 DEF Ends, Registered
  <2> QED BY <2>2, <2>3 DEF Moves
<1> QED
  <2>1. \/ req' = [req EXCEPT ![r].pc = "copy"] /\ UNCHANGED <<heap, inflight>>
        \/ Ended(r) /\ Answer(r, 499) /\ UNCHANGED heap
        \/ /\ Ended(r) /\ Blame(r)
           /\ IF req[r].streaming THEN Answer(r, 502)
              ELSE req' = [req EXCEPT ![r] = Again(r)]
    BY DEF Trip
  <2>2. req[r].streaming = TRUE \/ req[r].streaming = FALSE BY <1>2 DEF Locals
  <2>3. 499 \in Nat /\ 502 \in Nat OBVIOUS
  <2> QED BY <1>3, <1>4, <1>5, <2>1, <2>2, <2>3

\* The copy ends the attempt, whatever came of it (gateway.go relay).
LEMMA CopyEffects ==
  ASSUME TypeOK, NEW r \in Requests, Copy(r)
  PROVE  Moves(r)
<1>1. req[r].pc = "copy" /\ Registered(r) /\ Ended(r) /\ Answer(r, 200) BY DEF Copy, Registered
<1>2. Praise(r) \/ Blame(r) \/ UNCHANGED heap BY DEF Copy
<1>3. Alone(r) /\ Fresh(r) /\ req'[r].pc = "done" BY <1>1, AnswerEffects
<1> QED BY <1>1, <1>2, <1>3 DEF Moves, Ends, Registered

\* Every step of a request is one of the four moves, and leaves the
\* generations and the runtime map alone (gateway.go relay).
LEMMA RequestEffects ==
  ASSUME TypeOK, NEW r \in Requests, Route(r) \/ Serve(r) \/ Leave(r)
  PROVE  /\ Moves(r)
         /\ UNCHANGED <<gen, next, runtime>>
         /\ cursor' \in [Selectors -> 0 .. Len(Roster)]
<1>0. cursor \in [Selectors -> 0 .. Len(Roster)] BY DEF TypeOK
<1>1. CASE Route(r) BY <1>0, <1>1, RouteEffects DEF Route
<1>2. CASE Enter(r) BY <1>0, <1>2, EnterEffects DEF Enter
<1>3. CASE Pick(r) BY <1>3, PickEffects DEF Pick
<1>4. CASE GiveUp(r) BY <1>0, <1>4, GiveUpEffects DEF GiveUp
<1>5. CASE Trip(r) BY <1>0, <1>5, TripEffects DEF Trip
<1>6. CASE Copy(r) BY <1>0, <1>6, CopyEffects DEF Copy
<1>7. CASE Leave(r) BY <1>0, <1>7, LeaveEffects DEF Leave
<1>8. CASE Skip(r) BY <1>0, <1>8, SkipEffects DEF Skip
<1> QED BY <1>1, <1>2, <1>3, <1>4, <1>5, <1>6, <1>7, <1>8 DEF Serve

-----------------------------------------------------------------------------
(* What a rebuild does to one identity.                                    *)

\* What a rebuild finds of an identity once it has pruned (runtime.go Prune).
Held(i, e) == IF i \in wanted' THEN entries[i][e] ELSE 0
Prev(i)    == IF i \in wanted' THEN owner[i] ELSE NoEndpoint

\* The identity does not serve in the generation that is built.
Rests(i) ==
  /\ ~InPool(next, i)' /\ made'[i] = made[i] /\ owner'[i] = Prev(i)
  /\ \A e \in Endpoints : entries'[i][e] = Held(i, e)

\* It serves, with the object its endpoint has or with a new one.
Attaches(i) ==
  LET ep == next'.relay[i].ep
  IN  /\ InPool(next, i)' /\ ep \in Endpoints /\ owner'[i] = ep
      /\ next'.relay[i].obj = entries'[i][ep]
      /\ entries'[i][ep] = IF Held(i, ep) # 0 THEN Held(i, ep) ELSE made[i] + 1
      /\ made'[i] = IF Held(i, ep) = 0 THEN made[i] + 1 ELSE made[i]
      /\ \A e \in Endpoints : e # ep => entries'[i][e] = 0 \/ entries'[i][e] = Held(i, e)
      /\ Prev(i) \in Endpoints \ {ep} => entries'[i][Prev(i)] = 0

\* A rebuild leaves every identity in one of the two ways, and touches
\* neither the requests nor what serves (main.go buildState).
LEMMA RebuildEffects ==
  ASSUME TypeOK, Rebuild
  PROVE  /\ UNCHANGED <<gen, heap, inflight, req>>
         /\ ~next.built /\ next'.built = TRUE /\ next' \in Generation
         /\ entries' \in [Ids -> [Endpoints -> Nat]]
         /\ owner' \in [Ids -> Endpoints \cup {NoEndpoint}]
         /\ made' \in [Ids -> Nat] /\ wanted' \subseteq Ids
         /\ \A i \in Ids : made'[i] <= MaxObjects(i)
         /\ cursor' \in [Selectors -> 0 .. Len(Roster)]
         /\ \A i \in Ids : Rests(i) \/ Attaches(i)
<1>1. PICK serving \in [Ids -> Endpoints \cup {NoEndpoint}],
           desired \in SUBSET Ids, c \in SettingsChoices :
        /\ \A i \in Ids : serving[i] \in EndpointsOf(i) \cup {NoEndpoint}
        /\ LET kept == PrunedEntries(desired)
               own  == PrunedOwner(desired)
               in   == {i \in Ids : serving[i] # NoEndpoint}
               now  == [i \in Ids |-> IF i \in in
                                      THEN Attach(kept[i], own[i], serving[i], made[i])
                                      ELSE kept[i]]
           IN  /\ entries' = now
               /\ owner' = [i \in Ids |-> IF i \in in THEN serving[i] ELSE own[i]]
               /\ made' = [i \in Ids |->
                             IF i \in in /\ kept[i][serving[i]] = 0
                             THEN made[i] + 1 ELSE made[i]]
               /\ \A i \in Ids : made'[i] <= MaxObjects(i)
               /\ cursor' = PrunedCursor(desired)
               /\ wanted' = desired
               /\ next' = [built |-> TRUE, set |-> c,
                           relay |-> [i \in Ids |->
                                        IF i \in in
                                        THEN [ep |-> serving[i], obj |-> now[i][serving[i]]]
                                        ELSE NotServing]]
  BY Zenon DEF Rebuild
<1> DEFINE kept == PrunedEntries(desired)
           own  == PrunedOwner(desired)
           in   == {i \in Ids : serving[i] # NoEndpoint}
           now  == [i \in Ids |-> IF i \in in
                                  THEN Attach(kept[i], own[i], serving[i], made[i])
                                  ELSE kept[i]]
           relay == [i \in Ids |-> IF i \in in
                                   THEN [ep |-> serving[i], obj |-> now[i][serving[i]]]
                                   ELSE NotServing]
<1>2. /\ entries' = now
      /\ owner' = [i \in Ids |-> IF i \in in THEN serving[i] ELSE own[i]]
      /\ made' = [i \in Ids |-> IF i \in in /\ kept[i][serving[i]] = 0
                                THEN made[i] + 1 ELSE made[i]]
      /\ \A i \in Ids : made'[i] <= MaxObjects(i)
      /\ cursor' = PrunedCursor(desired)
      /\ wanted' = desired
      /\ next' = [built |-> TRUE, set |-> c, relay |-> relay]
  BY <1>1
<1>3. /\ UNCHANGED <<gen, heap, inflight, req>> /\ ~next.built
  BY DEF Rebuild
<1>4. /\ entries \in [Ids -> [Endpoints -> Nat]]
      /\ owner \in [Ids -> Endpoints \cup {NoEndpoint}] /\ made \in [Ids -> Nat]
      /\ cursor \in [Selectors -> 0 .. Len(Roster)] /\ Len(Roster) \in Nat
  BY RosterIsOrder DEF TypeOK
<1>5. /\ kept \in [Ids -> [Endpoints -> Nat]]
      /\ own \in [Ids -> Endpoints \cup {NoEndpoint}]
      /\ \A i \in Ids : own[i] = Prev(i) /\ \A e \in Endpoints : kept[i][e] = Held(i, e)
  BY <1>2, <1>4 DEF PrunedEntries, PrunedOwner, Held, Prev
<1>6. cursor' \in [Selectors -> 0 .. Len(Roster)] BY <1>2, <1>4 DEF PrunedCursor
<1> HIDE DEF kept, own
<1>7. ASSUME NEW i \in Ids, i \in in
      PROVE  /\ serving[i] \in Endpoints
             /\ now[i] \in [Endpoints -> Nat]
             /\ now[i][serving[i]] = IF Held(i, serving[i]) # 0 THEN Held(i, serving[i])
                                     ELSE made[i] + 1
             /\ \A e \in Endpoints : e # serving[i] => now[i][e] = 0 \/ now[i][e] = Held(i, e)
             /\ Prev(i) \in Endpoints \ {serving[i]} => now[i][Prev(i)] = 0
  <2>1. serving[i] \in Endpoints BY <1>7
  <2>2. kept[i] \in [Endpoints -> Nat] /\ made[i] \in Nat BY <1>4, <1>5
  <2>3. now[i] = Attach(kept[i], own[i], serving[i], made[i]) BY <1>7
  <2> HIDE DEF now
  <2>4. own[i] = Prev(i) /\ \A e \in Endpoints : kept[i][e] = Held(i, e) BY <1>5
  <2>5. /\ now[i] \in [Endpoints -> Nat]
        /\ now[i][serving[i]] = IF kept[i][serving[i]] # 0 THEN kept[i][serving[i]]
                                ELSE made[i] + 1
        /\ \A e \in Endpoints : e # serving[i] => now[i][e] = 0 \/ now[i][e] = kept[i][e]
        /\ own[i] \in Endpoints \ {serving[i]} => now[i][own[i]] = 0
    <3> DEFINE h == kept[i]  p == own[i]  s == serving[i]  m == made[i]  n == now[i]
    <3>1. h \in [Endpoints -> Nat] /\ s \in Endpoints /\ m \in Nat BY <2>1, <2>2
    <3>2. n = Attach(h, p, s, m) BY <2>3
    <3> HIDE DEF h, p, s, m, n
    <3>3. n \in [Endpoints -> Nat] BY <3>1, <3>2, AttachDrops
    <3>5. \A e \in Endpoints : e # s => n[e] = 0 \/ n[e] = h[e]
      BY <3>1, <3>2, NoEndpointIsNone DEF Attach
    <3>6. p \in Endpoints \ {s} => n[p] = 0 BY <3>1, <3>2, AttachDrops
    <3>4. n[s] = IF h[s] # 0 THEN h[s] ELSE m + 1
      BY <3>1, <3>2, AttachGives
    <3> QED BY <3>3, <3>4, <3>5, <3>6 DEF h, p, s, m, n
  <2> QED BY <2>1, <2>4, <2>5
<1>8. ASSUME NEW i \in Ids, i \notin in
      PROVE  now[i] = kept[i]
  BY <1>8
<1>9. now \in [Ids -> [Endpoints -> Nat]]
  <2>1. \A i \in Ids : now[i] \in [Endpoints -> Nat] BY <1>5, <1>7, <1>8
  <2> QED BY <2>1
<1>10. relay \in [Ids -> Serving]
  <2>1. ASSUME NEW i \in Ids PROVE relay[i] \in Serving
    <3>1. NotServing \in Serving BY DEF NotServing, Serving
    <3>2. CASE i \in in
      <4>1. relay[i] = [ep |-> serving[i], obj |-> now[i][serving[i]]] BY <3>2
      <4>2. now[i][serving[i]] \in Nat BY <1>7, <1>9, <3>2
      <4> HIDE DEF relay, now
      <4> QED BY <1>7, <3>2, <4>1, <4>2 DEF Serving
    <3> QED BY <3>1, <3>2
  <2> QED BY <2>1
<1>11. ASSUME NEW i \in Ids PROVE Rests(i) \/ Attaches(i)
  <2>1. /\ entries'[i] = now[i] /\ next'.relay[i] = relay[i]
        /\ owner'[i] = IF i \in in THEN serving[i] ELSE own[i]
        /\ made'[i] = IF i \in in /\ kept[i][serving[i]] = 0 THEN made[i] + 1 ELSE made[i]
    <3>1. next'.relay = relay BY <1>2
    <3>2. entries' = now BY <1>2
    <3> HIDE DEF relay, now
    <3> QED BY <1>2, <3>1, <3>2
  <2>2. own[i] = Prev(i) /\ \A e \in Endpoints : kept[i][e] = Held(i, e) BY <1>5
  <2>3. CASE i \in in
    <3>1. relay[i] = [ep |-> serving[i], obj |-> now[i][serving[i]]] BY <2>3
    <3>2. serving[i] # NoEndpoint BY <2>3
    <3> HIDE DEF relay, now
    <3>3. next'.relay[i].ep = serving[i] /\ next'.relay[i].obj = entries'[i][serving[i]]
      BY <2>1, <3>1
    <3>4. InPool(next, i)' BY <3>2, <3>3 DEF InPool
    <3> HIDE DEF in
    <3>5. Attaches(i) BY <1>7, <2>1, <2>2, <2>3, <3>3, <3>4 DEF Attaches
    <3> QED BY <3>5
  <2>4. CASE i \notin in
    <3>1. relay[i] = NotServing BY <2>4
    <3>2. now[i] = kept[i] BY <2>4
    <3> HIDE DEF relay, now, in
    <3>3. ~InPool(next, i)' BY <2>1, <3>1 DEF InPool, NotServing
    <3>4. Rests(i) BY <2>1, <2>2, <2>4, <3>2, <3>3 DEF Rests
    <3> QED BY <3>4
  <2> QED BY <2>3, <2>4
<1>12. next' \in Generation /\ next'.built = TRUE
  <2> HIDE DEF relay
  <2> QED BY <1>2, <1>10 DEF Generation
<1>13. owner' \in [Ids -> Endpoints \cup {NoEndpoint}] /\ made' \in [Ids -> Nat]
       /\ wanted' \subseteq Ids
  BY <1>2, <1>4, <1>5
<1> QED BY <1>2, <1>3, <1>6, <1>9, <1>11, <1>12, <1>13

-----------------------------------------------------------------------------
(* Types, and the numbering of the objects.                                *)

\* The plane starts with nothing served and nothing made (runtime.go NewRuntimeState).
LEMMA InitTyped == Init => TypeInv
<1> SUFFICES ASSUME Init PROVE TypeInv
  OBVIOUS
<1>1. PICK c \in SettingsChoices : gen = [NoState EXCEPT !.built = TRUE, !.set = c]
  BY DEF Init
<1>2. NoRequest \in Locals /\ NoState \in Generation /\ \A i \in Ids : ~InPool(NoState, i)
  BY <1>1, Blanks
<1>3. gen \in Generation /\ \A i \in Ids : ~InPool(gen, i)
  BY <1>1, <1>2 DEF Generation, InPool
<1>4. next = NoState /\ \A r \in Requests : req[r] = NoRequest BY DEF Init
<1>5. \A i \in Ids : heap[i] \in [1 .. MaxObjects(i) -> [fails: Nat, down: Nat]]
  BY DEF Init, Healthy
<1>6. cursor \in [Selectors -> 0 .. Len(Roster)] BY RosterIsOrder DEF Init
<1>7. TypeOK
  BY <1>2, <1>3, <1>4, <1>5, <1>6 DEF TypeOK, Init
<1>8. \A r \in Requests : ~Registered(r) BY <1>4 DEF Registered, NoRequest
<1>9. ObjectsInv
  BY <1>2, <1>3, <1>4, <1>8, MaxObjectsIsNat DEF ObjectsInv, Init
<1> QED BY <1>7, <1>9 DEF TypeInv

\* A rebuild numbers on from the objects made before (main.go buildState).
LEMMA RebuildTyped == TypeInv /\ Rebuild => TypeInv'
<1> SUFFICES ASSUME TypeInv, Rebuild PROVE TypeInv'
  OBVIOUS
<1>1. TypeOK /\ ObjectsInv BY DEF TypeInv
<1>2. /\ UNCHANGED <<gen, heap, inflight, req>>
      /\ next' \in Generation /\ entries' \in [Ids -> [Endpoints -> Nat]]
      /\ owner' \in [Ids -> Endpoints \cup {NoEndpoint}]
      /\ made' \in [Ids -> Nat] /\ wanted' \subseteq Ids
      /\ \A i \in Ids : made'[i] <= MaxObjects(i)
      /\ cursor' \in [Selectors -> 0 .. Len(Roster)]
      /\ \A i \in Ids : Rests(i) \/ Attaches(i)
  BY <1>1, RebuildEffects
<1>3. TypeOK' BY <1>1, <1>2 DEF TypeOK
<1>4. made \in [Ids -> Nat] /\ entries \in [Ids -> [Endpoints -> Nat]]
  BY <1>1 DEF TypeOK
<1>5. ASSUME NEW i \in Ids
      PROVE  /\ made[i] <= made'[i]
             /\ \A e \in Endpoints : entries'[i][e] <= made'[i]
             /\ InPool(next, i)' => next'.relay[i].obj \in 1 .. made'[i]
  <2>1. made[i] \in Nat /\ \A e \in Endpoints : Held(i, e) \in Nat /\ Held(i, e) <= made[i]
    BY <1>1, <1>4 DEF ObjectsInv, Held
  <2>2. CASE Rests(i) BY <2>1, <2>2 DEF Rests
  <2>3. CASE Attaches(i)
    <3> DEFINE ep == next'.relay[i].ep
    <3>1. /\ ep \in Endpoints
          /\ next'.relay[i].obj = entries'[i][ep]
          /\ entries'[i][ep] = IF Held(i, ep) # 0 THEN Held(i, ep) ELSE made[i] + 1
          /\ made'[i] = IF Held(i, ep) = 0 THEN made[i] + 1 ELSE made[i]
          /\ \A e \in Endpoints : e # ep => entries'[i][e] = 0 \/ entries'[i][e] = Held(i, e)
      BY <2>3 DEF Attaches
    <3> HIDE DEF ep
    <3>2. made[i] <= made'[i] /\ entries'[i][ep] \in 1 .. made'[i] BY <2>1, <3>1
    <3>3. ASSUME NEW e \in Endpoints, e # ep PROVE entries'[i][e] <= made'[i]
      <4>1. made'[i] \in Nat /\ (entries'[i][e] = 0 \/ entries'[i][e] = Held(i, e))
        BY <1>2, <3>1, <3>3
      <4>2. Held(i, e) \in Nat /\ Held(i, e) <= made[i] BY <2>1
      <4> QED BY <2>1, <3>2, <4>1, <4>2
    <3> QED BY <3>1, <3>2, <3>3
  <2> QED BY <1>2, <2>2, <2>3
<1>6. ASSUME NEW i \in Ids, NEW o \in 1 .. made[i] PROVE o \in 1 .. made'[i]
  BY <1>2, <1>4, <1>5
<1>7. \A r \in Requests : Registered(r)' => /\ req'[r].id \in Ids
                                        /\ req'[r].obj \in 1 .. made'[req'[r].id]
  BY <1>1, <1>2, <1>6 DEF ObjectsInv, Registered
<1>8. \A i \in Ids : InPool(gen, i)' => gen'.relay[i].obj \in 1 .. made'[i]
  BY <1>1, <1>2, <1>6 DEF ObjectsInv, InPool
<1>9. ObjectsInv' BY <1>2, <1>5, <1>7, <1>8 DEF ObjectsInv
<1> QED BY <1>3, <1>9 DEF TypeInv

\* A swap serves what was built (gateway.go Swap).
LEMMA SwapTyped == TypeInv /\ Swap => TypeInv'
<1> SUFFICES ASSUME TypeInv, Swap PROVE TypeInv'
  OBVIOUS
<1>1. TypeOK /\ ObjectsInv BY DEF TypeInv
<1>2. /\ gen' = next /\ next' = NoState /\ wanted' = {}
      /\ UNCHANGED <<entries, owner, made, cursor, heap, inflight, req>>
  BY DEF Swap
<1>3. NoState \in Generation /\ \A i \in Ids : ~InPool(NoState, i)
  BY <1>1, Blanks DEF TypeOK, Generation
<1>4. TypeOK' BY <1>1, <1>2, <1>3 DEF TypeOK
<1>5. ObjectsInv' BY <1>1, <1>2, <1>3 DEF ObjectsInv, Registered, InPool
<1> QED BY <1>4, <1>5 DEF TypeInv

\* A cooldown runs down to zero and stops (runtime.go healthy).
LEMMA ElapseTyped == TypeInv /\ Elapse => TypeInv'
<1> SUFFICES ASSUME TypeInv, Elapse PROVE TypeInv'
  OBVIOUS
<1>1. TypeOK /\ ObjectsInv BY DEF TypeInv
<1>2. /\ UNCHANGED <<gen, next, runtime, cursor, inflight, req>>
      /\ heap' = [i \in Ids |-> [o \in 1 .. MaxObjects(i) |->
                    [heap[i][o] EXCEPT !.down = IF @ > 0 THEN @ - 1 ELSE 0]]]
  BY DEF Elapse
<1>3. ASSUME NEW i \in Ids, NEW o \in 1 .. MaxObjects(i)
      PROVE  [heap[i][o] EXCEPT !.down = IF @ > 0 THEN @ - 1 ELSE 0] \in [fails: Nat, down: Nat]
  <2> DEFINE h == heap[i][o]
  <2>1. h \in [fails: Nat, down: Nat] BY <1>1 DEF TypeOK
  <2> HIDE DEF h
  <2>2. [h EXCEPT !.down = IF @ > 0 THEN @ - 1 ELSE 0] \in [fails: Nat, down: Nat]
    BY <2>1
  <2> QED BY <2>2 DEF h
<1>4. \A i \in Ids : heap'[i] \in [1 .. MaxObjects(i) -> [fails: Nat, down: Nat]]
  BY <1>2, <1>3
<1>5. TypeOK' BY <1>1, <1>2, <1>4 DEF TypeOK, runtime
<1>6. ObjectsInv' BY <1>1, <1>2 DEF ObjectsInv, Registered, InPool, runtime
<1> QED BY <1>5, <1>6 DEF TypeInv

\* A verdict is written to an object that was made (pool.go RecordFailure).
LEMMA EndsKeepHeapTyped ==
  ASSUME TypeInv, NEW r \in Requests, Ends(r)
  PROVE  /\ DOMAIN heap' = Ids
         /\ \A i \in Ids : heap'[i] \in [1 .. MaxObjects(i) -> [fails: Nat, down: Nat]]
<1> DEFINE Health == [fails: Nat, down: Nat]
<1>1. /\ DOMAIN heap = Ids /\ \A i \in Ids : heap[i] \in [1 .. MaxObjects(i) -> Health]
      /\ req[r] \in Locals
  BY DEF TypeInv, TypeOK
<1>2. req[r].id \in Ids /\ req[r].obj \in 1 .. MaxObjects(req[r].id)
  <2>1. req[r].id \in Ids /\ req[r].obj \in 1 .. made[req[r].id] /\ made[req[r].id] <= MaxObjects(req[r].id)
    BY DEF TypeInv, ObjectsInv, Ends
  <2>2. made[req[r].id] \in Nat /\ MaxObjects(req[r].id) \in Nat
    BY <2>1, MaxObjectsIsNat DEF TypeInv, TypeOK
  <2> QED BY <2>1, <2>2
<1>3. ASSUME NEW h \in Health, Recorded(r, h)
      PROVE  /\ DOMAIN heap' = Ids
             /\ \A i \in Ids : heap'[i] \in [1 .. MaxObjects(i) -> Health]
  <2>1. heap' = [heap EXCEPT ![req[r].id] = [heap[req[r].id] EXCEPT ![req[r].obj] = h]]
    BY <1>3 DEF Recorded
  <2> HIDE DEF Health
  <2>2. [heap[req[r].id] EXCEPT ![req[r].obj] = h] \in [1 .. MaxObjects(req[r].id) -> Health]
    BY <1>1, <1>2
  <2> QED BY <1>1, <1>2, <2>1, <2>2
<1>4. CASE Praise(r)
  <2>1. Healthy \in Health BY DEF Healthy
  <2> QED BY <1>3, <1>4, <2>1 DEF Praise
<1>5. CASE Blame(r)
  <2> DEFINE h == heap[req[r].id][req[r].obj]
  <2>1. h \in Health BY <1>1, <1>2
  <2>2. req[r].set.cooldown \in Nat BY <1>1, ChoicesAreSettings DEF Locals
  <2> HIDE DEF h
  <2>3. Hit(h, req[r].set) \in Health BY <2>1, <2>2 DEF Hit
  <2> QED BY <1>3, <1>5, <2>3 DEF Blame, h
<1>6. CASE UNCHANGED heap BY <1>1, <1>6
<1> QED BY <1>4, <1>5, <1>6 DEF Ends

-----------------------------------------------------------------------------
(* The in-flight counters.                                                 *)

\* The requests with an attempt on a relay.
Carried(i) == {r \in Requests : Registered(r) /\ req[r].id = i}

\* The counters are exact, and count finitely many attempts.
InflightInv ==
  \A i \in Ids : IsFiniteSet(Carried(i)) /\ inflight[i] = Cardinality(Carried(i))

\* A begin counts once and an end uncounts once (gateway.go inflight).
LEMMA MovesCountExactly ==
  ASSUME TypeInv, InflightInv, NEW r \in Requests, Moves(r)
  PROVE  InflightInv' /\ inflight' \in [Ids -> Nat]
<1>1. inflight \in [Ids -> Nat] /\ req \in [Requests -> Locals] BY DEF TypeInv, TypeOK
<1>2. \A q \in Requests : q # r => req'[q] = req[q] BY DEF Moves, Alone
<1>3. \A i \in Ids : IsFiniteSet(Carried(i)) /\ inflight[i] = Cardinality(Carried(i))
  BY DEF InflightInv
<1>4. CASE Waits(r)
  <2>1. \A i \in Ids : Carried(i)' = Carried(i) BY <1>2, <1>4 DEF Waits, Carried, Registered
  <2>2. inflight' = inflight BY <1>4 DEF Waits
  <2> QED BY <1>1, <1>3, <2>1, <2>2 DEF InflightInv
<1>5. CASE Carries(r)
  <2>1. req'[r].id = req[r].id /\ Registered(r) /\ Registered(r)' BY <1>5 DEF Carries, Registered
  <2>2. \A i \in Ids : Carried(i)' = Carried(i) BY <1>2, <2>1 DEF Carried, Registered
  <2>3. inflight' = inflight BY <1>5 DEF Carries
  <2> QED BY <1>1, <1>3, <2>2, <2>3 DEF InflightInv
<1>6. CASE Starts(r)
  <2>0. PICK id \in Ids : id = req'[r].id /\ inflight' = [inflight EXCEPT ![id] = @ + 1]
    BY <1>6, UsableServe DEF Starts
  <2>1. ~Registered(r) /\ Registered(r)' /\ req'[r].id = id
    BY <1>6, <2>0 DEF Starts, Registered
  <2>2. Carried(id)' = Carried(id) \cup {r} /\ r \notin Carried(id)
    BY <1>2, <2>1 DEF Carried, Registered
  <2>3. \A i \in Ids : i # id => Carried(i)' = Carried(i)
    BY <1>2, <2>1 DEF Carried, Registered
  <2>4. IsFiniteSet(Carried(id)') /\ Cardinality(Carried(id)') = Cardinality(Carried(id)) + 1
    BY <1>3, <2>1, <2>2, FS_AddElement
  <2>5. inflight' \in [Ids -> Nat] BY <1>1, <2>0
  <2>6. \A i \in Ids : IsFiniteSet(Carried(i)') /\ inflight'[i] = Cardinality(Carried(i)')
    <3>1. ASSUME NEW i \in Ids, i # id
          PROVE  IsFiniteSet(Carried(i)') /\ inflight'[i] = Cardinality(Carried(i)')
      BY <1>1, <1>3, <2>0, <2>3, <3>1
    <3>2. inflight'[id] = Cardinality(Carried(id)') BY <1>1, <1>3, <2>0, <2>4
    <3> QED BY <2>4, <3>1, <3>2
  <2> QED BY <2>5, <2>6 DEF InflightInv
<1>7. CASE Ends(r)
  <2>0. PICK id \in Ids : id = req[r].id /\ inflight' = [inflight EXCEPT ![id] = @ - 1]
    BY <1>7 DEF Ends, Ended, TypeInv, ObjectsInv
  <2>1. Registered(r) /\ ~Registered(r)' /\ req[r].id = id
    BY <1>7, <2>0 DEF Ends
  <2>2. Carried(id)' = Carried(id) \ {r} /\ r \in Carried(id)
    BY <1>2, <2>1 DEF Carried, Registered
  <2>3. \A i \in Ids : i # id => Carried(i)' = Carried(i)
    BY <1>2, <2>1 DEF Carried, Registered
  <2>4. IsFiniteSet(Carried(id)') /\ Cardinality(Carried(id)') = Cardinality(Carried(id)) - 1
    BY <1>3, <2>1, <2>2, FS_RemoveElement
  <2>5. Cardinality(Carried(id)') \in Nat BY <2>4, FS_CardinalityType
  <2>6. inflight'[id] = Cardinality(Carried(id)') BY <1>1, <1>3, <2>0, <2>4
  <2>7. inflight' \in [Ids -> Nat]
    <3>1. inflight' = [inflight EXCEPT ![id] = inflight'[id]] BY <1>1, <2>0
    <3> QED BY <1>1, <2>1, <2>5, <2>6, <3>1
  <2>8. \A i \in Ids : IsFiniteSet(Carried(i)') /\ inflight'[i] = Cardinality(Carried(i)')
    <3>1. ASSUME NEW i \in Ids, i # id
          PROVE  IsFiniteSet(Carried(i)') /\ inflight'[i] = Cardinality(Carried(i)')
      BY <1>1, <1>3, <2>0, <2>3, <3>1
    <3> QED BY <2>4, <2>6, <3>1
  <2> QED BY <2>7, <2>8 DEF InflightInv
<1> QED BY <1>4, <1>5, <1>6, <1>7 DEF Moves

\* A request keeps the types and the numbering (gateway.go relay).
LEMMA RequestTyped ==
  ASSUME TypeInv, InflightInv, NEW r \in Requests, Route(r) \/ Serve(r) \/ Leave(r)
  PROVE  TypeInv' /\ InflightInv'
<1>1. TypeOK /\ ObjectsInv BY DEF TypeInv
<1>2. /\ Moves(r) /\ UNCHANGED <<gen, next, runtime>>
      /\ cursor' \in [Selectors -> 0 .. Len(Roster)]
  BY <1>1, RequestEffects
<1>3. InflightInv' /\ inflight' \in [Ids -> Nat] BY <1>2, MovesCountExactly
<1>4. /\ DOMAIN heap' = Ids
      /\ \A i \in Ids : heap'[i] \in [1 .. MaxObjects(i) -> [fails: Nat, down: Nat]]
  <2>1. CASE UNCHANGED heap BY <1>1, <2>1 DEF TypeOK
  <2>2. CASE Ends(r) BY <2>2, EndsKeepHeapTyped
  <2> QED BY <1>2, <2>1, <2>2 DEF Moves, Waits, Starts, Carries
<1>5. req' \in [Requests -> Locals] /\ \A q \in Requests : q # r => req'[q] = req[q]
  BY <1>2 DEF Moves, Alone
<1>6. TypeOK' BY <1>1, <1>2, <1>3, <1>4, <1>5 DEF TypeOK, runtime
<1>7. Registered(r)' => req'[r].id \in Ids /\ req'[r].obj \in 1 .. made[req'[r].id]
  <2>1. CASE Waits(r) BY <2>1 DEF Waits
  <2>2. CASE Ends(r) BY <2>2 DEF Ends
  <2>3. CASE Carries(r)
    <3>1. req'[r].id = req[r].id /\ req'[r].obj = req[r].obj /\ Registered(r)
      BY <2>3 DEF Carries, Registered
    <3> QED BY <1>1, <3>1 DEF ObjectsInv
  <2>4. CASE Starts(r)
    <3>1. /\ req'[r].id \in Usable(gen, req[r].key)
          /\ req'[r].obj = gen.relay[req'[r].id].obj
      BY <2>4 DEF Starts
    <3>2. req'[r].id \in Ids /\ InPool(gen, req'[r].id) BY <3>1, UsableServe
    <3> QED BY <1>1, <3>1, <3>2 DEF ObjectsInv
  <2> QED BY <1>2, <2>1, <2>2, <2>3, <2>4 DEF Moves
<1>8. ObjectsInv' BY <1>1, <1>2, <1>5, <1>7 DEF ObjectsInv, Registered, InPool, runtime
<1> QED BY <1>3, <1>6, <1>8 DEF TypeInv

\* The types and the counters hold together: that an end can be subtracted
\* is the exactness of the counter.
CountInv == TypeInv /\ InflightInv

\* Nothing is on the wire at the start.
LEMMA InitCounts == Init => CountInv
<1> SUFFICES ASSUME Init PROVE CountInv
  OBVIOUS
<1>1. TypeInv BY InitTyped
<1>2. \A r \in Requests : ~Registered(r) BY DEF Init, Registered, NoRequest
<1>3. \A i \in Ids : Carried(i) = {} /\ inflight[i] = 0 BY <1>2 DEF Carried, Init
<1> QED BY <1>1, <1>3, FS_EmptySet DEF CountInv, InflightInv

\* Every step keeps the types, the numbering and the counters.
LEMMA NextCounts == CountInv /\ [Next]_vars => CountInv'
<1> SUFFICES ASSUME CountInv, [Next]_vars PROVE CountInv'
  OBVIOUS
<1>1. TypeInv /\ InflightInv BY DEF CountInv
<1>2. ASSUME UNCHANGED <<inflight, req>> PROVE InflightInv'
  <2>1. \A i \in Ids : Carried(i)' = Carried(i) BY <1>2 DEF Carried, Registered
  <2> QED BY <1>1, <1>2, <2>1 DEF InflightInv
<1>3. CASE Rebuild
  <2>1. UNCHANGED <<inflight, req>> BY <1>3 DEF Rebuild
  <2> QED BY <1>1, <1>2, <1>3, <2>1, RebuildTyped DEF CountInv
<1>4. CASE Swap
  <2>1. UNCHANGED <<inflight, req>> BY <1>4 DEF Swap
  <2> QED BY <1>1, <1>2, <1>4, <2>1, SwapTyped DEF CountInv
<1>5. CASE Elapse
  <2>1. UNCHANGED <<inflight, req>> BY <1>5 DEF Elapse
  <2> QED BY <1>1, <1>2, <1>5, <2>1, ElapseTyped DEF CountInv
<1>6. ASSUME NEW r \in Requests, Route(r) \/ Serve(r) \/ Leave(r) PROVE CountInv'
  BY <1>1, <1>6, RequestTyped DEF CountInv
<1>7. CASE UNCHANGED vars
  <2>1. /\ UNCHANGED <<gen, next, entries, owner, made, wanted, cursor, heap, inflight, req>>
    BY <1>7 DEF vars, runtime
  <2>2. TypeOK' BY <1>1, <2>1 DEF TypeInv, TypeOK
  <2>3. ObjectsInv' BY <1>1, <2>1 DEF TypeInv, ObjectsInv, InPool, Registered
  <2> QED BY <1>2, <2>1, <2>2, <2>3 DEF CountInv, TypeInv
<1> QED BY <1>3, <1>4, <1>5, <1>6, <1>7 DEF Next

\* The bookkeeping of the data plane is sound in every reachable state.
THEOREM PlaneCounts == Spec => []CountInv
BY InitCounts, NextCounts, PTL DEF Spec

\* Every variable stays in its range, whatever is rebuilt, swapped, begun,
\* ended or given up: no relay is read that does not serve, no object that was
\* not made, and no counter goes below zero (gateway.go, pool.go, runtime.go).
THEOREM PlaneTyping == Spec => []TypeOK
BY PlaneCounts, PTL DEF CountInv, TypeInv

\* The counter AwaitIdle reads is the number of attempts on the wire, for any
\* number of requests (gateway.go inflight.begin, inflight.end).
THEOREM CountersAreExact == Spec => []InflightExact
<1>1. CountInv => InflightExact
  BY DEF CountInv, InflightInv, InflightExact, Carried
<1> QED BY <1>1, PlaneCounts, PTL

-----------------------------------------------------------------------------
(* Budgets: what a request carries through its loop.                       *)

\* A request that has not entered its loop has spent nothing, which is what
\* lets a body be streamed at all.
EntryInv == \A r \in Requests : req[r].pc = "entry" => req[r].attempts = 0

RequestInv == CountInv /\ EntryInv /\ AttemptsBounded

\* A generation has a budget, and a streamed body one attempt (gateway.go).
LEMMA BudgetBounds ==
  ASSUME TypeOK, NEW r \in Requests, req[r].attempts < AttemptBudget(gen, r)
  PROVE  /\ \E c \in SettingsChoices : req[r].attempts + 1 <= c.retries + 1
         /\ req[r].streaming => req[r].attempts + 1 <= 1
<1>1. gen.set \in SettingsChoices /\ req[r].attempts \in Nat
  BY DEF TypeOK, Generation, Locals
<1>2. gen.set.retries \in Nat BY <1>1, ChoicesAreSettings
<1>3. CASE req[r].streaming
  BY <1>1, <1>2, <1>3 DEF AttemptBudget
<1>4. CASE ~req[r].streaming
  BY <1>1, <1>2, <1>4 DEF AttemptBudget
<1> QED BY <1>3, <1>4

\* No move of a request exceeds its budget (gateway.go relay).
LEMMA MovesKeepRequests ==
  ASSUME RequestInv, NEW r \in Requests, Moves(r), UNCHANGED gen
  PROVE  EntryInv' /\ AttemptsBounded'
<1>1. /\ TypeOK /\ EntryInv /\ AttemptsBounded
      /\ \A q \in Requests : q # r => req'[q] = req[q]
  BY DEF RequestInv, CountInv, TypeInv, Moves, Alone
<1>2. /\ req[r] \in Locals /\ req'[r] \in Locals
      /\ \E c \in SettingsChoices : 0 <= c.retries + 1
  <2>1. gen.set \in SettingsChoices BY <1>1 DEF TypeOK, Generation
  <2>2. gen.set.retries \in Nat BY <2>1, ChoicesAreSettings
  <2> QED BY <1>1, <2>1, <2>2 DEF TypeOK, Moves, Alone
<1>3. SUFFICES
        /\ req'[r].pc = "entry" => req'[r].attempts = 0
        /\ \E c \in SettingsChoices : req'[r].attempts <= c.retries + 1
        /\ req'[r].streaming => req'[r].attempts <= 1
  BY <1>1 DEF EntryInv, AttemptsBounded
<1>4. CASE Waits(r)
  <2>1. CASE Fresh(r) BY <1>2, <2>1 DEF Fresh
  <2>2. CASE /\ req[r].pc = "entry" /\ req'[r].pc = "pick"
             /\ req'[r].attempts = req[r].attempts
    <3>1. req'[r].attempts = 0 BY <1>1, <2>2 DEF EntryInv
    <3> QED BY <1>2, <2>2, <3>1
  <2> QED BY <1>4, <2>1, <2>2 DEF Waits
<1>5. CASE Starts(r)
  <2>1. /\ req'[r].pc = "begun" /\ req[r].attempts < AttemptBudget(gen, r)
        /\ req'[r].attempts = req[r].attempts + 1
        /\ req'[r].streaming = req[r].streaming
    BY <1>5 DEF Starts
  <2> QED BY <1>1, <2>1, BudgetBounds
<1>6. CASE Carries(r)
  <2>1. /\ req'[r].pc = "copy"
        /\ req'[r].attempts = req[r].attempts /\ req'[r].streaming = req[r].streaming
    BY <1>6 DEF Carries
  <2> QED BY <1>1, <2>1 DEF AttemptsBounded
<1>7. CASE Ends(r)
  <2>1. CASE Fresh(r) BY <1>2, <2>1 DEF Fresh
  <2>2. CASE /\ req'[r].pc = "pick" /\ req'[r].attempts = req[r].attempts
             /\ req'[r].streaming = FALSE
    BY <1>1, <2>2 DEF AttemptsBounded
  <2> QED BY <1>7, <2>1, <2>2 DEF Ends
<1> QED BY <1>4, <1>5, <1>6, <1>7 DEF Moves

\* No request has spent anything at the start.
LEMMA InitRequests == Init => RequestInv
<1> SUFFICES ASSUME Init PROVE RequestInv
  OBVIOUS
<1>1. CountInv BY InitCounts
<1>2. \A r \in Requests : req[r].pc = "idle" /\ req[r].attempts = 0
  BY DEF Init, NoRequest
<1>3. \E c \in SettingsChoices : 0 <= c.retries + 1
  <2>1. PICK c \in SettingsChoices : TRUE BY DEF Init
  <2>2. c.retries \in Nat BY ChoicesAreSettings
  <2> QED BY <2>2
<1> QED BY <1>1, <1>2, <1>3 DEF RequestInv, EntryInv, AttemptsBounded

\* Every step keeps the budgets.
LEMMA NextRequests == RequestInv /\ [Next]_vars => RequestInv'
<1> SUFFICES ASSUME RequestInv, [Next]_vars PROVE RequestInv'
  OBVIOUS
<1>1. CountInv /\ CountInv' BY NextCounts DEF RequestInv
<1>2. ASSUME UNCHANGED req PROVE RequestInv'
  BY <1>1, <1>2 DEF RequestInv, EntryInv, AttemptsBounded
<1>3. ASSUME NEW r \in Requests, Route(r) \/ Serve(r) \/ Leave(r) PROVE RequestInv'
  <2>1. Moves(r) /\ UNCHANGED gen BY <1>1, <1>3, RequestEffects DEF CountInv, TypeInv
  <2> QED BY <1>1, <2>1, MovesKeepRequests DEF RequestInv
<1> QED BY <1>2, <1>3 DEF Next, Rebuild, Swap, Elapse, vars

\* The budgets hold in every reachable state (gateway.go relay).
THEOREM RequestsAreBounded == Spec => []RequestInv
BY InitRequests, NextRequests, PTL DEF Spec

\* Settings churn never lifts a request beyond the largest budget, and a
\* streamed body is sent once (gateway.go relay, attemptsMade).
THEOREM AttemptsStayBounded == Spec => []AttemptsBounded
BY RequestsAreBounded, PTL DEF RequestInv

-----------------------------------------------------------------------------
(* Which relay an attempt takes.                                           *)

\* A cooled relay is picked only when its whole selector is cooled
\* (pool.go Pick).
THEOREM CooledComesLast == Spec => CooledIsLastResort
<1>1. ASSUME CountInv, [Next]_vars, NEW r \in Requests,
             Registered(r)', ~Registered(r), heap[req'[r].id][req'[r].obj].down > 0
      PROVE  \A i \in Ids : InPool(gen, i) /\ req[r].key \in {"all", ProviderOf(i)}
                              => ~Up(gen, i)
  <2>1. PICK q \in Requests : Route(q) \/ Serve(q) \/ Leave(q)
    BY <1>1 DEF Next, Rebuild, Swap, Elapse, vars, Registered
  <2>2. Moves(q) BY <1>1, <2>1, RequestEffects DEF CountInv, TypeInv
  <2>3. q = r BY <1>1, <2>2 DEF Moves, Alone, Registered
  <2>4. Starts(r) BY <1>1, <2>2, <2>3 DEF Moves, Waits, Carries, Ends, Registered
  <2> DEFINE id == req'[r].id
  <2>5. id \in Usable(gen, req[r].key) /\ req'[r].obj = gen.relay[id].obj
    BY <2>4 DEF Starts
  <2>6. ~Up(gen, id) BY <1>1, <2>5 DEF Up
  <2> HIDE DEF id
  <2>7. {i \in Candidates(gen, req[r].key) : Up(gen, i)} = {} BY <2>5, <2>6 DEF Usable
  <2> QED BY <2>7 DEF Candidates
<1>2. CountInv /\ [Next]_vars =>
        [\A r \in Requests :
           Registered(r)' /\ ~Registered(r) /\ heap[req'[r].id][req'[r].obj].down > 0
           => \A i \in Ids : InPool(gen, i) /\ (req[r].key \in {"all", ProviderOf(i)})
                               => ~Up(gen, i)]_vars
  BY <1>1
<1> QED BY <1>2, PlaneCounts, PTL DEF Spec, CooledIsLastResort

-----------------------------------------------------------------------------
(* The runtime map.                                                        *)

\* An identity has one object at most, the one of its endpoint, and one as
\* long as it is owned; the generation that is built, or serves when none is,
\* holds the objects of the map.
OwnersInv ==
  /\ \A i \in Ids, e \in Endpoints : entries[i][e] # 0 => e = owner[i]
  /\ \A i \in Ids : owner[i] # NoEndpoint => entries[i][owner[i]] # 0
  /\ ~next.built => \A i \in Ids : InPool(gen, i) =>
       entries[i][gen.relay[i].ep] = gen.relay[i].obj
  /\ next.built => \A i \in Ids : InPool(next, i) =>
       entries[i][next.relay[i].ep] = next.relay[i].obj

RuntimeInv == CountInv /\ OwnersInv

\* No identity owns an object at the start.
LEMMA InitOwners == Init => RuntimeInv
<1> SUFFICES ASSUME Init PROVE RuntimeInv
  OBVIOUS
<1>1. CountInv BY InitCounts
<1>2. PICK c \in SettingsChoices : gen = [NoState EXCEPT !.built = TRUE, !.set = c]
  BY DEF Init
<1>3. NoState \in Generation /\ \A i \in Ids : ~InPool(NoState, i) BY <1>2, Blanks
<1>4. \A i \in Ids : ~InPool(gen, i) /\ ~InPool(next, i)
  BY <1>2, <1>3 DEF Generation, InPool, Init
<1> QED BY <1>1, <1>4 DEF RuntimeInv, OwnersInv, Init

\* Every step keeps the runtime map and the generations in agreement.
LEMMA NextOwners == RuntimeInv /\ [Next]_vars => RuntimeInv'
<1> SUFFICES ASSUME RuntimeInv, [Next]_vars PROVE RuntimeInv'
  OBVIOUS
<1>1. CountInv /\ CountInv' /\ TypeOK /\ OwnersInv
  BY NextCounts DEF RuntimeInv, CountInv, TypeInv
<1>2. CASE Rebuild
  <2>1. /\ next'.built = TRUE /\ \A i \in Ids : Rests(i) \/ Attaches(i)
        /\ entries \in [Ids -> [Endpoints -> Nat]] /\ made \in [Ids -> Nat]
        /\ owner \in [Ids -> Endpoints \cup {NoEndpoint}]
    BY <1>1, <1>2, RebuildEffects DEF TypeOK
  <2>2. ASSUME NEW i \in Ids
        PROVE  /\ \A e \in Endpoints : entries'[i][e] # 0 => e = owner'[i]
               /\ owner'[i] # NoEndpoint => entries'[i][owner'[i]] # 0
               /\ InPool(next, i)' => entries'[i][next'.relay[i].ep] = next'.relay[i].obj
    <3>1. /\ \A e \in Endpoints : Held(i, e) # 0 => e = Prev(i)
          /\ Prev(i) # NoEndpoint => Prev(i) \in Endpoints /\ Held(i, Prev(i)) # 0
          /\ \A e \in Endpoints : Held(i, e) \in Nat
      BY <1>1, <2>1 DEF OwnersInv, Held, Prev
    <3>2. CASE Rests(i) BY <3>1, <3>2 DEF Rests
    <3>3. CASE Attaches(i)
      <4> DEFINE ep == next'.relay[i].ep
      <4>1. /\ ep \in Endpoints /\ owner'[i] = ep
            /\ next'.relay[i].obj = entries'[i][ep]
            /\ entries'[i][ep] = IF Held(i, ep) # 0 THEN Held(i, ep) ELSE made[i] + 1
            /\ \A e \in Endpoints : e # ep => entries'[i][e] = 0 \/ entries'[i][e] = Held(i, e)
            /\ Prev(i) \in Endpoints \ {ep} => entries'[i][Prev(i)] = 0
        BY <3>3 DEF Attaches
      <4> HIDE DEF ep
      <4>2. entries'[i][ep] # 0 BY <2>1, <4>1
      <4>3. ASSUME NEW e \in Endpoints, e # ep PROVE entries'[i][e] = 0
        BY <3>1, <4>1, <4>3
      <4> QED BY <4>1, <4>2, <4>3 DEF ep
    <3> QED BY <2>1, <3>2, <3>3
  <2>3. OwnersInv' BY <2>1, <2>2 DEF OwnersInv
  <2> QED BY <1>1, <2>3 DEF RuntimeInv
<1>3. CASE Swap
  <2>1. /\ next.built /\ gen' = next /\ next' = NoState /\ UNCHANGED <<entries, owner>>
    BY <1>3 DEF Swap
  <2>2. ~next'.built BY <2>1 DEF NoState
  <2>3. OwnersInv' BY <1>1, <2>1, <2>2 DEF OwnersInv, InPool
  <2> QED BY <1>1, <2>3 DEF RuntimeInv
<1>4. ASSUME UNCHANGED <<gen, next, entries, owner>> PROVE RuntimeInv'
  BY <1>1, <1>4 DEF RuntimeInv, OwnersInv, InPool
<1>5. CASE Elapse BY <1>4, <1>5 DEF Elapse, runtime
<1>6. ASSUME NEW r \in Requests, Route(r) \/ Serve(r) \/ Leave(r) PROVE RuntimeInv'
  <2>1. UNCHANGED <<gen, next, runtime>> BY <1>1, <1>6, RequestEffects
  <2> QED BY <1>4, <2>1 DEF runtime
<1>7. CASE UNCHANGED vars BY <1>4, <1>7 DEF vars, runtime
<1> QED BY <1>2, <1>3, <1>5, <1>6, <1>7 DEF Next

\* The runtime map agrees with the generations in every reachable state
\* (runtime.go, main.go buildState).
THEOREM OwnersAgree == Spec => []RuntimeInv
BY InitOwners, NextOwners, PTL DEF Spec

\* A serving relay works on the object the runtime map holds for it, and an
\* identity has at most one (runtime.go owners, Attach).
THEOREM ObjectsAreSingle == Spec => []OneLiveObject
<1>1. RuntimeInv => OneLiveObject BY DEF RuntimeInv, OwnersInv, OneLiveObject
<1> QED BY <1>1, OwnersAgree, PTL

\* Runtime health stays with the endpoint, across every rebuild in which the
\* identity is still desired and has not moved (runtime.go Attach, Prune).
THEOREM HealthIsKept == Spec => HealthFollowsEndpoint
<1>1. ASSUME RuntimeInv, [Next]_vars, NEW i \in wanted',
             owner[i] # NoEndpoint, owner'[i] = owner[i]
      PROVE  entries'[i][owner[i]] = entries[i][owner[i]]
  <2>1. TypeOK /\ OwnersInv BY <1>1 DEF RuntimeInv, CountInv, TypeInv
  <2>2. CASE Rebuild
    <3>1. i \in Ids /\ (Rests(i) \/ Attaches(i)) BY <1>1, <2>1, <2>2, RebuildEffects
    <3>2. owner[i] \in Endpoints /\ entries[i][owner[i]] # 0
      BY <1>1, <2>1, <3>1 DEF TypeOK, OwnersInv
    <3>3. Held(i, owner[i]) = entries[i][owner[i]] BY <1>1 DEF Held
    <3>4. CASE Rests(i) BY <3>2, <3>3, <3>4 DEF Rests
    <3>5. CASE Attaches(i) BY <1>1, <3>2, <3>3, <3>5 DEF Attaches
    <3> QED BY <3>1, <3>4, <3>5
  <2>3. CASE Swap BY <2>3 DEF Swap
  <2>4. CASE Elapse BY <2>4 DEF Elapse, runtime
  <2>5. ASSUME NEW r \in Requests, Route(r) \/ Serve(r) \/ Leave(r) PROVE UNCHANGED entries
    BY <2>1, <2>5, RequestEffects DEF runtime
  <2>6. CASE UNCHANGED vars BY <2>6 DEF vars, runtime
  <2> QED BY <1>1, <2>2, <2>3, <2>4, <2>5, <2>6 DEF Next
<1>2. RuntimeInv /\ [Next]_vars =>
        [\A i \in wanted' : owner[i] # NoEndpoint /\ owner'[i] = owner[i]
           => entries'[i][owner[i]] = entries[i][owner[i]]]_vars
  BY <1>1
<1> QED BY <1>2, OwnersAgree, PTL DEF Spec, HealthFollowsEndpoint

-----------------------------------------------------------------------------
(* Whose health an object is.                                              *)

\* Object o stands for endpoint e of relay i somewhere: in the generation that
\* serves or is built, in the runtime map, or in an attempt.
StandsFor(i, o, e) ==
  \/ InPool(gen, i) /\ gen.relay[i] = [ep |-> e, obj |-> o]
  \/ InPool(next, i) /\ next.relay[i] = [ep |-> e, obj |-> o]
  \/ e \in Endpoints /\ entries[i][e] = o
  \/ \E r \in Requests : Registered(r) /\ req[r].id = i /\ req[r].ep = e /\ req[r].obj = o

Places == Endpoints \cup {NoEndpoint}

\* An object stands for one endpoint, whoever still holds it.
OneEndpointInv ==
  \A i \in Ids, o \in Nat \ {0}, e \in Places, f \in Places :
    StandsFor(i, o, e) /\ StandsFor(i, o, f) => e = f

\* Objects in use have been made (runtime.go Attach).
LEMMA StandingIsMade ==
  ASSUME CountInv, NEW i \in Ids, NEW o \in Nat \ {0}, NEW e \in Places, StandsFor(i, o, e)
  PROVE  o \in 1 .. made[i]
<1>1. /\ made[i] \in Nat
      /\ \A d \in Endpoints : entries[i][d] <= made[i]
      /\ InPool(gen, i) => gen.relay[i].obj \in 1 .. made[i]
      /\ InPool(next, i) => next.relay[i].obj \in 1 .. made[i]
      /\ \A r \in Requests : Registered(r) => req[r].obj \in 1 .. made[req[r].id]
  BY DEF CountInv, TypeInv, TypeOK, ObjectsInv
<1>2. CASE InPool(gen, i) /\ gen.relay[i] = [ep |-> e, obj |-> o] BY <1>1, <1>2
<1>3. CASE InPool(next, i) /\ next.relay[i] = [ep |-> e, obj |-> o] BY <1>1, <1>3
<1>4. CASE e \in Endpoints /\ entries[i][e] = o BY <1>1, <1>4
<1>5. CASE \E r \in Requests : /\ Registered(r) /\ req[r].id = i
                               /\ req[r].ep = e /\ req[r].obj = o
  BY <1>1, <1>5
<1> QED BY <1>2, <1>3, <1>4, <1>5 DEF StandsFor

\* A step binds an object to an endpoint it stood for already, or a new object
\* to the endpoint that is attached (main.go buildState; gateway.go relay).
LEMMA StandingComesFrom ==
  ASSUME CountInv, [Next]_vars,
         NEW i \in Ids, NEW o \in Nat \ {0}, NEW e \in Places, StandsFor(i, o, e)'
  PROVE  StandsFor(i, o, e) \/ (o = made[i] + 1 /\ e = next'.relay[i].ep)
<1>0. TypeOK BY DEF CountInv, TypeInv
<1>1. CASE Rebuild
  <2>1. UNCHANGED <<gen, req>> /\ next' \in Generation /\ (Rests(i) \/ Attaches(i))
    BY <1>0, <1>1, RebuildEffects
  <2>2. ASSUME e \in Endpoints, entries'[i][e] = o
        PROVE  StandsFor(i, o, e) \/ (o = made[i] + 1 /\ e = next'.relay[i].ep)
    <3>1. CASE Rests(i)
      <4>1. entries'[i][e] = Held(i, e) BY <2>2, <3>1 DEF Rests
      <4> QED BY <2>2, <4>1 DEF Held, StandsFor
    <3>2. CASE Attaches(i)
      <4>1. \/ entries'[i][e] = 0 \/ entries'[i][e] = Held(i, e)
            \/ entries'[i][e] = made[i] + 1 /\ e = next'.relay[i].ep
        BY <2>2, <3>2 DEF Attaches
      <4> QED BY <2>2, <4>1 DEF Held, StandsFor
    <3> QED BY <2>1, <3>1, <3>2
  <2>3. ASSUME InPool(next, i)', next'.relay[i] = [ep |-> e, obj |-> o]
        PROVE  e \in Endpoints /\ entries'[i][e] = o
    <3>1. next'.relay[i].ep = e /\ next'.relay[i].obj = o BY <2>3
    <3> QED BY <2>1, <2>3, <3>1 DEF Rests, Attaches
  <2>4. ASSUME UNCHANGED <<gen, req>>,
               \/ InPool(gen, i)' /\ gen'.relay[i] = [ep |-> e, obj |-> o]
               \/ \E r \in Requests : /\ Registered(r)' /\ req'[r].id = i
                                      /\ req'[r].ep = e /\ req'[r].obj = o
        PROVE  StandsFor(i, o, e)
    BY <2>4 DEF StandsFor, InPool, Registered
  <2> QED BY <2>1, <2>2, <2>3, <2>4 DEF StandsFor
<1>2. CASE Swap
  <2>1. gen' = next /\ next' = NoState /\ UNCHANGED <<entries, req>> BY <1>2 DEF Swap
  <2>2. ~InPool(next, i)' BY <1>0, <2>1, Blanks DEF TypeOK, Generation, InPool
  <2> QED BY <2>1, <2>2 DEF StandsFor, InPool, Registered
<1>3. ASSUME UNCHANGED <<gen, next, entries, req>> PROVE StandsFor(i, o, e)
  BY <1>3 DEF StandsFor, InPool, Registered
<1>4. CASE Elapse BY <1>3, <1>4 DEF Elapse, runtime
<1>5. ASSUME NEW r \in Requests, Route(r) \/ Serve(r) \/ Leave(r) PROVE StandsFor(i, o, e)
  <2>1. /\ Moves(r) /\ UNCHANGED <<gen, next, entries>>
        /\ \A q \in Requests : q # r => req'[q] = req[q]
    BY <1>0, <1>5, RequestEffects DEF Moves, Alone, runtime
  <2>2. \/ InPool(gen, i) /\ gen.relay[i] = [ep |-> e, obj |-> o]
        \/ InPool(next, i) /\ next.relay[i] = [ep |-> e, obj |-> o]
        \/ e \in Endpoints /\ entries[i][e] = o
        \/ \E q \in Requests : /\ Registered(q)' /\ req'[q].id = i
                               /\ req'[q].ep = e /\ req'[q].obj = o
    BY <2>1 DEF StandsFor, InPool
  <2>3. ASSUME NEW q \in Requests, q # r, Registered(q)', req'[q].id = i,
               req'[q].ep = e, req'[q].obj = o
        PROVE  StandsFor(i, o, e)
    BY <2>1, <2>3 DEF StandsFor, Registered
  <2>4. ASSUME Registered(r)', req'[r].id = i, req'[r].ep = e, req'[r].obj = o
        PROVE  StandsFor(i, o, e)
    <3>1. CASE Starts(r)
      <4>1. InPool(gen, i) /\ e = gen.relay[i].ep /\ o = gen.relay[i].obj
        BY <2>4, <3>1, UsableServe DEF Starts
      <4>2. gen.relay[i] \in Serving BY <1>0 DEF TypeOK, Generation
      <4>3. gen.relay[i] = [ep |-> e, obj |-> o] BY <4>1, <4>2 DEF Serving
      <4> QED BY <4>1, <4>3 DEF StandsFor
    <3>2. CASE Carries(r)
      <4>1. req'[r].id = req[r].id /\ req'[r].ep = req[r].ep /\ req'[r].obj = req[r].obj
            /\ Registered(r)
        BY <3>2 DEF Carries, Registered
      <4> QED BY <2>4, <4>1 DEF StandsFor
    <3> QED BY <2>1, <2>4, <3>1, <3>2 DEF Moves, Waits, Ends
  <2> QED BY <2>2, <2>3, <2>4 DEF StandsFor
<1>6. CASE UNCHANGED vars BY <1>3, <1>6 DEF vars, runtime
<1> QED BY <1>1, <1>2, <1>3, <1>4, <1>5, <1>6 DEF Next

\* No object stands for anything at the start.
LEMMA InitStanding == Init => OneEndpointInv
<1> SUFFICES ASSUME Init, NEW i \in Ids, NEW o \in Nat \ {0}, NEW e \in Places
             PROVE  ~StandsFor(i, o, e)
  BY DEF OneEndpointInv
<1>1. PICK c \in SettingsChoices : gen = [NoState EXCEPT !.built = TRUE, !.set = c]
  BY DEF Init
<1>2. NoState \in Generation /\ \A j \in Ids : ~InPool(NoState, j) BY <1>1, Blanks
<1>3. ~InPool(gen, i) /\ ~InPool(next, i)
  BY <1>1, <1>2 DEF Generation, InPool, Init
<1>4. \A r \in Requests : ~Registered(r) BY DEF Init, NoRequest, Registered
<1> QED BY <1>3, <1>4 DEF StandsFor, Init

\* A new number is no object's yet, so every step keeps objects and endpoints
\* apart.
LEMMA NextStanding ==
  CountInv /\ OneEndpointInv /\ [Next]_vars => OneEndpointInv'
<1> SUFFICES ASSUME CountInv, OneEndpointInv, [Next]_vars,
                    NEW i \in Ids, NEW o \in Nat \ {0}, NEW e \in Places, NEW f \in Places,
                    StandsFor(i, o, e)', StandsFor(i, o, f)'
             PROVE  e = f
  BY DEF OneEndpointInv
<1>1. made[i] \in Nat BY DEF CountInv, TypeInv, TypeOK
<1>2. StandsFor(i, o, e) \/ (o = made[i] + 1 /\ e = next'.relay[i].ep)
  BY StandingComesFrom
<1>3. StandsFor(i, o, f) \/ (o = made[i] + 1 /\ f = next'.relay[i].ep)
  BY StandingComesFrom
<1>4. \A d \in Places : StandsFor(i, o, d) => o <= made[i] BY <1>1, StandingIsMade
<1>5. StandsFor(i, o, e) /\ StandsFor(i, o, f) => e = f BY DEF OneEndpointInv
<1>6. ~(o = made[i] + 1 /\ o <= made[i]) BY <1>1
<1> QED BY <1>2, <1>3, <1>4, <1>5, <1>6

\* The verdict of an attempt whose relay has moved meanwhile is never counted
\* against the endpoint it moved to, for any number of moves, rebuilds and
\* requests (runtime.go Attach; pool.go RecordFailure).
THEOREM HealthIsNotInherited == Spec => []HealthIsItsOwn
<1>1. Init => CountInv /\ OneEndpointInv BY InitCounts, InitStanding
<1>2. CountInv /\ OneEndpointInv /\ [Next]_vars => (CountInv /\ OneEndpointInv)'
  BY NextCounts, NextStanding
<1>3. CountInv /\ OneEndpointInv => HealthIsItsOwn
  <2> SUFFICES ASSUME CountInv, OneEndpointInv, NEW r \in Requests, Registered(r),
                      NEW e \in Endpoints, entries[req[r].id][e] = req[r].obj
               PROVE  e = req[r].ep
    BY DEF HealthIsItsOwn
  <2>1. /\ req[r].id \in Ids /\ req[r].obj \in 1 .. made[req[r].id]
        /\ req[r].ep \in Places /\ e \in Places
    BY DEF CountInv, TypeInv, TypeOK, ObjectsInv, Locals, Places
  <2>2. made[req[r].id] \in Nat BY <2>1 DEF CountInv, TypeInv, TypeOK
  <2>3. req[r].obj \in Nat \ {0} BY <2>1, <2>2
  <2>4. StandsFor(req[r].id, req[r].obj, e) BY DEF StandsFor
  <2>5. StandsFor(req[r].id, req[r].obj, req[r].ep) BY DEF StandsFor
  <2> QED BY <2>1, <2>3, <2>4, <2>5 DEF OneEndpointInv
<1> QED BY <1>1, <1>2, <1>3, PTL DEF Spec

-----------------------------------------------------------------------------
(* The loop implements module Traffic.                                     *)

\* The endpoints a relay has attempts on.
Busy(i) == {req[r].ep : r \in Carried(i)}

\* A move of one request is a start, an end or nothing at all to the wire.
LEMMA MovesOnWire ==
  ASSUME CountInv, NEW r \in Requests, Moves(r)
  PROVE  \/ \A i \in Ids : Busy(i)' = Busy(i)
         \/ \E i \in Ids : /\ gen.relay[i].ep # NoEndpoint
                           /\ Busy(i)' = Busy(i) \cup {gen.relay[i].ep}
                           /\ \A j \in Ids : j # i => Busy(j)' = Busy(j)
         \/ \E i \in Ids, ep \in Endpoints \cup {NoEndpoint} :
              /\ ep \in Busy(i) /\ Busy(i)' = Busy(i) \ {ep}
              /\ \A j \in Ids : j # i => Busy(j)' = Busy(j)
<1>1. /\ \A q \in Requests : q # r => req'[q] = req[q]
      /\ req[r] \in Locals /\ TypeInv
  BY DEF Moves, Alone, CountInv, TypeInv, TypeOK
<1>2. CASE Waits(r)
  <2>1. \A i \in Ids : Busy(i)' = Busy(i)
    BY <1>1, <1>2 DEF Waits, Busy, Carried, Registered
  <2> QED BY <2>1
<1>3. CASE Carries(r)
  <2>1. /\ req'[r].id = req[r].id /\ req'[r].ep = req[r].ep /\ Registered(r) /\ Registered(r)'
    BY <1>3 DEF Carries, Registered
  <2>2. \A i \in Ids : Busy(i)' = Busy(i)
    BY <1>1, <2>1 DEF Busy, Carried, Registered
  <2> QED BY <2>2
<1>4. CASE Starts(r)
  <2>1. PICK i \in Ids : i = req'[r].id /\ InPool(gen, i) /\ req'[r].ep = gen.relay[i].ep
    BY <1>4, UsableServe DEF Starts
  <2>2. ~Registered(r) /\ Registered(r)' BY <1>4 DEF Starts, Registered
  <2>3. Busy(i)' = Busy(i) \cup {gen.relay[i].ep}
    BY <1>1, <2>1, <2>2 DEF Busy, Carried, Registered
  <2>4. \A j \in Ids : j # i => Busy(j)' = Busy(j)
    BY <1>1, <2>1, <2>2 DEF Busy, Carried, Registered
  <2> QED BY <2>1, <2>3, <2>4 DEF InPool
<1>5. CASE Ends(r)
  <2>1. PICK i \in Ids : i = req[r].id
    BY <1>1, <1>5 DEF Ends, TypeInv, ObjectsInv
  <2>2. PICK ep \in Endpoints \cup {NoEndpoint} : ep = req[r].ep BY <1>1 DEF Locals
  <2>3. Registered(r) /\ ~Registered(r)' BY <1>5 DEF Ends
  <2>4. Carried(i)' = Carried(i) \ {r} /\ r \in Carried(i)
    BY <1>1, <2>1, <2>3 DEF Carried, Registered
  <2>5. \A j \in Ids : j # i => Busy(j)' = Busy(j)
    BY <1>1, <2>1, <2>3 DEF Busy, Carried, Registered
  <2>6. Busy(i)' = {req[q].ep : q \in Carried(i) \ {r}}
    BY <1>1, <2>4 DEF Busy, Carried
  <2>7. ep \in Busy(i) BY <2>2, <2>4 DEF Busy
  <2>8. CASE \E q \in Carried(i) \ {r} : req[q].ep = ep
    <3>1. Busy(i)' = Busy(i) BY <2>2, <2>6, <2>8 DEF Busy
    <3> QED BY <2>5, <3>1
  <2>9. CASE \A q \in Carried(i) \ {r} : req[q].ep # ep
    <3>1. Busy(i)' = Busy(i) \ {ep} BY <2>2, <2>4, <2>6, <2>9 DEF Busy
    <3> QED BY <2>5, <2>7, <3>1
  <2> QED BY <2>8, <2>9
<1> QED BY <1>2, <1>3, <1>4, <1>5 DEF Moves

\* The attempt loop is module Traffic: an attempt begins only on what the
\* serving pool holds at that moment, a swap touches none, and each ends
\* (gateway.go Swap, relay).
THEOREM PlaneImplementsTraffic == Spec => ImplementsTraffic
<1> DEFINE P == [i \in Ids |-> gen.relay[i].ep]
           B == [i \in Ids |-> {req[r].ep : r \in {q \in Requests :
                                                    Registered(q) /\ req[q].id = i}}]
<1>1. /\ \A i \in Ids : B[i] = Busy(i) /\ B'[i] = Busy(i)'
      /\ (\A i \in Ids : Busy(i)' = Busy(i)) => B' = B
  BY DEF Busy, Carried
<1>2. ASSUME NEW i \in Ids, \A j \in Ids : j # i => Busy(j)' = Busy(j)
      PROVE  B' = [B EXCEPT ![i] = Busy(i)']
  <2>1. B = [j \in Ids |-> Busy(j)] BY DEF Busy, Carried
  <2>2. B' = [j \in Ids |-> Busy(j)'] BY DEF Busy, Carried
  <2> HIDE DEF B
  <2>3. [B EXCEPT ![i] = Busy(i)'] = [j \in Ids |-> Busy(j)'] BY <1>2, <2>1
  <2> QED BY <2>2, <2>3
<1>3. Init => Wire!Init
  <2> SUFFICES ASSUME Init
               PROVE  P = [i \in Ids |-> NoEndpoint] /\ B = [i \in Ids |-> {}]
    BY DEF Wire!Init
  <2>1. PICK c \in SettingsChoices : gen = [NoState EXCEPT !.built = TRUE, !.set = c]
    BY DEF Init
  <2>2. NoState \in Generation /\ \A i \in Ids : ~InPool(NoState, i) BY <2>1, Blanks
  <2>3. \A i \in Ids : gen.relay[i].ep = NoEndpoint
    BY <2>1, <2>2 DEF Generation, InPool
  <2>4. \A r \in Requests : ~Registered(r) BY DEF Init, NoRequest, Registered
  <2> QED BY <2>3, <2>4
<1>4. CountInv /\ [Next]_vars => [Wire!Next]_(Wire!vars)
  <2> SUFFICES ASSUME CountInv, [Next]_vars
               PROVE  Wire!Next \/ (P' = P /\ B' = B)
    BY DEF Wire!vars
  <2>1. ASSUME UNCHANGED req PROVE Wire!Next
    <3>1. \A i \in Ids : Busy(i)' = Busy(i) BY <2>1 DEF Busy, Carried, Registered
    <3>2. B' = B BY <1>1, <3>1
    <3> QED BY <3>2 DEF Wire!Next, Wire!Swap
  <2>2. CASE Rebuild BY <2>1, <2>2 DEF Rebuild
  <2>3. CASE Swap BY <2>1, <2>3 DEF Swap
  <2>4. CASE Elapse BY <2>1, <2>4 DEF Elapse
  <2>5. CASE UNCHANGED vars BY <2>1, <2>5 DEF vars
  <2>6. ASSUME NEW r \in Requests, Route(r) \/ Serve(r) \/ Leave(r)
        PROVE  Wire!Next \/ (P' = P /\ B' = B)
    <3>1. Moves(r) /\ UNCHANGED gen BY <2>6, RequestEffects DEF CountInv, TypeInv
    <3>2. P' = P BY <3>1
    <3>3. CASE \A i \in Ids : Busy(i)' = Busy(i) BY <1>1, <3>2, <3>3
    <3>4. ASSUME NEW i \in Ids, gen.relay[i].ep # NoEndpoint,
                 Busy(i)' = Busy(i) \cup {gen.relay[i].ep},
                 \A j \in Ids : j # i => Busy(j)' = Busy(j)
          PROVE  Wire!Next
      <4>1. P[i] = gen.relay[i].ep /\ P[i] # NoEndpoint BY <3>4
      <4>2. B' = [B EXCEPT ![i] = @ \cup {P[i]}] BY <1>1, <1>2, <3>4, <4>1
      <4> HIDE DEF P, B
      <4> QED BY <3>2, <4>1, <4>2 DEF Wire!Next, Wire!Start, P, B
    <3>5. ASSUME NEW i \in Ids, NEW ep \in Endpoints \cup {NoEndpoint}, ep \in Busy(i),
                 Busy(i)' = Busy(i) \ {ep},
                 \A j \in Ids : j # i => Busy(j)' = Busy(j)
          PROVE  Wire!Next
      <4>1. ep \in B[i] BY <1>1, <3>5
      <4>2. B' = [B EXCEPT ![i] = @ \ {ep}] BY <1>1, <1>2, <3>5
      <4> QED BY <3>2, <4>1, <4>2 DEF Wire!Next, Wire!End
    <3> QED BY <2>6, <3>1, <3>3, <3>4, <3>5, MovesOnWire
  <2> QED BY <2>2, <2>3, <2>4, <2>5, <2>6 DEF Next
<1> QED
  BY <1>3, <1>4, PlaneCounts, PTL DEF Spec, ImplementsTraffic, Wire!Spec

Relied == INSTANCE TrafficProofs WITH
            pool <- [i \in Ids |-> gen.relay[i].ep],
            busy <- [i \in Ids |-> {req[r].ep : r \in {q \in Requests :
                                                        Registered(q) /\ req[q].id = i}}]

\* So what AwaitIdle answered stays true: a relay out of the serving pool and
\* idle carries nothing until a swap brings it back (gateway.go AwaitIdle).
THEOREM PlaneStaysDrained == Spec => Relied!DrainedStaysDrained
<1>1. ImplementsTraffic => Relied!Spec
  BY DEF ImplementsTraffic, Wire!Spec, Wire!Init, Wire!Next, Wire!vars,
         Wire!Swap, Wire!Start, Wire!End, Relied!Spec, Relied!Init,
         Relied!Next, Relied!vars, Relied!Swap, Relied!Start, Relied!End
<1> QED
  BY <1>1, PlaneImplementsTraffic, Relied!TrafficStaysDrained
=============================================================================
