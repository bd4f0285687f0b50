------------------------------- MODULE Traffic -------------------------------
(***************************************************************************)
(* What the data plane promises the control loop, and nothing more: the    *)
(* serving pool is replaced as a whole (gateway.go Swap), an attempt       *)
(* starts only on the endpoint the pool holds for its relay at that moment *)
(* (relay: Pick and inflight.begin under the swap's mutex), and it ends.   *)
(* A rollout that has seen its relay out of the pool and idle may rely on  *)
(* it: DrainedStaysDrained.  DataPlane implements this with its attempt    *)
(* loop; Fleet runs its rollouts against it.                               *)
(***************************************************************************)
CONSTANTS
  Ids,       \* relay identities
  NoEndpoint

VARIABLES
  pool, \* the endpoint each relay is served at, or NoEndpoint
  busy  \* the endpoints each relay has attempts on

vars == <<pool, busy>>

Init == /\ pool = [i \in Ids |-> NoEndpoint]
        /\ busy = [i \in Ids |-> {}]

Swap == UNCHANGED busy

Start(i) == /\ pool[i] # NoEndpoint
            /\ busy' = [busy EXCEPT ![i] = @ \cup {pool[i]}]
            /\ UNCHANGED pool

End(i, ep) == /\ ep \in busy[i]
              /\ busy' = [busy EXCEPT ![i] = @ \ {ep}]
              /\ UNCHANGED pool

Next == Swap \/ \E i \in Ids : Start(i) \/ \E ep \in busy[i] : End(i, ep)

Spec == Init /\ [][Next]_vars

-----------------------------------------------------------------------------
Drained(i) == pool[i] = NoEndpoint /\ busy[i] = {}

\* A relay that is out of the pool and idle stays idle until a swap brings it
\* back (gateway.go AwaitIdle: what it answered stays true).
DrainedStaysDrained ==
  [][\A i \in Ids : Drained(i) => busy'[i] = {}]_vars
=============================================================================
