---------------------------- MODULE TrafficProofs ----------------------------
(***************************************************************************)
(* What follows from module Traffic alone, and so holds of every module    *)
(* that implements it.                                                     *)
(***************************************************************************)
EXTENDS Traffic, TLAPS

\* A drained relay stays drained until a swap brings it back: what AwaitIdle
\* answered true to is still true when the deploy runs (gateway.go AwaitIdle,
\* reconcile.go rollout).
THEOREM TrafficStaysDrained == Spec => DrainedStaysDrained
<1>1. [Next]_vars => [\A i \in Ids : Drained(i) => busy'[i] = {}]_vars
  <2> SUFFICES ASSUME Next, NEW i \in Ids, Drained(i)
               PROVE  busy'[i] = {}
    OBVIOUS
  <2>1. CASE Swap BY <2>1 DEF Swap, Drained
  <2>2. ASSUME NEW j \in Ids, Start(j) PROVE busy'[i] = {}
    BY <2>2 DEF Start, Drained
  <2>3. ASSUME NEW j \in Ids, NEW ep \in busy[j], End(j, ep) PROVE busy'[i] = {}
    BY <2>3 DEF End, Drained
  <2> QED BY <2>1, <2>2, <2>3 DEF Next
<1> QED
  BY <1>1, PTL DEF Spec, DrainedStaysDrained
=============================================================================
