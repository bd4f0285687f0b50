------------------------------ MODULE MCFleet ------------------------------
(* Instances of Fleet for TLC. *)
EXTENDS Fleet, FiniteSets, TLC

CONSTANT k1

AllEndpoints == Scopes \X Hosts

Powers == [n \in 0 .. StreakCap |-> 2^n]

Quick == [base |-> 1, max |-> 1, recover |-> 1, pause |-> 1, demoteAfter |-> 1]

OnePlatform(k) == "deno"

\* Every relay has its own project; all have the first one's.
OwnProject(k)   == k
FirstProject(k) == k1

Bounds(edits, faults, drifts, timeouts, stops, members) ==
  [edits |-> edits, faults |-> faults, drifts |-> drifts,
   timeouts |-> timeouts, stops |-> stops, members |-> members]

\* One relay, wherever it is pinned; all relays, pinned to the same scope.
OnlyFirst == {d \in Members : \A k \in Keys \ {k1} : d[k] = Gone}
Together  == {d \in Members : \E s \in Scopes : \A k \in Keys : d[k] \in {s, Gone}}

\* Every pair of disturbances that can meet on one relay, all at once, a stop
\* in a rollout and a rollout begun after it, and two relays that drift under
\* one pass.
Mixed == {Bounds(2, 1, 1, 0, 0, OnlyFirst), Bounds(2, 0, 1, 1, 0, OnlyFirst),
          Bounds(1, 1, 1, 1, 0, OnlyFirst), Bounds(1, 0, 1, 0, 2, OnlyFirst),
          Bounds(1, 0, 1, 0, 0, Together)}

\* A failure and a removal; a removal or a replacement that a straggler
\* defers; a replacement and a stop anywhere in it; a first deployment, a stop
\* anywhere in it and one pass begun after it.
Retried == {Bounds(2, 1, 0, 0, 0, Members), Bounds(2, 0, 0, 1, 0, Members),
            Bounds(1, 0, 1, 1, 0, Members), Bounds(1, 0, 1, 0, 1, Members),
            Bounds(1, 0, 0, 0, 2, Members)}

\* Scopes are interchangeable: nothing chooses one of them.
ScopeSymmetry == Permutations(Scopes)

\* The first relay, or another one in its place.
Renames  == {d \in Together : Cardinality({k \in Keys : d[k] # Gone}) = 1}

OneDrift == {Bounds(1, 0, 1, 0, 0, Members)}
OneBlip  == {Bounds(1, 1, 1, 0, 0, Members)}
Renamed  == {Bounds(2, 0, 0, 1, 0, Renames)}
TwoFlips == {Bounds(3, 1, 0, 0, 0, Members)}
=============================================================================
