------------------------- MODULE MCRegistryClients -------------------------
(* Instances of RegistryClients for TLC. *)
EXTENDS RegistryClients, TLC

CONSTANTS s1, s2

\* One deployment per scope: an endpoint is named by the scope it lives in.
OneHost == {<<s, "host">> : s \in {s1, s2}}

InScope(ep, s) == ep[1] = s

Powers == [n \in 0 .. StreakCap |-> 2^n]

Slow   == [base |-> 2, max |-> 3, recover |-> 1, pause |-> 3, demoteAfter |-> 2]
Brisk  == [base |-> 1, max |-> 2, recover |-> 1, pause |-> 2, demoteAfter |-> 1]

SlowOrBrisk == {Slow, Brisk}

Symmetry == Permutations(Clients)
=============================================================================
