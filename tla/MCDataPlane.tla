---------------------------- MODULE MCDataPlane ----------------------------
(* Instances of DataPlane for TLC. *)
EXTENDS DataPlane, TLC

CONSTANTS a, b, q1, q2, e1, e2

TwoPlatforms(i) == IF i = a THEN "vercel" ELSE "deno"

Limit(p) == IF p = "vercel" THEN 1 ELSE 2

PairOfRelays == <<a, b>>

\* Relay a can be pinned elsewhere or come back under another URL.
OnlyAMoves(i) == IF i = a THEN {e1, e2} ELSE {e1}
NoneMoves(i)  == {e1}

OneObject(i)  == 1
OneEach(i)    == IF i = a THEN 2 ELSE 1

Once    == [retries |-> 0, stream |-> 0, threshold |-> 1, cooldown |-> 1]
Twice   == [retries |-> 1, stream |-> 0, threshold |-> 2, cooldown |-> 1]
Streams == [retries |-> 1, stream |-> 1, threshold |-> 1, cooldown |-> 1]

Retry   == [retries |-> 1, stream |-> 0, threshold |-> 1, cooldown |-> 1]

OnlyRetry   == {Retry}
OnceOrTwice == {Once, Twice}
OnceOrStream == {Once, Streams}

Symmetry == Permutations(Requests)
=============================================================================
