---------------------------- MODULE RegistryLemmas ----------------------------
(***************************************************************************)
(* What each method of the registry preserves, for every registry: typing, *)
(* the exactness of the cached count, labels that agree with admission,    *)
(* and the identity of the entries the method does not work on.            *)
(*                                                                         *)
(* Then what each method tells its readers: how the counter and the        *)
(* wake-up token of the applier move, and what becomes of the admission    *)
(* and of the terms a rollout relies on - the scope of the incarnation,    *)
(* the verified endpoint and the drain still owed - and how far away it    *)
(* may move the gate.                                                      *)
(***************************************************************************)
EXTENDS Registry, FiniteSetTheorems, TLAPS

-----------------------------------------------------------------------------
(* Typing: every method maps a registry to a registry. *)

\* A duration that fits is itself; one that does not is some duration.
LEMMA WrappedType ==
  ASSUME NEW n \in Nat
  PROVE  /\ Wrapped(n) \in Int
         /\ 2 * n < DurationMod => Wrapped(n) = n
<1> DEFINE m == n % DurationMod
<1>1. m \in 0 .. DurationMod - 1
  BY BoundsAreNat
<1>2. ASSUME 2 * n < DurationMod PROVE m = n
  BY <1>2, BoundsAreNat
<1> HIDE DEF m
<1>3. Wrapped(n) = IF 2 * m < DurationMod THEN m ELSE m - DurationMod
  BY DEF Wrapped, m
<1> QED
  BY <1>1, <1>2, <1>3, BoundsAreNat

\* Whatever the streak, and whether or not its product wraps, the gate that
\* backoffLocked arms is neither open nor beyond the maximum, nor beyond
\* RecoverMax while nothing serves (registry.go backoffLocked, the check of
\* wait against BackoffMax and zero).
THEOREM BackoffIsBounded ==
  ASSUME NEW cfg \in Settings, NEW streak \in 0 .. StreakCap, NEW ready \in Int
  PROVE  /\ Delay(cfg, streak, ready) \in 1 .. cfg.max
         /\ ready = 0 => Delay(cfg, streak, ready) <= cfg.recover
<1> DEFINE n == IF streak > 1 THEN streak - 1 ELSE 0
           product == cfg.base * Doubling[n]
           grown == Grown(cfg.base, streak)
           capped == IF grown <= 0 THEN cfg.max ELSE Least(grown, cfg.max)
<1>1. cfg.base \in Nat /\ cfg.max \in Nat \ {0} /\ cfg.recover \in Nat \ {0}
  BY DEF Settings
<1>2. product \in Nat
  <2>1. n \in 0 .. StreakCap
    BY BoundsAreNat
  <2> HIDE DEF n
  <2>2. Doubling[n] \in Nat
    BY <2>1, DoublingDoubles
  <2> QED
    BY <1>1, <2>2
<1>3. grown \in Int
  <2>1. grown = Wrapped(product)
    BY DEF Grown
  <2> HIDE DEF product, grown
  <2> QED
    BY <1>2, <2>1, WrappedType
<1> HIDE DEF grown
<1>4. capped \in 1 .. cfg.max
  BY <1>1, <1>3 DEF Least
<1>5. Delay(cfg, streak, ready) = IF ready = 0 THEN Least(capped, cfg.recover) ELSE capped
  BY DEF Delay, grown
<1> HIDE DEF capped
<1> QED
  BY <1>1, <1>4, <1>5 DEF Least

\* As long as the product fits, each failure doubles the delay up to the
\* maximum, and no failure brings the next attempt closer (registry.go
\* backoffLocked).  A product that wraps may: it is taken for the maximum only
\* where it turns out negative, zero or beyond it.
THEOREM BackoffDoubles ==
  ASSUME NEW cfg \in Settings, NEW streak \in 1 .. StreakCap - 1, NEW ready \in Int,
         2 * (cfg.base * Doubling[streak]) < DurationMod
  PROVE  /\ ready # 0 =>
              Delay(cfg, streak + 1, ready) = Least(cfg.base * Doubling[streak], cfg.max)
         /\ Delay(cfg, streak, ready) <= Delay(cfg, streak + 1, ready)
<1> DEFINE small == Doubling[streak - 1]
           large == Doubling[streak]
           base == cfg.base
           a == base * small
           b == base * large
<1>1. base \in Nat \ {0} /\ cfg.max \in Nat \ {0} /\ cfg.recover \in Nat \ {0}
  BY DEF Settings
<1>2. a \in Nat \ {0} /\ b \in Nat \ {0} /\ b = 2 * a
  <2>1. small \in Nat \ {0} /\ large \in Nat \ {0} /\ large = 2 * small
    BY BoundsAreNat, DoublingDoubles
  <2> HIDE DEF small, large, base
  <2> QED
    BY <1>1, <2>1
<1>3. 2 * b < DurationMod
  OBVIOUS
<1>4. (IF streak > 1 THEN streak - 1 ELSE 0) = streak - 1
      /\ (IF streak + 1 > 1 THEN streak + 1 - 1 ELSE 0) = streak
  BY BoundsAreNat
<1>5. Grown(base, streak) = Wrapped(a) /\ Grown(base, streak + 1) = Wrapped(b)
  BY <1>4 DEF Grown
<1> HIDE DEF a, b
<1>6. 2 * a < DurationMod
  BY <1>2, <1>3, BoundsAreNat
<1>7. Wrapped(a) = a /\ Wrapped(b) = b
  BY <1>2, <1>3, <1>6, WrappedType
<1> DEFINE delay(p) == LET capped == Least(p, cfg.max)
                       IN  IF ready = 0 THEN Least(capped, cfg.recover) ELSE capped
<1>8. Delay(cfg, streak, ready) = delay(a) /\ Delay(cfg, streak + 1, ready) = delay(b)
  <2>1. ~(a <= 0) /\ ~(b <= 0)
    BY <1>2
  <2>2. Grown(cfg.base, streak) = a /\ Grown(cfg.base, streak + 1) = b
    BY <1>5, <1>7
  <2> HIDE DEF base
  <2> QED
    BY <2>1, <2>2 DEF Delay
<1>9. delay(a) <= delay(b)
  BY <1>1, <1>2 DEF Least
<1>10. ready # 0 => delay(b) = Least(b, cfg.max)
  OBVIOUS
<1> QED
  BY <1>8, <1>9, <1>10 DEF b, base, large

\* So it is a natural number of units.
LEMMA DelayType ==
  ASSUME NEW cfg \in Settings, NEW streak \in 0 .. StreakCap, NEW ready \in Int
  PROVE  Delay(cfg, streak, ready) \in Nat
<1>1. cfg.max \in Nat
  BY DEF Settings
<1> QED
  BY <1>1, BackoffIsBounded

\* A new entry, and the absence of one.
LEMMA FreshType ==
  ASSUME NEW obj \in Nat, NEW scope \in Scopes \cup {Unknown}
  PROVE  /\ Fresh(obj, scope) \in Entry
         /\ Absent(obj) \in Entry
<1>1. \A s \in Scopes \cup {Unknown} : Fresh(obj, s) \in Entry
  <2>1. 0 \in 0 .. StreakCap
    BY BoundsAreNat
  <2>2. "configured" \in States /\ "" \in Reasons
    BY DEF States, Reasons
  <2>3. QED
    BY <2>1, <2>2 DEF Fresh, Entry
<1>2. Absent(obj) \in Entry
  <2>1. Fresh(obj, Unknown) \in Entry
    BY <1>1
  <2>2. [Fresh(obj, Unknown) EXCEPT !.present = FALSE, !.gen = 0] \in Entry
    BY <2>1 DEF Entry
  <2>3. QED
    BY <2>2 DEF Absent
<1>3. QED
  BY <1>1, <1>2

(* The internals. *)

\* Replacing an entry by an entry.
LEMMA WithType ==
  ASSUME NEW R \in Registries, NEW k \in Keys, NEW e \in Entry
  PROVE  With(R, k, e) \in Registries
BY DEF With, Registries

\* notifyLocked wraps the counter.
LEMMA NotifiedType ==
  ASSUME NEW R \in Registries, NEW n \in Nat
  PROVE  NotifiedTimes(R, n) \in Registries
<1>1. (R.seq + n) % SeqMod \in Nat
  BY BoundsAreNat DEF Registries
<1>2. QED
  BY <1>1 DEF NotifiedTimes, Registries

-----------------------------------------------------------------------------
(***************************************************************************)
(* Soundness of a registry: it is well typed, an entry that holds admission*)
(* exists and carries no phase that means "out", and the cached count is   *)
(* exact.                                                                  *)
(***************************************************************************)
Out == {"configured", "failed", "unready", "paused", "removing"}

EntryOK(e) == e.serving => e.present /\ e.state \notin Out

Served(R) == {k \in Keys : R.entries[k].serving}

Sound(R) == /\ R \in Registries
            /\ \A k \in Keys : EntryOK(R.entries[k])
            /\ R.ready = Cardinality(Served(R))

\* The steps below touch k only, and neither its identity nor its hold.
Identity(e) == <<e.present, e.obj, e.gen, e.busy>>

Frame(R, S, k) ==
  /\ \A j \in Keys \ {k} : S.entries[j] = R.entries[j]
  /\ Identity(S.entries[k]) = Identity(R.entries[k])
  /\ S.cfg = R.cfg

\* Two steps on the same key, one after the other.
LEMMA FrameTrans ==
  ASSUME NEW R, NEW S, NEW T, NEW k, Frame(R, S, k), Frame(S, T, k)
  PROVE  Frame(R, T, k)
BY DEF Frame

\* The serving set is countable: ReadyCount is a cardinality.
LEMMA ServedFinite ==
  ASSUME NEW R
  PROVE  IsFiniteSet(Served(R)) /\ Cardinality(Served(R)) \in Nat
BY KeysFinite, FS_Subset, FS_CardinalityType DEF Served

\* Replacing an entry by one with the same admission.
LEMMA WithSound ==
  ASSUME NEW R, Sound(R), NEW k \in Keys, NEW e \in Entry,
         EntryOK(e), e.serving = R.entries[k].serving
  PROVE  Sound(With(R, k, e))
<1>1. With(R, k, e) \in Registries
  BY WithType DEF Sound
<1>2. \A j \in Keys : With(R, k, e).entries[j]
                      = IF j = k THEN e ELSE R.entries[j]
  BY DEF With, Sound, Registries
<1>3. With(R, k, e).ready = R.ready
  BY DEF With, Sound, Registries
<1>4. Served(With(R, k, e)) = Served(R)
  BY <1>2 DEF Served
<1>5. QED
  BY <1>1, <1>2, <1>3, <1>4 DEF Sound

\* What With leaves alone.
LEMMA WithFrame ==
  ASSUME NEW R \in Registries, NEW k \in Keys, NEW e,
         Identity(e) = Identity(R.entries[k])
  PROVE  /\ Frame(R, With(R, k, e), k)
         /\ With(R, k, e).entries[k] = e
BY DEF With, Frame, Registries

\* notifyLocked touches no entry.
LEMMA NotifiedSound ==
  ASSUME NEW R, Sound(R), NEW n \in Nat
  PROVE  /\ Sound(NotifiedTimes(R, n))
         /\ \A k \in Keys : Frame(R, NotifiedTimes(R, n), k)
         /\ NotifiedTimes(R, n).entries = R.entries
<1>1. NotifiedTimes(R, n) \in Registries
  BY NotifiedType DEF Sound
<1>2. /\ NotifiedTimes(R, n).entries = R.entries
      /\ NotifiedTimes(R, n).ready = R.ready
      /\ NotifiedTimes(R, n).cfg = R.cfg
  BY DEF NotifiedTimes, Sound, Registries
<1>3. Served(NotifiedTimes(R, n)) = Served(R)
  BY <1>2 DEF Served
<1>4. QED
  BY <1>1, <1>2, <1>3 DEF Sound, Frame

\* Whatever k's label is: the revocation makes an entry that holds none.
LEMMA RevokedSound ==
  ASSUME NEW R, NEW k \in Keys, R \in Registries,
         \A j \in Keys \ {k} : EntryOK(R.entries[j]),
         R.ready = Cardinality(Served(R))
  PROVE  /\ Sound(Revoked(R, k))
         /\ Frame(R, Revoked(R, k), k)
         /\ Revoked(R, k).entries[k]
              = [R.entries[k] EXCEPT !.serving = FALSE]
<1> DEFINE e == R.entries[k]
           f == [e EXCEPT !.serving = FALSE]
           W == With(R, k, f)
           S == [W EXCEPT !.ready = @ - 1]
<1>1. e \in Entry /\ f \in Entry /\ Identity(f) = Identity(e)
  BY DEF Registries, Entry, Identity
<1>2. CASE ~e.serving
  <2>1. Revoked(R, k) = R
    BY <1>2 DEF Revoked
  <2>2. f = e
    BY <1>1, <1>2 DEF Entry
  <2>3. Sound(R)
    BY <1>2 DEF Sound, EntryOK
  <2>4. QED
    BY <2>1, <2>2, <2>3 DEF Frame
<1>3. CASE e.serving
  <2>1. Revoked(R, k) = S
    BY <1>3 DEF Revoked
  <2>2. W \in Registries
    BY <1>1, WithType
  <2>3. S.entries = W.entries /\ S.ready = W.ready - 1 /\ S.cfg = W.cfg
    BY <2>2 DEF Registries
  <2>4. W.ready = R.ready
    BY DEF With, Registries
  <2>5. Frame(R, W, k) /\ W.entries[k] = f
    BY <1>1, WithFrame
  <2>a. ~f.serving
    BY <1>1 DEF Entry
  <2>b. /\ S.entries[k] = f
        /\ \A j \in Keys \ {k} : S.entries[j] = R.entries[j]
    BY <2>3, <2>5 DEF Frame
  <2> HIDE DEF f, W, S
  <2>6. Served(S) = Served(R) \ {k}
    BY <2>a, <2>b DEF Served
  <2>7. Cardinality(Served(S)) = Cardinality(Served(R)) - 1
    <3>1. k \in Served(R) /\ IsFiniteSet(Served(R))
      BY <1>3, ServedFinite DEF Served
    <3>2. QED
      BY <2>6, <3>1, FS_RemoveElement
  <2>8. S \in Registries
    <3>1. \A T \in Registries : [T EXCEPT !.ready = @ - 1] \in Registries
      BY DEF Registries
    <3>2. QED
      BY <2>2, <3>1 DEF S
  <2>9. \A j \in Keys : EntryOK(S.entries[j])
    BY <2>a, <2>b DEF EntryOK
  <2>10. Sound(S)
    BY <2>3, <2>4, <2>7, <2>8, <2>9 DEF Sound
  <2>11. QED
    BY <2>1, <2>3, <2>5, <2>10 DEF Frame, f
<1>4. QED
  BY <1>2, <1>3

\* The gate, the attempt's bookkeeping and a harmless label.
LEMMA BookkeepingSound ==
  ASSUME NEW R, Sound(R), NEW k \in Keys
  PROVE  /\ Sound(BackedOff(R, k)) /\ Frame(R, BackedOff(R, k), k)
         /\ BackedOff(R, k).entries[k].serving = R.entries[k].serving
         /\ BackedOff(R, k).entries[k].state = R.entries[k].state
         /\ Sound(Parked(R, k)) /\ Frame(R, Parked(R, k), k)
         /\ Parked(R, k).entries[k].serving = R.entries[k].serving
         /\ Parked(R, k).entries[k].state = R.entries[k].state
<1> DEFINE e == R.entries[k]
           d == Delay(R.cfg, e.streak, R.ready)
<1>1. e \in Entry /\ EntryOK(e) /\ R \in Registries
  BY DEF Sound, Registries
<1>2. ASSUME NEW wait \in Nat
      PROVE  LET f == [e EXCEPT !.wait = wait]
             IN  /\ f \in Entry /\ EntryOK(f) /\ f.serving = e.serving
                 /\ f.state = e.state /\ Identity(f) = Identity(e)
  BY <1>1 DEF Entry, EntryOK, Identity
<1>3. d \in Nat /\ R.cfg.pause \in Nat
  BY <1>1, DelayType DEF Registries, Entry, Settings
<1>4. /\ Sound(With(R, k, [e EXCEPT !.wait = d]))
      /\ Sound(With(R, k, [e EXCEPT !.wait = R.cfg.pause]))
  BY <1>2, <1>3, WithSound
<1>5. /\ Frame(R, With(R, k, [e EXCEPT !.wait = d]), k)
      /\ With(R, k, [e EXCEPT !.wait = d]).entries[k] = [e EXCEPT !.wait = d]
      /\ Frame(R, With(R, k, [e EXCEPT !.wait = R.cfg.pause]), k)
      /\ With(R, k, [e EXCEPT !.wait = R.cfg.pause]).entries[k]
           = [e EXCEPT !.wait = R.cfg.pause]
  BY <1>1, <1>2, <1>3, WithFrame
<1>6. QED
  BY <1>2, <1>3, <1>4, <1>5 DEF BackedOff, Parked

\* The bookkeeping of a completed attempt.
LEMMA AttemptedSound ==
  ASSUME NEW R, Sound(R), NEW k \in Keys,
         NEW streak \in 0 .. StreakCap, NEW reason \in Reasons
  PROVE  LET S == Attempted(R, k, streak, reason)
         IN  /\ Sound(S) /\ Frame(R, S, k)
             /\ S.entries[k].serving = R.entries[k].serving
             /\ S.entries[k].state = R.entries[k].state
<1> DEFINE e == R.entries[k]
           f == [e EXCEPT !.attempted = TRUE, !.age = 0,
                          !.streak = streak, !.reason = reason]
<1>1. e \in Entry /\ EntryOK(e) /\ R \in Registries
  BY DEF Sound, Registries
<1>2. /\ f \in Entry /\ EntryOK(f) /\ f.serving = e.serving
      /\ f.state = e.state /\ Identity(f) = Identity(e)
  BY <1>1 DEF Entry, EntryOK, Identity
<1> HIDE DEF f
<1>3. /\ Sound(With(R, k, f)) /\ Frame(R, With(R, k, f), k)
      /\ With(R, k, f).entries[k] = f
  BY <1>1, <1>2, WithSound, WithFrame
<1>4. QED
  BY <1>2, <1>3 DEF Attempted, f

\* A label that agrees with the admission the entry holds.
LEMMA LabelledSound ==
  ASSUME NEW R, Sound(R), NEW k \in Keys, NEW state \in States,
         ~R.entries[k].serving
  PROVE  LET S == Labelled(R, k, state)
         IN  /\ Sound(S) /\ Frame(R, S, k)
             /\ ~S.entries[k].serving /\ S.entries[k].state = state
<1> DEFINE e == R.entries[k]
           f == [e EXCEPT !.state = state]
<1>1. e \in Entry /\ EntryOK(e) /\ R \in Registries
  BY DEF Sound, Registries
<1>2. /\ f \in Entry /\ EntryOK(f) /\ f.serving = e.serving
      /\ f.state = state /\ Identity(f) = Identity(e)
  BY <1>1 DEF Entry, EntryOK, Identity
<1> HIDE DEF f
<1>3. /\ Sound(With(R, k, f)) /\ Frame(R, With(R, k, f), k)
      /\ With(R, k, f).entries[k] = f
  BY <1>1, <1>2, WithSound, WithFrame
<1>4. QED
  BY <1>2, <1>3 DEF Labelled, f

-----------------------------------------------------------------------------
(* The two demotion tails. *)

\* A failure of a relay that held no admission.
LEMMA OutOfPoolSound ==
  ASSUME NEW R, Sound(R), NEW k \in Keys, ~R.entries[k].serving
  PROVE  LET S == OutOfPool(R, k)
         IN  /\ Sound(S) /\ Frame(R, S, k)
             /\ S.entries[k].state \in {"unready", "failed"}
<1> DEFINE L == Labelled(R, k, "failed")
           N == Notified(L)
           B == IF R.entries[k].state \in {"unready", "failed"} THEN R ELSE N
<1>1. Sound(L) /\ Frame(R, L, k) /\ L.entries[k].state = "failed"
  BY LabelledSound DEF States
<1> HIDE DEF L
<1>2. Sound(N) /\ Frame(L, N, k) /\ N.entries = L.entries
  BY <1>1, NotifiedSound DEF Notified
<1> HIDE DEF N
<1>3. Sound(B) /\ Frame(R, B, k) /\ B.entries[k].state \in {"unready", "failed"}
  BY <1>1, <1>2, FrameTrans DEF Frame
<1>4. OutOfPool(R, k) = BackedOff(B, k)
  BY DEF OutOfPool, N, L
<1> HIDE DEF B
<1>5. /\ Sound(BackedOff(B, k)) /\ Frame(B, BackedOff(B, k), k)
      /\ BackedOff(B, k).entries[k].state = B.entries[k].state
  BY <1>3, BookkeepingSound
<1>6. QED
  BY <1>3, <1>4, <1>5, FrameTrans

\* A failure that takes the admission away.
LEMMA DemotedSound ==
  ASSUME NEW R, Sound(R), NEW k \in Keys
  PROVE  LET S == Demoted(R, k)
         IN  /\ Sound(S) /\ Frame(R, S, k)
             /\ ~S.entries[k].serving /\ S.entries[k].state = "unready"
<1> DEFINE V == Revoked(R, k)
           L == Labelled(V, k, "unready")
           B == BackedOff(L, k)
           N == Notified(B)
<1>1. Sound(V) /\ Frame(R, V, k) /\ ~V.entries[k].serving
  <2>1. R.entries[k] \in Entry
    BY DEF Sound, Registries
  <2>2. ~[R.entries[k] EXCEPT !.serving = FALSE].serving
    BY <2>1 DEF Entry
  <2>3. QED
    BY <2>2, RevokedSound DEF Sound
<1> HIDE DEF V
<1>2. /\ Sound(L) /\ Frame(V, L, k)
      /\ ~L.entries[k].serving /\ L.entries[k].state = "unready"
  BY <1>1, LabelledSound DEF States
<1> HIDE DEF L
<1>3. /\ Sound(B) /\ Frame(L, B, k)
      /\ ~B.entries[k].serving /\ B.entries[k].state = "unready"
  BY <1>2, BookkeepingSound
<1> HIDE DEF B
<1>4. Sound(N) /\ Frame(B, N, k) /\ N.entries = B.entries
  BY <1>3, NotifiedSound DEF Notified
<1> HIDE DEF N
<1>5. Frame(R, N, k)
  BY <1>1, <1>2, <1>3, <1>4, FrameTrans
<1>6. Demoted(R, k) = N
  BY DEF Demoted, N, B, L, V
<1>7. QED
  BY <1>3, <1>4, <1>5, <1>6

-----------------------------------------------------------------------------
(***************************************************************************)
(* The completions of an ensure task.  A completion that is not discarded  *)
(* finds the relay outside the removing phase (that is what NoStaleCompletion *)
(* gives it), leaves it outside, and keeps the registry sound.             *)
(***************************************************************************)
Kept(R, S, k) ==
  /\ Sound(S)
  /\ Frame(R, S, k)
  /\ (S.entries[k].state = "removing") = (R.entries[k].state = "removing")

\* A discarded completion.
LEMMA KeptItself ==
  ASSUME NEW R, Sound(R), NEW k \in Keys
  PROVE  Kept(R, R, k)
BY DEF Kept, Frame

\* An update of k's entry that leaves identity, admission and label class.
LEMMA WithKept ==
  ASSUME NEW R, Sound(R), NEW k \in Keys, NEW e \in Entry, EntryOK(e),
         e.serving = R.entries[k].serving,
         Identity(e) = Identity(R.entries[k]),
         (e.state = "removing") = (R.entries[k].state = "removing")
  PROVE  Kept(R, With(R, k, e), k)
<1>1. Sound(With(R, k, e))
  BY WithSound
<1>2. Frame(R, With(R, k, e), k) /\ With(R, k, e).entries[k] = e
  BY WithFrame DEF Sound
<1>3. QED
  BY <1>1, <1>2 DEF Kept

EnterStates == {"discovering", "discovered", "deploying", "verifying"}

\* Enter, current or stale, with a label that suits the admission held.
LEMMA EnterKept ==
  ASSUME NEW R, Sound(R), NEW k \in Keys, NEW g,
         NEW state \in States \ {"removing"}, NEW reason \in Reasons,
         R.entries[k].serving => state \notin Out,
         Current(R, k, g) => R.entries[k].state # "removing"
  PROVE  Kept(R, Enter(R, k, g, state, reason), k)
<1> DEFINE e     == R.entries[k]
           moved == [e EXCEPT !.state = state, !.reason = reason]
           openE == [moved EXCEPT !.streak = 0, !.wait = 0]
           f     == IF state = "deploying" THEN openE ELSE moved
           W     == With(R, k, f)
           S     == Enter(R, k, g, state, reason)
<1>1. e \in Entry /\ EntryOK(e) /\ 0 \in 0 .. StreakCap
  BY BoundsAreNat DEF Sound, Registries
<1>2. state \in States /\ state # "removing"
  OBVIOUS
<1>3. /\ moved \in Entry /\ moved.serving = e.serving /\ moved.state = state
      /\ Identity(moved) = Identity(e) /\ moved.present = e.present
  BY <1>1, <1>2 DEF Entry, Identity
<1>4. /\ openE \in Entry /\ openE.serving = e.serving /\ openE.state = state
      /\ Identity(openE) = Identity(e) /\ openE.present = e.present
  BY <1>1, <1>3 DEF Entry, Identity
<1> HIDE DEF moved, openE
<1>5. /\ f \in Entry /\ f.serving = e.serving /\ f.state = state
      /\ Identity(f) = Identity(e) /\ EntryOK(f)
  BY <1>1, <1>2, <1>3, <1>4 DEF EntryOK
<1>6. S = R \/ (Current(R, k, g) /\ (S = W \/ S = Notified(W)))
  BY DEF Enter, NotifiedIf, moved, openE
<1> HIDE DEF f, S
<1>7. CASE S = R
  BY <1>7, KeptItself DEF S
<1>8. CASE Current(R, k, g) /\ (S = W \/ S = Notified(W))
  <2>1. Kept(R, W, k)
    BY <1>2, <1>5, <1>8, WithKept
  <2> HIDE DEF W
  <2>2. Kept(R, Notified(W), k)
    <3>1. /\ Sound(Notified(W)) /\ Frame(W, Notified(W), k)
          /\ Notified(W).entries = W.entries
      BY <2>1, NotifiedSound DEF Notified, Kept
    <3>2. QED
      BY <2>1, <3>1, FrameTrans DEF Kept
  <2>3. QED
    BY <1>8, <2>1, <2>2 DEF S, W
<1>9. QED
  BY <1>6, <1>7, <1>8 DEF S

\* DeferDrain, DrainCompleted and TakeScopeChanged.
LEMMA MarksKept ==
  ASSUME NEW R, Sound(R), NEW k \in Keys, NEW g
  PROVE  /\ Kept(R, DeferDrain(R, k, g), k)
         /\ Kept(R, DrainCompleted(R, k, g), k)
         /\ Kept(R, ScopeMarkTaken(R, k, g), k)
<1> DEFINE e == R.entries[k]
<1>1. e \in Entry /\ EntryOK(e)
  BY DEF Sound, Registries
<1>2. \A f \in {[e EXCEPT !.drainPending = TRUE],
                [e EXCEPT !.drainPending = FALSE],
                [e EXCEPT !.scopeChanged = FALSE]} :
        /\ f \in Entry /\ f.serving = e.serving /\ f.state = e.state
        /\ Identity(f) = Identity(e) /\ EntryOK(f)
  BY <1>1 DEF Entry, Identity, EntryOK
<1>3. /\ Kept(R, With(R, k, [e EXCEPT !.drainPending = TRUE]), k)
      /\ Kept(R, With(R, k, [e EXCEPT !.drainPending = FALSE]), k)
      /\ Kept(R, With(R, k, [e EXCEPT !.scopeChanged = FALSE]), k)
  BY <1>2, WithKept
<1>4. QED
  BY <1>3, KeptItself DEF DeferDrain, DrainCompleted, ScopeMarkTaken

\* Ready: a new admission is counted exactly once.
LEMMA ReadyKept ==
  ASSUME NEW R, Sound(R), NEW k \in Keys, NEW g, NEW url \in Endpoints,
         Current(R, k, g) => R.entries[k].state # "removing"
  PROVE  Kept(R, Ready(R, k, g, url), k)
<1> DEFINE e == R.entries[k]
           f == [e EXCEPT !.url = url, !.state = "ready", !.reason = "",
                          !.attempted = TRUE, !.age = 0, !.streak = 0,
                          !.drainPending = FALSE, !.scopeChanged = FALSE,
                          !.wait = 0, !.serving = TRUE]
           W == With(R, k, f)
           A == [W EXCEPT !.ready = @ + 1]
           S == Ready(R, k, g, url)
<1>1. e \in Entry /\ 0 \in 0 .. StreakCap /\ R \in Registries
  BY BoundsAreNat DEF Sound, Registries
<1>2. /\ f \in Entry /\ f.serving /\ f.serving = TRUE /\ f.state = "ready"
      /\ Identity(f) = Identity(e) /\ f.present = e.present
  BY <1>1 DEF Entry, Identity, States, Reasons
<1>3. \/ ~Current(R, k, g) /\ S = R
      \/ Current(R, k, g) /\ e.serving /\ S = W
      \/ Current(R, k, g) /\ ~e.serving /\ S = Notified(A)
  BY DEF Ready
<1>4. CASE ~Current(R, k, g) /\ S = R
  BY <1>4, KeptItself
<1>5. ASSUME Current(R, k, g) PROVE EntryOK(f)
  BY <1>2, <1>5 DEF EntryOK, Out, Current
<1> HIDE DEF f, S
<1>6. CASE Current(R, k, g) /\ e.serving /\ S = W
  <2>1. e.serving = TRUE
    BY <1>1, <1>6 DEF Entry
  <2>2. Kept(R, W, k)
    BY <1>2, <1>5, <1>6, <2>1, WithKept
  <2>3. QED
    BY <1>6, <2>2 DEF S
<1>7. CASE Current(R, k, g) /\ ~e.serving /\ S = Notified(A)
  <2>1. W \in Registries /\ W.ready = R.ready
    BY <1>1, <1>2, WithType DEF With, Registries
  <2>2. Frame(R, W, k) /\ W.entries[k] = f
    BY <1>1, <1>2, WithFrame
  <2> HIDE DEF W
  <2>3. /\ A \in Registries /\ A.entries = W.entries /\ A.cfg = W.cfg
        /\ A.ready = R.ready + 1
    BY <2>1 DEF Registries
  <2> HIDE DEF A
  <2>4. /\ A.entries[k] = f
        /\ \A j \in Keys \ {k} : A.entries[j] = R.entries[j]
    BY <2>2, <2>3 DEF Frame
  <2>5. Served(A) = Served(R) \cup {k}
    BY <1>2, <2>4 DEF Served
  <2>6. Cardinality(Served(A)) = Cardinality(Served(R)) + 1
    BY <1>7, <2>5, ServedFinite, FS_AddElement DEF Served
  <2>7. \A j \in Keys : EntryOK(A.entries[j])
    BY <1>5, <1>7, <2>4 DEF Sound
  <2>8. Sound(A)
    BY <2>3, <2>6, <2>7 DEF Sound
  <2>9. Frame(R, A, k) /\ A.entries[k].state # "removing"
    BY <1>2, <2>2, <2>3 DEF Frame
  <2>10. /\ Sound(Notified(A)) /\ Frame(A, Notified(A), k)
         /\ Notified(A).entries = A.entries
    BY <2>8, NotifiedSound DEF Notified
  <2>11. Kept(R, Notified(A), k)
    BY <1>7, <2>9, <2>10, FrameTrans DEF Kept
  <2>12. QED
    BY <1>7, <2>11 DEF S, A, W
<1>8. QED
  BY <1>3, <1>4, <1>6, <1>7 DEF S

\* Failing, in each of its four outcomes.
LEMMA FailingKept ==
  ASSUME NEW R, Sound(R), NEW k \in Keys, NEW g, NEW reason \in Reasons,
         Current(R, k, g) => R.entries[k].state # "removing"
  PROVE  Kept(R, Failing(R, k, g, reason), k)
<1> DEFINE e == R.entries[k]
           A == Attempted(R, k, Bump(e.streak), reason)
           S == Failing(R, k, g, reason)
<1>1. Bump(e.streak) \in 0 .. StreakCap
  <2>1. e.streak \in 0 .. StreakCap
    BY DEF Sound, Registries, Entry
  <2>2. QED
    BY <2>1, BoundsAreNat DEF Bump, Least
<1>2. /\ Sound(A) /\ Frame(R, A, k)
      /\ A.entries[k].serving = e.serving /\ A.entries[k].state = e.state
  BY <1>1, AttemptedSound
<1>3. \/ S = R
      \/ Current(R, k, g) /\ S = Parked(A, k)
      \/ Current(R, k, g) /\ ~e.serving /\ S = OutOfPool(A, k)
      \/ Current(R, k, g) /\ S = BackedOff(A, k)
      \/ Current(R, k, g) /\ S = Demoted(A, k)
  BY DEF Failing
<1> HIDE DEF A, S
<1>4. CASE S = R
  BY <1>4, KeptItself DEF S
<1>5. CASE Current(R, k, g) /\ S = Parked(A, k)
  BY <1>2, <1>5, BookkeepingSound, FrameTrans DEF Kept, S
<1>6. CASE Current(R, k, g) /\ ~e.serving /\ S = OutOfPool(A, k)
  <2>1. /\ Sound(S) /\ Frame(A, S, k)
        /\ S.entries[k].state \in {"unready", "failed"}
    BY <1>2, <1>6, OutOfPoolSound
  <2>2. QED
    BY <1>2, <1>6, <2>1, FrameTrans DEF Kept, S
<1>7. CASE Current(R, k, g) /\ S = BackedOff(A, k)
  BY <1>2, <1>7, BookkeepingSound, FrameTrans DEF Kept, S
<1>8. CASE Current(R, k, g) /\ S = Demoted(A, k)
  <2>1. Sound(S) /\ Frame(A, S, k) /\ S.entries[k].state = "unready"
    BY <1>2, <1>8, DemotedSound
  <2>2. QED
    BY <1>2, <1>8, <2>1, FrameTrans DEF Kept, S
<1>9. QED
  BY <1>3, <1>4, <1>5, <1>6, <1>7, <1>8

\* Demote, of a serving relay or not.
LEMMA DemoteKept ==
  ASSUME NEW R, Sound(R), NEW k \in Keys, NEW g, NEW reason \in Reasons,
         Current(R, k, g) => R.entries[k].state # "removing"
  PROVE  Kept(R, Demote(R, k, g, reason), k)
<1> DEFINE e == R.entries[k]
           n == Least(R.cfg.demoteAfter, StreakCap)
           A == Attempted(R, k, n, reason)
           S == Demote(R, k, g, reason)
<1>1. n \in 0 .. StreakCap
  <2>1. R.cfg.demoteAfter \in Nat
    BY DEF Sound, Registries, Settings
  <2>2. QED
    BY <2>1, BoundsAreNat DEF Least
<1>2. /\ Sound(A) /\ Frame(R, A, k)
      /\ A.entries[k].serving = e.serving /\ A.entries[k].state = e.state
  BY <1>1, AttemptedSound
<1>3. \/ S = R
      \/ Current(R, k, g) /\ ~e.serving /\ S = OutOfPool(A, k)
      \/ Current(R, k, g) /\ S = Demoted(A, k)
  BY DEF Demote
<1> HIDE DEF A, S
<1>4. CASE S = R
  BY <1>4, KeptItself DEF S
<1>5. CASE Current(R, k, g) /\ ~e.serving /\ S = OutOfPool(A, k)
  <2>1. /\ Sound(S) /\ Frame(A, S, k)
        /\ S.entries[k].state \in {"unready", "failed"}
    BY <1>2, <1>5, OutOfPoolSound
  <2>2. QED
    BY <1>2, <1>5, <2>1, FrameTrans DEF Kept, S
<1>6. CASE Current(R, k, g) /\ S = Demoted(A, k)
  <2>1. Sound(S) /\ Frame(A, S, k) /\ S.entries[k].state = "unready"
    BY <1>2, <1>6, DemotedSound
  <2>2. QED
    BY <1>2, <1>6, <2>1, FrameTrans DEF Kept, S
<1>7. QED
  BY <1>3, <1>4, <1>5, <1>6

\* Pause revokes under the same lock.
LEMMA PauseKept ==
  ASSUME NEW R, Sound(R), NEW k \in Keys, NEW g, NEW reason \in Reasons,
         Current(R, k, g) => R.entries[k].state # "removing"
  PROVE  Kept(R, Pause(R, k, g, reason), k)
<1> DEFINE A == Attempted(R, k, R.entries[k].streak, reason)
           B == Parked(A, k)
           f == [B.entries[k] EXCEPT !.state = "paused"]
           L == Labelled(B, k, "paused")
           V == Revoked(L, k)
           N == Notified(V)
<1>1. CASE ~Current(R, k, g)
  BY <1>1, KeptItself DEF Pause
<1>2. CASE Current(R, k, g)
  <2>1. Pause(R, k, g, reason) = N
    BY <1>2 DEF Pause
  <2>2. R.entries[k].streak \in 0 .. StreakCap
    BY DEF Sound, Registries, Entry
  <2>3. Sound(A) /\ Frame(R, A, k)
    BY <2>2, AttemptedSound
  <2> HIDE DEF A
  <2>4. Sound(B) /\ Frame(A, B, k)
    BY <2>3, BookkeepingSound
  <2> HIDE DEF B
  <2>5. /\ f \in Entry /\ f.serving = B.entries[k].serving
        /\ Identity(f) = Identity(B.entries[k]) /\ f.state = "paused"
    BY <2>4 DEF Sound, Registries, Entry, Identity, States
  <2>6. L = With(B, k, f)
    BY DEF Labelled
  <2> HIDE DEF f, L
  <2>7. /\ L \in Registries /\ Frame(B, L, k) /\ L.entries[k] = f
        /\ L.ready = B.ready
    <3>1. B \in Registries
      BY <2>4 DEF Sound
    <3>2. L \in Registries
      BY <2>5, <2>6, <3>1, WithType
    <3>3. Frame(B, L, k) /\ L.entries[k] = f
      BY <2>5, <2>6, <3>1, WithFrame
    <3>4. L.ready = B.ready
      BY <2>6, <3>1 DEF With, Registries
    <3>5. QED
      BY <3>2, <3>3, <3>4
  <2>8. Served(L) = Served(B)
    BY <2>5, <2>7 DEF Served, Frame
  <2>9. \A j \in Keys \ {k} : EntryOK(L.entries[j])
    BY <2>4, <2>7 DEF Sound, Frame
  <2>10. /\ Sound(V) /\ Frame(L, V, k)
         /\ V.entries[k] = [L.entries[k] EXCEPT !.serving = FALSE]
    BY <2>4, <2>7, <2>8, <2>9, RevokedSound DEF Sound
  <2> HIDE DEF V
  <2>11. V.entries[k].state = "paused"
    BY <2>5, <2>7, <2>10 DEF Entry
  <2>12. Sound(N) /\ Frame(V, N, k) /\ N.entries = V.entries
    BY <2>10, NotifiedSound DEF Notified
  <2> HIDE DEF N
  <2>13. Frame(R, N, k)
    BY <2>3, <2>4, <2>7, <2>10, <2>12, FrameTrans
  <2>14. QED
    BY <1>2, <2>1, <2>11, <2>12, <2>13 DEF Kept
<1>3. QED
  BY <1>1, <1>2

-----------------------------------------------------------------------------
(***************************************************************************)
(* How far an entry may move in one step without a caller noticing: its    *)
(* object is only replaced by a later one that nobody holds, a surviving   *)
(* object keeps its hold, and a surviving incarnation does not change      *)
(* sides between removing and not.                                         *)
(***************************************************************************)
Moved(e, f) ==
  /\ e.obj <= f.obj
  /\ f.present /\ f.obj = e.obj => e.present /\ f.busy = e.busy
  /\ f.present /\ f.obj # e.obj => ~f.busy
  /\ e.present => /\ f.present /\ f.obj = e.obj /\ e.gen <= f.gen
                  /\ f.gen = e.gen =>
                       ((f.state = "removing") = (e.state = "removing"))

Evolves(R, S) == \A j \in Keys : Moved(R.entries[j], S.entries[j])

\* What a step that keeps k's identity and side does to all the entries.
LEMMA KeptEvolves ==
  ASSUME NEW R, NEW S, NEW k \in Keys, Sound(R), Kept(R, S, k)
  PROVE  Sound(S) /\ Evolves(R, S)
<1> SUFFICES ASSUME NEW j \in Keys
             PROVE  Moved(R.entries[j], S.entries[j])
  BY DEF Kept, Evolves
<1>1. R.entries[j] \in Entry
  BY DEF Sound, Registries
<1>2. CASE j = k
  BY <1>1, <1>2 DEF Kept, Frame, Identity, Moved, Entry
<1>3. CASE j # k
  BY <1>1, <1>3 DEF Kept, Frame, Moved, Entry
<1>4. QED
  BY <1>2, <1>3

\* Steps that only move clocks, gates, settings and the wake-up token.
Quieter(e, f) ==
  /\ f \in Entry
  /\ f.serving = e.serving /\ f.state = e.state /\ Identity(f) = Identity(e)

\* A step that changes no admission, label or identity at all.
LEMMA QuietStep ==
  ASSUME NEW R, NEW S, Sound(R), S \in Registries, S.ready = R.ready,
         \A j \in Keys : Quieter(R.entries[j], S.entries[j])
  PROVE  Sound(S) /\ Evolves(R, S)
<1>1. \A j \in Keys : R.entries[j] \in Entry /\ EntryOK(R.entries[j])
  BY DEF Sound, Registries
<1>2. \A j \in Keys : EntryOK(S.entries[j])
  BY <1>1 DEF EntryOK, Quieter, Identity
<1>3. Served(S) = Served(R)
  BY DEF Served, Quieter
<1>4. Sound(S)
  BY <1>2, <1>3 DEF Sound
<1>5. Evolves(R, S)
  BY <1>1 DEF Evolves, Moved, Quieter, Identity, Entry
<1>6. QED
  BY <1>4, <1>5

\* Time passes.
LEMMA TickSound ==
  ASSUME NEW R, Sound(R)
  PROVE  Sound(Tick(R)) /\ Evolves(R, Tick(R))
<1>1. R \in Registries /\ \A j \in Keys : R.entries[j] \in Entry
  BY DEF Sound, Registries
<1>2. ASSUME NEW e \in Entry PROVE Quieter(e, Older(e))
  <2>1. /\ (IF e.wait > 0 THEN e.wait - 1 ELSE 0) \in Nat
        /\ (IF e.attempted THEN Least(e.age + 1, AgeCap) ELSE e.age) \in Nat
    BY BoundsAreNat DEF Entry, Least
  <2>2. \A w, a \in Nat : Quieter(e, [e EXCEPT !.wait = w, !.age = a])
    BY DEF Quieter, Entry, Identity
  <2>3. QED
    BY <2>1, <2>2 DEF Older
<1>3. /\ Tick(R).entries = [k \in Keys |-> Older(R.entries[k])]
      /\ Tick(R).ready = R.ready
  BY <1>1 DEF Tick, Registries
<1>4. \A j \in Keys : Quieter(R.entries[j], Tick(R).entries[j])
  BY <1>1, <1>2, <1>3
<1>5. Tick(R) \in Registries
  <2>1. [k \in Keys |-> Older(R.entries[k])] \in [Keys -> Entry]
    BY <1>1, <1>2 DEF Quieter
  <2>2. \A es \in [Keys -> Entry] : [R EXCEPT !.entries = es] \in Registries
    BY <1>1 DEF Registries
  <2>3. QED
    BY <2>1, <2>2 DEF Tick
<1>6. QED
  BY <1>3, <1>4, <1>5, QuietStep

\* The applier takes the token.
LEMMA ReceivedSound ==
  ASSUME NEW R, Sound(R)
  PROVE  Sound(Received(R)) /\ Evolves(R, Received(R))
<1>1. R \in Registries /\ \A j \in Keys : R.entries[j] \in Entry
  BY DEF Sound, Registries
<1>2. /\ Received(R) \in Registries /\ Received(R).ready = R.ready
      /\ Received(R).entries = R.entries
  BY <1>1 DEF Received, Registries
<1>3. QED
  BY <1>1, <1>2, QuietStep DEF Quieter

\* A settings reload only re-arms gates.
LEMMA UpdateSettingsSound ==
  ASSUME NEW R, Sound(R), NEW cfg \in Settings
  PROVE  Sound(UpdateSettings(R, cfg)) /\ Evolves(R, UpdateSettings(R, cfg))
<1>1. R \in Registries /\ \A j \in Keys : R.entries[j] \in Entry
  BY DEF Sound, Registries
<1>2. R.ready \in Int
  BY <1>1 DEF Registries
<1>3. ASSUME NEW e \in Entry PROVE Quieter(e, Rearmed(e, cfg, R.ready))
  <2>1. Delay(cfg, e.streak, R.ready) \in Nat /\ cfg.pause \in Nat
    BY <1>2, DelayType DEF Entry, Settings
  <2>2. e.age \in Nat
    BY DEF Entry
  <2>3. \A d \in Nat : Remaining(d, e.age) \in Nat
    BY <2>2 DEF Remaining
  <2>4. \A w \in Nat : Quieter(e, [e EXCEPT !.wait = w])
    BY DEF Quieter, Entry, Identity
  <2>5. Quieter(e, e)
    BY DEF Quieter
  <2>6. QED
    BY <2>1, <2>3, <2>4, <2>5 DEF Rearmed
<1> DEFINE es == [k \in Keys |-> Rearmed(R.entries[k], cfg, R.ready)]
<1>4. es \in [Keys -> Entry]
  BY <1>1, <1>3 DEF Quieter
<1>5. UpdateSettings(R, cfg) = [R EXCEPT !.cfg = cfg, !.entries = es]
  BY <1>1 DEF UpdateSettings, Registries
<1>6. \A j \in Keys : Quieter(R.entries[j], es[j])
  BY <1>1, <1>3
<1> HIDE DEF es
<1>7. /\ UpdateSettings(R, cfg) \in Registries
      /\ UpdateSettings(R, cfg).ready = R.ready
      /\ UpdateSettings(R, cfg).entries = es
  BY <1>1, <1>4, <1>5 DEF Registries
<1>8. QED
  BY <1>6, <1>7, QuietStep

-----------------------------------------------------------------------------
(* Sync. *)

Wants == Scopes \cup {Unknown, Gone}

\* What one entry may become under a Sync.
Synced(e, f) ==
  /\ f \in Entry /\ EntryOK(f) /\ Moved(e, f)
  /\ f.serving => e.serving

\* What Sync makes of one entry, in each of its cases.
LEMMA SyncEntryOK ==
  ASSUME NEW e \in Entry, EntryOK(e), NEW m \in Wants
  PROVE  Synced(e, SyncEntry(e, m))
<1>1. CASE Appears(e, m)
  <2>1. SyncEntry(e, m) = Fresh(e.obj + 1, m)
    BY <1>1 DEF SyncEntry, Appears, Returns, Leaves, Resolves, Flips, Stays
  <2>2. m \in Scopes \cup {Unknown} /\ e.obj + 1 \in Nat /\ ~e.present
    BY <1>1 DEF Appears, Wants, Entry
  <2>3. Fresh(e.obj + 1, m) \in Entry
    BY <2>2, FreshType
  <2>4. /\ Fresh(e.obj + 1, m).obj = e.obj + 1
        /\ ~Fresh(e.obj + 1, m).serving /\ ~Fresh(e.obj + 1, m).busy
    BY DEF Fresh
  <2>5. QED
    BY <2>1, <2>2, <2>3, <2>4 DEF Synced, EntryOK, Moved, Entry
<1>2. CASE Returns(e, m)
  <2>1. SyncEntry(e, m) = Returned(e, m)
    BY <1>2 DEF SyncEntry, Appears, Returns, Leaves, Resolves, Flips, Stays
  <2>2. m \in Scopes \cup {Unknown} /\ e.present /\ ~e.serving
    BY <1>2 DEF Returns, Wants, EntryOK, Out
  <2>3. 0 \in 0 .. StreakCap /\ e.gen + 1 \in Nat /\ e.gen < e.gen + 1
    BY BoundsAreNat DEF Entry
  <2>4. Returned(e, m) \in Entry
    BY <2>2, <2>3 DEF Returned, Entry, States, Reasons
  <2>5. /\ Returned(e, m).present = e.present /\ Returned(e, m).obj = e.obj
        /\ Returned(e, m).busy = e.busy /\ Returned(e, m).gen = e.gen + 1
        /\ Returned(e, m).serving = e.serving
    BY DEF Returned, Entry
  <2>6. QED
    BY <2>1, <2>2, <2>3, <2>4, <2>5 DEF Synced, EntryOK, Moved, Entry
<1>3. CASE Leaves(e, m)
  <2>1. SyncEntry(e, m) = Left(e)
    BY <1>3 DEF SyncEntry, Appears, Returns, Leaves, Resolves, Flips, Stays
  <2>2. e.present /\ e.gen + 1 \in Nat /\ e.gen < e.gen + 1
    BY <1>3 DEF Leaves, Entry
  <2>3. Left(e) \in Entry
    BY <2>2 DEF Left, Entry, States, Reasons
  <2>4. /\ Left(e).present = e.present /\ Left(e).obj = e.obj
        /\ Left(e).busy = e.busy /\ Left(e).gen = e.gen + 1
        /\ ~Left(e).serving
    BY DEF Left, Entry
  <2>5. QED
    BY <2>1, <2>2, <2>3, <2>4 DEF Synced, EntryOK, Moved, Entry
<1>4. CASE Resolves(e, m)
  <2>1. SyncEntry(e, m) = [e EXCEPT !.scope = m]
    BY <1>4 DEF SyncEntry, Appears, Returns, Leaves, Resolves, Flips, Stays
  <2>2. m \in Scopes
    BY <1>4 DEF Resolves, Stays, Wants
  <2>3. [e EXCEPT !.scope = m] \in Entry
    BY <2>2 DEF Entry
  <2>4. QED
    BY <2>1, <2>3 DEF Synced, EntryOK, Moved, Entry
<1>5. CASE Flips(e, m)
  <2>1. SyncEntry(e, m) = Flipped(e, m)
    BY <1>5 DEF SyncEntry, Appears, Returns, Leaves, Resolves, Flips, Stays
  <2>2. m \in Scopes /\ e.present /\ e.gen + 1 \in Nat /\ e.gen < e.gen + 1
    BY <1>5 DEF Flips, Stays, Wants, Entry
  <2>3. 0 \in 0 .. StreakCap
    BY BoundsAreNat
  <2>4. Flipped(e, m) \in Entry
    BY <2>2, <2>3 DEF Flipped, Entry, States, Reasons
  <2>5. /\ Flipped(e, m).present = e.present /\ Flipped(e, m).obj = e.obj
        /\ Flipped(e, m).busy = e.busy /\ Flipped(e, m).gen = e.gen + 1
        /\ ~Flipped(e, m).serving
    BY DEF Flipped, Entry
  <2>6. QED
    BY <2>1, <2>2, <2>4, <2>5 DEF Synced, EntryOK, Moved, Entry
<1>6. CASE /\ ~Appears(e, m) /\ ~Returns(e, m) /\ ~Leaves(e, m)
           /\ ~Resolves(e, m) /\ ~Flips(e, m)
  <2>1. SyncEntry(e, m) = e
    BY <1>6 DEF SyncEntry
  <2>2. QED
    BY <2>1 DEF Synced, Moved, Entry
<1>7. QED
  BY <1>1, <1>2, <1>3, <1>4, <1>5, <1>6

\* Sync: the count drops by exactly the revoked admissions.
LEMMA SyncSound ==
  ASSUME NEW R, Sound(R), NEW w \in [Keys -> Wants]
  PROVE  Sound(Sync(R, w)) /\ Evolves(R, Sync(R, w))
<1> DEFINE es      == [k \in Keys |-> SyncEntry(R.entries[k], w[k])]
           revoked == {k \in ServingKeys(R) : ~es[k].serving}
           noted   == {k \in Keys : SyncNotifies(R.entries[k], w[k])}
           S       == [R EXCEPT !.entries = es, !.ready = @ - Cardinality(revoked)]
<1>1. R \in Registries /\ \A k \in Keys : R.entries[k] \in Entry /\ EntryOK(R.entries[k])
  BY DEF Sound, Registries
<1>2. \A k \in Keys : Synced(R.entries[k], es[k])
  BY <1>1, SyncEntryOK
<1>3. Sync(R, w) = NotifiedTimes(S, Cardinality(noted))
  BY DEF Sync
<1>4. IsFiniteSet(noted) /\ Cardinality(noted) \in Nat
  BY KeysFinite, FS_Subset, FS_CardinalityType
<1>5. ServingKeys(R) = Served(R)
  BY <1>1 DEF ServingKeys, Served, IsReady, Exists, EntryOK
<1>6. revoked \subseteq Served(R) /\ IsFiniteSet(revoked)
  <2>1. revoked \subseteq Served(R)
    BY <1>5
  <2>2. QED
    BY <2>1, ServedFinite, FS_Subset
<1>7. es \in [Keys -> Entry] /\ Cardinality(revoked) \in Nat
  BY <1>2, <1>6, FS_CardinalityType DEF Synced
<1>8. /\ S \in Registries /\ S.entries = es
      /\ S.ready = R.ready - Cardinality(revoked)
  <2> HIDE DEF es, revoked
  <2> DEFINE n == R.ready - Cardinality(revoked)
  <2>1. n \in Int
    BY <1>1, <1>7 DEF Registries
  <2> HIDE DEF n
  <2>2. S = [R EXCEPT !.entries = es, !.ready = n]
    BY DEF n
  <2>3. /\ [R EXCEPT !.entries = es, !.ready = n] \in Registries
        /\ [R EXCEPT !.entries = es, !.ready = n].entries = es
        /\ [R EXCEPT !.entries = es, !.ready = n].ready = n
    BY <1>1, <1>7, <2>1 DEF Registries
  <2>4. QED
    BY <2>2, <2>3 DEF n
<1>9. Served(S) = Served(R) \ revoked
  BY <1>2, <1>5, <1>8 DEF Served, Synced
<1> HIDE DEF revoked, noted, S
<1>10. Cardinality(Served(S)) = Cardinality(Served(R)) - Cardinality(revoked)
  <2>1. Served(R) \cap revoked = revoked
    BY <1>6
  <2>2. Cardinality(Served(R) \ revoked)
          = Cardinality(Served(R)) - Cardinality(Served(R) \cap revoked)
    BY ServedFinite, FS_Difference
  <2>3. QED
    BY <1>9, <2>1, <2>2
<1>11. Sound(S)
  BY <1>2, <1>8, <1>10 DEF Sound, Synced
<1>12. /\ Sound(NotifiedTimes(S, Cardinality(noted)))
       /\ NotifiedTimes(S, Cardinality(noted)).entries = es
  BY <1>4, <1>8, <1>11, NotifiedSound
<1>13. QED
  BY <1>2, <1>3, <1>12 DEF Evolves, Synced

-----------------------------------------------------------------------------
(* The remaining calls of a task. *)

\* A failed delete re-arms the gate of a removing relay and nothing else.
LEMMA DeleteFailedKept ==
  ASSUME NEW R, Sound(R), NEW k \in Keys, NEW g, NEW reason \in Reasons
  PROVE  Kept(R, DeleteFailed(R, k, g, reason), k)
<1> DEFINE e == R.entries[k]
           f == [e EXCEPT !.streak = Bump(@), !.reason = reason]
           W == With(R, k, f)
<1>1. e \in Entry /\ EntryOK(e)
  BY DEF Sound, Registries
<1>2. Bump(e.streak) \in 0 .. StreakCap
  <2>1. e.streak \in 0 .. StreakCap
    BY <1>1 DEF Entry
  <2>2. QED
    BY <2>1, BoundsAreNat DEF Bump, Least
<1>3. /\ f \in Entry /\ f.serving = e.serving /\ f.state = e.state
      /\ Identity(f) = Identity(e) /\ EntryOK(f)
  BY <1>1, <1>2 DEF Entry, Identity, EntryOK
<1>4. DeleteFailed(R, k, g, reason) \in {R, BackedOff(W, k)}
  BY DEF DeleteFailed
<1> HIDE DEF f
<1>5. Kept(R, W, k)
  BY <1>3, WithKept
<1> HIDE DEF W
<1>6. /\ Sound(BackedOff(W, k)) /\ Frame(W, BackedOff(W, k), k)
      /\ BackedOff(W, k).entries[k].state = W.entries[k].state
  BY <1>5, BookkeepingSound DEF Kept
<1>7. Kept(R, BackedOff(W, k), k)
  BY <1>5, <1>6, FrameTrans DEF Kept
<1>8. QED
  BY <1>4, <1>7, KeptItself

\* A purge leaves an absent entry that remembers its object.
LEMMA DeleteDoneSound ==
  ASSUME NEW R, Sound(R), NEW k \in Keys, NEW g
  PROVE  LET S == DeleteDone(R, k, g)
         IN  /\ Sound(S)
             /\ \A j \in Keys \ {k} : S.entries[j] = R.entries[j]
             /\ \/ S = R
                \/ S.entries[k] = Absent(R.entries[k].obj)
<1> DEFINE e == R.entries[k]
           f == Absent(e.obj)
           W == With(R, k, f)
<1>1. e \in Entry /\ EntryOK(e) /\ R \in Registries
  BY DEF Sound, Registries
<1>2. f \in Entry /\ f.serving = FALSE /\ EntryOK(f)
  <2>1. f \in Entry
    BY <1>1, FreshType DEF Entry
  <2>2. f.serving = FALSE
    BY DEF Absent, Fresh
  <2>3. QED
    BY <2>1, <2>2 DEF EntryOK
<1>3. CASE Current(R, k, g) /\ e.state = "removing"
  <2>1. e.serving = FALSE
    BY <1>1, <1>3 DEF EntryOK, Out, Entry
  <2> HIDE DEF f
  <2>2. Sound(W)
    BY <1>2, <2>1, WithSound
  <2>3. /\ W.entries[k] = f
        /\ \A j \in Keys \ {k} : W.entries[j] = R.entries[j]
    BY <1>1 DEF With, Registries
  <2> HIDE DEF W
  <2>4. Sound(Notified(W)) /\ Notified(W).entries = W.entries
    BY <2>2, NotifiedSound DEF Notified
  <2>5. DeleteDone(R, k, g) = Notified(W)
    BY <1>3 DEF DeleteDone, W, f
  <2>6. QED
    BY <2>3, <2>4, <2>5 DEF f
<1>4. CASE ~(Current(R, k, g) /\ e.state = "removing")
  BY <1>4 DEF DeleteDone
<1>5. QED
  BY <1>3, <1>4

\* A hold is taken on the entry there is, or on a new object.
LEMMA BeginSound ==
  ASSUME NEW R, Sound(R), NEW k \in Keys, CanBegin(R, k)
  PROVE  LET e == R.entries[k]
             f == Begin(R, k).entries[k]
         IN  /\ Sound(Begin(R, k))
             /\ \A j \in Keys \ {k} : Begin(R, k).entries[j] = R.entries[j]
             /\ f.present /\ f.busy
             /\ \/ /\ e.present /\ ~e.busy /\ f.obj = e.obj /\ f.gen = e.gen
                   /\ f.state = e.state
                \/ ~e.present /\ f.obj = e.obj + 1
<1> DEFINE e == R.entries[k]
           h == IF Exists(R, k) THEN e ELSE Fresh(e.obj + 1, Unknown)
           f == [h EXCEPT !.busy = TRUE]
<1>1. e \in Entry /\ EntryOK(e) /\ R \in Registries
  BY DEF Sound, Registries
<1>2. h \in Entry
  <2>1. e.obj + 1 \in Nat
    BY <1>1 DEF Entry
  <2>2. QED
    BY <1>1, <2>1, FreshType
<1>3. h.present /\ EntryOK(h) /\ h.serving = e.serving
  BY <1>1 DEF Fresh, Exists, EntryOK, Entry
<1>4. \/ e.present /\ ~e.busy /\ h = e
      \/ ~e.present /\ h.obj = e.obj + 1
  BY DEF CanBegin, Exists, Fresh
<1> HIDE DEF h
<1>5. /\ f \in Entry /\ f.busy /\ f.present /\ f.obj = h.obj
      /\ f.gen = h.gen /\ f.state = h.state /\ f.serving = h.serving
      /\ EntryOK(f)
  BY <1>2, <1>3 DEF Entry, EntryOK
<1>6. Begin(R, k) = With(R, k, f)
  BY DEF Begin, h
<1> HIDE DEF f
<1>7. Sound(With(R, k, f))
  BY <1>3, <1>5, WithSound
<1>8. /\ With(R, k, f).entries[k] = f
      /\ \A j \in Keys \ {k} : With(R, k, f).entries[j] = R.entries[j]
  BY <1>1 DEF With, Registries
<1>9. QED
  BY <1>4, <1>5, <1>6, <1>7, <1>8

\* A release clears the busy flag of the object it was taken on.
LEMMA ReleaseSound ==
  ASSUME NEW R, Sound(R), NEW k \in Keys, NEW o
  PROVE  LET e == R.entries[k]
             f == Release(R, k, o).entries[k]
         IN  /\ Sound(Release(R, k, o))
             /\ \A j \in Keys \ {k} : Release(R, k, o).entries[j] = R.entries[j]
             /\ f.present = e.present /\ f.obj = e.obj /\ f.gen = e.gen
             /\ f.state = e.state
             /\ e.obj # o => f.busy = e.busy
             /\ e.obj = o /\ e.present => ~f.busy
<1> DEFINE e == R.entries[k]
           f == [e EXCEPT !.busy = FALSE]
<1>1. e \in Entry /\ EntryOK(e) /\ R \in Registries
  BY DEF Sound, Registries
<1>2. /\ f \in Entry /\ ~f.busy /\ f.present = e.present /\ f.obj = e.obj
      /\ f.gen = e.gen /\ f.state = e.state /\ f.serving = e.serving
      /\ EntryOK(f)
  BY <1>1 DEF Entry, EntryOK
<1> HIDE DEF f
<1>3. Sound(With(R, k, f))
  BY <1>2, WithSound
<1>4. /\ With(R, k, f).entries[k] = f
      /\ \A j \in Keys \ {k} : With(R, k, f).entries[j] = R.entries[j]
  BY <1>1 DEF With, Registries
<1>5. \/ Release(R, k, o) = R /\ ~(e.present /\ e.obj = o)
      \/ Release(R, k, o) = With(R, k, f) /\ e.present /\ e.obj = o
  BY DEF Release, Exists, f
<1>6. QED
  BY <1>2, <1>3, <1>4, <1>5

-----------------------------------------------------------------------------
Terms(e) == <<e.scope, e.url, e.drainPending>>

(***************************************************************************)
(* The applier is told: unless the counter wraps, a step announces at most *)
(* n notifications, each leaves a token behind, none takes one away, and   *)
(* the serving set never changes unannounced.                              *)
(***************************************************************************)
Told(R, S, n) ==
  R.seq + n < SeqMod =>
    /\ R.seq <= S.seq /\ S.seq <= R.seq + n
    /\ R.changes => S.changes
    /\ S.seq # R.seq => S.changes
    /\ Served(S) # Served(R) => S.seq # R.seq

\* A step on k before it is announced: terms stay, no admission is granted.
Mild(R, S, k) ==
  /\ S.seq = R.seq /\ S.changes = R.changes
  /\ Terms(S.entries[k]) = Terms(R.entries[k])
  /\ S.entries[k].serving => R.entries[k].serving

\* What holds of a step of n notifications even when the counter wraps: a
\* changed serving set moves it, unless n of them lead once around.
Rings(R, S, n) ==
  n < SeqMod /\ Served(S) # Served(R) => S.changes /\ S.seq # R.seq

\* A completion that may cost k its admission, announced if it does.
Softens(R, S, k) ==
  /\ Kept(R, S, k)
  /\ Told(R, S, 1)
  /\ Rings(R, S, 1)
  /\ Terms(S.entries[k]) = Terms(R.entries[k])
  /\ S.entries[k].serving => R.entries[k].serving

-----------------------------------------------------------------------------
(* How announcements compose. *)

\* Two steps in a row announce what both do.
LEMMA ToldTrans ==
  ASSUME NEW R \in Registries, NEW S \in Registries, NEW T \in Registries,
         NEW n \in Nat, NEW m \in Nat, Told(R, S, n), Told(S, T, m)
  PROVE  Told(R, T, n + m)
<1>1. R.seq \in Nat /\ S.seq \in Nat /\ T.seq \in Nat
  BY DEF Registries
<1> SUFFICES ASSUME R.seq + (n + m) < SeqMod
             PROVE  /\ R.seq <= T.seq /\ T.seq <= R.seq + (n + m)
                    /\ R.changes => T.changes
                    /\ T.seq # R.seq => T.changes
                    /\ Served(T) # Served(R) => T.seq # R.seq
  BY DEF Told
<1>2. R.seq + n < SeqMod
  BY <1>1, BoundsAreNat
<1>3. /\ R.seq <= S.seq /\ S.seq <= R.seq + n
      /\ R.changes => S.changes
      /\ S.seq # R.seq => S.changes
      /\ Served(S) # Served(R) => S.seq # R.seq
  BY <1>2 DEF Told
<1>4. S.seq + m < SeqMod
  BY <1>1, <1>3, BoundsAreNat
<1>5. /\ S.seq <= T.seq /\ T.seq <= S.seq + m
      /\ S.changes => T.changes
      /\ T.seq # S.seq => T.changes
      /\ Served(T) # Served(S) => T.seq # S.seq
  BY <1>4 DEF Told
<1>6. R.seq <= T.seq /\ T.seq <= R.seq + (n + m)
  BY <1>1, <1>3, <1>5
<1>7. T.seq = R.seq => S.seq = R.seq /\ T.seq = S.seq
  BY <1>1, <1>3, <1>5
<1> QED
  BY <1>3, <1>5, <1>6, <1>7, Zenon

\* A bound that is not reached is a bound.
LEMMA ToldWeaker ==
  ASSUME NEW R \in Registries, NEW S \in Registries,
         NEW n \in Nat, NEW m \in Nat, n <= m, Told(R, S, n)
  PROVE  Told(R, S, m)
<1>1. R.seq \in Nat /\ S.seq \in Nat
  BY DEF Registries
<1> QED
  BY <1>1, BoundsAreNat DEF Told

\* A step that leaves the counter, the token and every admission alone.
LEMMA ToldNothing ==
  ASSUME NEW R \in Registries, NEW S, NEW n \in Nat, S.seq = R.seq,
         S.changes = R.changes,
         \A j \in Keys : S.entries[j].serving = R.entries[j].serving
  PROVE  Told(R, S, n)
<1>1. Served(S) = Served(R)
  BY DEF Served
<1>2. R.seq \in Nat
  BY DEF Registries
<1> QED
  BY <1>1, <1>2 DEF Told

\* notifyLocked, n times: the counter moves by n, and a token is left.
LEMMA NotifiedSeq ==
  ASSUME NEW R \in Registries, NEW n \in Nat
  PROVE  LET S == NotifiedTimes(R, n) IN
         /\ S.entries = R.entries
         /\ S.changes = (R.changes \/ n > 0)
         /\ R.seq + n < SeqMod => S.seq = R.seq + n
<1>1. /\ NotifiedTimes(R, n).entries = R.entries
      /\ NotifiedTimes(R, n).changes = (R.changes \/ n > 0)
      /\ NotifiedTimes(R, n).seq = (R.seq + n) % SeqMod
  BY DEF NotifiedTimes, Registries
<1>2. R.seq + n \in Nat /\ SeqMod \in Nat \ {0}
  BY BoundsAreNat DEF Registries
<1>3. \A x \in Nat, y \in Nat \ {0} : x < y => x % y = x
  OBVIOUS
<1> QED
  BY <1>1, <1>2, <1>3

\* Whatever a step did on the way, one notification announces it.
LEMMA NotifiedTold ==
  ASSUME NEW R \in Registries, NEW S \in Registries, S.seq = R.seq
  PROVE  Told(R, Notified(S), 1)
<1>1. /\ Notified(S).changes = TRUE
      /\ S.seq + 1 < SeqMod => Notified(S).seq = S.seq + 1
  <2>1. (S.changes \/ 1 > 0) = TRUE
    OBVIOUS
  <2> QED
    BY <2>1, NotifiedSeq DEF Notified
<1>2. R.seq \in Nat
  BY DEF Registries
<1> QED
  BY <1>1, <1>2 DEF Told

\* Less than once around is not back.
LEMMA NotBack ==
  ASSUME NEW x \in Nat, NEW n \in Nat, NEW m \in Nat, 0 < n, n < m
  PROVE  (x + n) % m # x
<1>1. CASE x >= m
  <2>1. (x + n) % m \in 0 .. m - 1
    OBVIOUS
  <2> QED
    BY <1>1, <2>1
<1>2. CASE x + n < m
  <2>1. \A y \in Nat : y < m => y % m = y
    OBVIOUS
  <2> QED
    BY <1>2, <2>1
<1>3. CASE x < m /\ m <= x + n
  <2> DEFINE y == x + n - m
  <2>1. y \in Nat /\ y < m /\ y # x /\ x + n = y + m
    BY <1>3
  <2> HIDE DEF y
  <2>2. (y + m) % m = y
    BY <2>1
  <2> QED
    BY <2>1, <2>2
<1> QED
  BY <1>1, <1>2, <1>3

\* Notifications ring.
LEMMA NotifiedRings ==
  ASSUME NEW R \in Registries, NEW S \in Registries, NEW n \in Nat, NEW m \in Nat,
         S.seq = R.seq, n <= m, Served(NotifiedTimes(S, n)) # Served(R) => n > 0
  PROVE  Rings(R, NotifiedTimes(S, n), m)
<1>1. R.seq \in Nat /\ SeqMod \in Nat
  BY BoundsAreNat DEF Registries
<1>2. NotifiedTimes(S, n).seq = (R.seq + n) % SeqMod
  BY DEF NotifiedTimes, Registries
<1>3. NotifiedTimes(S, n).changes = (S.changes \/ n > 0)
  BY NotifiedSeq
<1>4. 0 < n /\ n < SeqMod => (R.seq + n) % SeqMod # R.seq
  BY <1>1, NotBack
<1>5. m < SeqMod => n < SeqMod
  BY <1>1
<1> QED
  BY <1>2, <1>3, <1>4, <1>5 DEF Rings

\* A step that changes no admission need not ring.
LEMMA QuietRings ==
  ASSUME NEW R, NEW S, NEW n,
         \A j \in Keys : S.entries[j].serving = R.entries[j].serving
  PROVE  Rings(R, S, n)
BY DEF Served, Rings

-----------------------------------------------------------------------------
(* The internals. *)

\* Replacing k's entry.
LEMMA WithMild ==
  ASSUME NEW R \in Registries, NEW k \in Keys, NEW e,
         Terms(e) = Terms(R.entries[k]), e.serving => R.entries[k].serving
  PROVE  Mild(R, With(R, k, e), k)
BY DEF With, Registries, Mild

\* Two such steps in a row.
LEMMA MildTrans ==
  ASSUME NEW R, NEW S, NEW T, NEW k, Mild(R, S, k), Mild(S, T, k)
  PROVE  Mild(R, T, k)
BY DEF Mild

\* Bookkeeping, gates, labels and the revocation.
LEMMA InternalsMild ==
  ASSUME NEW R \in Registries, NEW k \in Keys, NEW streak, NEW reason, NEW state
  PROVE  /\ Mild(R, Attempted(R, k, streak, reason), k)
         /\ Mild(R, BackedOff(R, k), k)
         /\ Mild(R, Parked(R, k), k)
         /\ Mild(R, Labelled(R, k, state), k)
         /\ Mild(R, Revoked(R, k), k)
<1> DEFINE e == R.entries[k]
<1>1. e \in Entry
  BY DEF Registries
<1>2. \A w : Terms([e EXCEPT !.wait = w]) = Terms(e)
             /\ [e EXCEPT !.wait = w].serving = e.serving
  BY <1>1 DEF Terms, Entry
<1>3. Mild(R, BackedOff(R, k), k) /\ Mild(R, Parked(R, k), k)
  BY <1>2, WithMild DEF BackedOff, Parked
<1>4. Mild(R, Attempted(R, k, streak, reason), k)
  <2> DEFINE f == [e EXCEPT !.attempted = TRUE, !.age = 0,
                            !.streak = streak, !.reason = reason]
  <2>1. Terms(f) = Terms(e) /\ f.serving = e.serving
    BY <1>1 DEF Terms, Entry
  <2> HIDE DEF f
  <2> QED
    BY <2>1, WithMild DEF Attempted, f
<1>5. Mild(R, Labelled(R, k, state), k)
  <2> DEFINE f == [e EXCEPT !.state = state]
  <2>1. Terms(f) = Terms(e) /\ f.serving = e.serving
    BY <1>1 DEF Terms, Entry
  <2> HIDE DEF f
  <2> QED
    BY <2>1, WithMild DEF Labelled, f
<1>6. Mild(R, Revoked(R, k), k)
  <2> DEFINE f == [e EXCEPT !.serving = FALSE]
             W == With(R, k, f)
  <2>1. Terms(f) = Terms(e) /\ f.serving = FALSE
    BY <1>1 DEF Terms, Entry
  <2> HIDE DEF f
  <2>2. Mild(R, W, k)
    BY <2>1, WithMild
  <2>3. CASE ~e.serving
    BY <2>3 DEF Revoked, Mild
  <2>4. CASE e.serving
    <3>1. Revoked(R, k) = [W EXCEPT !.ready = @ - 1]
      BY <2>4 DEF Revoked, f
    <3>2. W = [R EXCEPT !.entries = [@ EXCEPT ![k] = f]]
      BY DEF With
    <3>3. /\ [W EXCEPT !.ready = @ - 1].entries = W.entries
          /\ [W EXCEPT !.ready = @ - 1].seq = W.seq
          /\ [W EXCEPT !.ready = @ - 1].changes = W.changes
      BY <3>2 DEF Registries
    <3> QED
      BY <2>2, <3>1, <3>3 DEF Mild
  <2> QED
    BY <2>3, <2>4
<1> QED
  BY <1>3, <1>4, <1>5, <1>6

\* The internals map registries to registries.
LEMMA InternalsType ==
  ASSUME NEW R \in Registries, NEW k \in Keys, NEW streak \in 0 .. StreakCap,
         NEW reason \in Reasons, NEW state \in States
  PROVE  /\ Attempted(R, k, streak, reason) \in Registries
         /\ BackedOff(R, k) \in Registries
         /\ Parked(R, k) \in Registries
         /\ Labelled(R, k, state) \in Registries
         /\ Revoked(R, k) \in Registries
<1> DEFINE e == R.entries[k]
<1>1. e \in Entry /\ R.cfg \in Settings /\ R.ready \in Int
  BY DEF Registries
<1>2. Delay(R.cfg, e.streak, R.ready) \in Nat /\ R.cfg.pause \in Nat
  BY <1>1, DelayType DEF Entry, Settings
<1>3. \A w \in Nat : [e EXCEPT !.wait = w] \in Entry
  BY <1>1 DEF Entry
<1>4. BackedOff(R, k) \in Registries /\ Parked(R, k) \in Registries
  BY <1>2, <1>3, WithType DEF BackedOff, Parked
<1>5. Attempted(R, k, streak, reason) \in Registries
  <2>1. [e EXCEPT !.attempted = TRUE, !.age = 0, !.streak = streak,
                  !.reason = reason] \in Entry
    BY <1>1 DEF Entry
  <2> QED
    BY <2>1, WithType DEF Attempted
<1>6. Labelled(R, k, state) \in Registries
  <2>1. [e EXCEPT !.state = state] \in Entry
    BY <1>1 DEF Entry
  <2> QED
    BY <2>1, WithType DEF Labelled
<1>7. Revoked(R, k) \in Registries
  <2> DEFINE W == With(R, k, [e EXCEPT !.serving = FALSE])
  <2>1. [e EXCEPT !.serving = FALSE] \in Entry
    BY <1>1 DEF Entry
  <2>2. W \in Registries
    BY <2>1, WithType
  <2>3. Revoked(R, k) = R \/ Revoked(R, k) = [W EXCEPT !.ready = @ - 1]
    BY DEF Revoked
  <2> HIDE DEF W
  <2>4. [W EXCEPT !.ready = @ - 1] \in Registries
    BY <2>2 DEF Registries
  <2> QED
    BY <2>3, <2>4
<1> QED
  BY <1>4, <1>5, <1>6, <1>7

-----------------------------------------------------------------------------
(* The completions. *)

\* What remains of Softens when the frame is known already.
Eases(R, S, k) ==
  /\ Told(R, S, 1)
  /\ Rings(R, S, 1)
  /\ Terms(S.entries[k]) = Terms(R.entries[k])
  /\ S.entries[k].serving => R.entries[k].serving

\* A step that takes no admission need not be announced.
LEMMA SilentEases ==
  ASSUME NEW R \in Registries, NEW S, NEW k \in Keys, Frame(R, S, k),
         Mild(R, S, k), S.entries[k].serving = R.entries[k].serving
  PROVE  Eases(R, S, k)
<1>1. \A j \in Keys : S.entries[j].serving = R.entries[j].serving
  BY DEF Frame
<1> QED
  BY <1>1, ToldNothing, QuietRings DEF Mild, Eases

\* A step that may take one is.
LEMMA NotifiedEases ==
  ASSUME NEW R \in Registries, NEW S \in Registries, NEW k \in Keys,
         Mild(R, S, k)
  PROVE  Eases(R, Notified(S), k)
<1>1. Told(R, Notified(S), 1)
  BY NotifiedTold DEF Mild
<1>2. Notified(S).entries = S.entries
  BY NotifiedSeq DEF Notified
<1>3. Rings(R, Notified(S), 1)
  BY NotifiedRings DEF Mild, Notified
<1> QED
  BY <1>1, <1>2, <1>3 DEF Mild, Eases

\* The first failure out of the pool is announced, later ones are not.
LEMMA OutOfPoolEases ==
  ASSUME NEW R, Sound(R), NEW A, Sound(A), NEW k \in Keys, Frame(R, A, k),
         Mild(R, A, k), A.entries[k].serving = R.entries[k].serving,
         ~A.entries[k].serving
  PROVE  Eases(R, OutOfPool(A, k), k)
<1> DEFINE L == Labelled(A, k, "failed")
           N == Notified(L)
           B == IF A.entries[k].state \in {"unready", "failed"} THEN A ELSE N
           S == BackedOff(B, k)
<1>0. R \in Registries /\ A \in Registries
  BY DEF Sound
<1>1. Sound(L) /\ L \in Registries /\ Mild(R, L, k)
  BY <1>0, LabelledSound, InternalsMild, MildTrans DEF States, Sound
<1>2. S = OutOfPool(A, k)
  BY DEF OutOfPool
<1> HIDE DEF L
<1>3. Sound(N) /\ Eases(R, N, k)
  BY <1>0, <1>1, NotifiedEases, NotifiedSound DEF Notified
<1>4. Eases(R, A, k)
  BY <1>0, SilentEases
<1> HIDE DEF N
<1>5. Sound(B) /\ Eases(R, B, k)
  BY <1>3, <1>4
<1> HIDE DEF B
<1>6. /\ Mild(B, S, k) /\ Frame(B, S, k)
      /\ S.entries[k].serving = B.entries[k].serving
  BY <1>5, InternalsMild, BookkeepingSound DEF Sound
<1>7. Served(S) = Served(B)
  BY <1>6 DEF Served, Frame
<1>8. Eases(R, S, k)
  BY <1>5, <1>6, <1>7 DEF Eases, Mild, Told, Rings
<1> QED
  BY <1>2, <1>8

\* A demotion is announced, and leaves no admission.
LEMMA DemotedEases ==
  ASSUME NEW R \in Registries, NEW A, Sound(A), NEW k \in Keys, Mild(R, A, k)
  PROVE  Eases(R, Demoted(A, k), k)
<1> DEFINE V == Revoked(A, k)
           L == Labelled(V, k, "unready")
           B == BackedOff(L, k)
<1>0. A \in Registries
  BY DEF Sound
<1>1. "unready" \in States /\ "" \in Reasons /\ 0 \in 0 .. StreakCap
  BY BoundsAreNat DEF States, Reasons
<1>2. V \in Registries /\ Mild(R, V, k)
  BY <1>0, <1>1, InternalsType, InternalsMild, MildTrans
<1> HIDE DEF V
<1>3. L \in Registries /\ Mild(R, L, k)
  BY <1>1, <1>2, InternalsType, InternalsMild, MildTrans
<1> HIDE DEF L
<1>4. B \in Registries /\ Mild(R, B, k)
  BY <1>1, <1>3, InternalsType, InternalsMild, MildTrans
<1>5. Demoted(A, k) = Notified(B)
  BY DEF Demoted, B, L, V
<1> HIDE DEF B
<1> QED
  BY <1>4, <1>5, NotifiedEases

\* Enter moves the label, and the one that matters to a rollout for certain.
LEMMA EnterSoftens ==
  ASSUME NEW R, Sound(R), NEW k \in Keys, NEW g,
         NEW state \in States \ {"removing"}, NEW reason \in Reasons,
         R.entries[k].serving => state \notin Out,
         Current(R, k, g) => R.entries[k].state # "removing"
  PROVE  LET S == Enter(R, k, g, state, reason) IN
         /\ Softens(R, S, k)
         /\ S.entries[k].serving = R.entries[k].serving
         /\ Current(R, k, g) /\ state = "deploying" => S.entries[k].state = state
<1> DEFINE e     == R.entries[k]
           moved == [e EXCEPT !.state = state, !.reason = reason]
           openE == [moved EXCEPT !.streak = 0, !.wait = 0]
           f     == IF state = "deploying" THEN openE ELSE moved
           W     == With(R, k, f)
           S     == Enter(R, k, g, state, reason)
<1>1. e \in Entry /\ R \in Registries
  BY DEF Sound, Registries
<1>2. /\ Terms(moved) = Terms(e) /\ moved.serving = e.serving /\ moved.state = state
      /\ Identity(moved) = Identity(e) /\ moved \in Entry
  BY <1>1 DEF Terms, Entry, Identity
<1>3. /\ Terms(openE) = Terms(e) /\ openE.serving = e.serving /\ openE.state = state
      /\ Identity(openE) = Identity(e) /\ openE \in Entry
  <2>1. 0 \in 0 .. StreakCap
    BY BoundsAreNat
  <2> HIDE DEF moved
  <2> QED
    BY <1>2, <2>1 DEF Terms, Entry, Identity
<1>4. \/ S = R /\ ~(Current(R, k, g) /\ state = "deploying")
      \/ S = W
      \/ S = Notified(W)
  BY DEF Enter, NotifiedIf
<1>5. Kept(R, S, k)
  BY EnterKept
<1> HIDE DEF moved, openE, S
<1>6. /\ Terms(f) = Terms(e) /\ f.serving = e.serving /\ f.state = state
      /\ Identity(f) = Identity(e) /\ f \in Entry
  BY <1>2, <1>3
<1> HIDE DEF f
<1>7. /\ Mild(R, W, k) /\ W \in Registries /\ Frame(R, W, k)
      /\ W.entries[k] = f
  BY <1>1, <1>6, WithMild, WithType, WithFrame
<1> HIDE DEF W
<1>8. Eases(R, W, k) /\ Eases(R, Notified(W), k) /\ Eases(R, R, k)
  BY <1>1, <1>6, <1>7, SilentEases, NotifiedEases DEF Mild, Frame
<1>9. Notified(W).entries = W.entries
  BY <1>7, NotifiedSeq DEF Notified
<1> QED
  BY <1>4, <1>5, <1>6, <1>7, <1>8, <1>9 DEF Softens, Eases, S

\* A completion that went the four ways of Failing.
LEMMA FailingSoftens ==
  ASSUME NEW R, Sound(R), NEW k \in Keys, NEW g, NEW reason \in Reasons,
         Current(R, k, g) => R.entries[k].state # "removing"
  PROVE  Softens(R, Failing(R, k, g, reason), k)
<1> DEFINE e == R.entries[k]
           A == Attempted(R, k, Bump(e.streak), reason)
           S == Failing(R, k, g, reason)
<1>1. Bump(e.streak) \in 0 .. StreakCap
  <2>1. e.streak \in 0 .. StreakCap
    BY DEF Sound, Registries, Entry
  <2> QED
    BY <2>1, BoundsAreNat DEF Bump, Least
<1>2. R \in Registries
  BY DEF Sound
<1>3. /\ Sound(A) /\ Frame(R, A, k) /\ Mild(R, A, k) /\ A \in Registries
      /\ A.entries[k].serving = e.serving
  BY <1>1, <1>2, AttemptedSound, InternalsMild DEF Sound
<1>4. \/ S = R \/ S = Parked(A, k) \/ S = BackedOff(A, k)
      \/ ~e.serving /\ S = OutOfPool(A, k)
      \/ S = Demoted(A, k)
  BY DEF Failing
<1>5. Kept(R, S, k)
  BY FailingKept
<1> HIDE DEF A, S
<1>6. Eases(R, R, k)
  BY <1>2, SilentEases DEF Mild, Frame
<1>7. Eases(R, Parked(A, k), k) /\ Eases(R, BackedOff(A, k), k)
  BY <1>2, <1>3, BookkeepingSound, InternalsMild, MildTrans, FrameTrans, SilentEases
<1>8. ~e.serving => Eases(R, OutOfPool(A, k), k)
  BY <1>3, OutOfPoolEases
<1>9. Eases(R, Demoted(A, k), k)
  BY <1>2, <1>3, DemotedEases
<1> QED
  BY <1>4, <1>5, <1>6, <1>7, <1>8, <1>9 DEF Softens, Eases, S

\* Demote leaves no admission behind.
LEMMA DemoteSoftens ==
  ASSUME NEW R, Sound(R), NEW k \in Keys, NEW g, NEW reason \in Reasons,
         Current(R, k, g) => R.entries[k].state # "removing"
  PROVE  LET S == Demote(R, k, g, reason) IN
         /\ Softens(R, S, k)
         /\ Current(R, k, g) => ~S.entries[k].serving
         /\ Current(R, k, g) /\ R.entries[k].serving /\ R.seq + 1 < SeqMod
              => R.seq < S.seq
<1> DEFINE e == R.entries[k]
           n == Least(R.cfg.demoteAfter, StreakCap)
           A == Attempted(R, k, n, reason)
           S == Demote(R, k, g, reason)
<1>1. n \in 0 .. StreakCap
  <2>1. R.cfg.demoteAfter \in Nat
    BY DEF Sound, Registries, Settings
  <2> QED
    BY <2>1, BoundsAreNat DEF Least
<1>2. R \in Registries
  BY DEF Sound
<1>3. /\ Sound(A) /\ Frame(R, A, k) /\ Mild(R, A, k) /\ A \in Registries
      /\ A.entries[k].serving = e.serving
  BY <1>1, <1>2, AttemptedSound, InternalsMild DEF Sound
<1>4. \/ S = R /\ ~Current(R, k, g)
      \/ ~e.serving /\ S = OutOfPool(A, k)
      \/ S = Demoted(A, k)
  BY DEF Demote
<1>5. Kept(R, S, k)
  BY DemoteKept
<1> HIDE DEF A, S
<1>6. Eases(R, R, k)
  BY <1>2, SilentEases DEF Mild, Frame
<1>7. ~e.serving => Eases(R, OutOfPool(A, k), k)
  BY <1>3, OutOfPoolEases
<1>8. Eases(R, Demoted(A, k), k) /\ ~Demoted(A, k).entries[k].serving
  BY <1>2, <1>3, DemotedEases, DemotedSound
<1>9. Softens(R, S, k)
  BY <1>4, <1>5, <1>6, <1>7, <1>8 DEF Softens, Eases
<1>10. Current(R, k, g) => ~S.entries[k].serving
  BY <1>4, <1>7, <1>8 DEF Eases
<1>11. ASSUME Current(R, k, g), e.serving, R.seq + 1 < SeqMod
       PROVE  R.seq < S.seq
  <2>1. k \in Served(R) /\ k \notin Served(S)
    BY <1>10, <1>11 DEF Served
  <2>2. S \in Registries
    BY <1>5 DEF Kept, Sound
  <2> QED
    BY <1>2, <1>9, <1>11, <2>1, <2>2 DEF Softens, Told, Registries
<1> QED
  BY <1>9, <1>10, <1>11 DEF S

\* Pause revokes and announces it.
LEMMA PauseSoftens ==
  ASSUME NEW R, Sound(R), NEW k \in Keys, NEW g, NEW reason \in Reasons,
         Current(R, k, g) => R.entries[k].state # "removing"
  PROVE  Softens(R, Pause(R, k, g, reason), k)
<1> DEFINE A == Attempted(R, k, R.entries[k].streak, reason)
           B == Parked(A, k)
           L == Labelled(B, k, "paused")
           V == Revoked(L, k)
<1>0. Kept(R, Pause(R, k, g, reason), k)
  BY PauseKept
<1>1. R \in Registries /\ R.entries[k].streak \in 0 .. StreakCap
      /\ "paused" \in States
  BY DEF Sound, Registries, Entry, States
<1>2. Pause(R, k, g, reason) = R \/ Pause(R, k, g, reason) = Notified(V)
  BY DEF Pause
<1>3. A \in Registries /\ Mild(R, A, k)
  BY <1>1, InternalsType, InternalsMild
<1> HIDE DEF A
<1>4. B \in Registries /\ Mild(R, B, k)
  BY <1>1, <1>3, InternalsType, InternalsMild, MildTrans
<1> HIDE DEF B
<1>5. L \in Registries /\ Mild(R, L, k)
  BY <1>1, <1>4, InternalsType, InternalsMild, MildTrans
<1> HIDE DEF L
<1>6. V \in Registries /\ Mild(R, V, k)
  BY <1>1, <1>5, InternalsType, InternalsMild, MildTrans
<1> HIDE DEF V
<1>7. Eases(R, Notified(V), k) /\ Eases(R, R, k)
  BY <1>1, <1>6, NotifiedEases, SilentEases DEF Mild, Frame
<1> QED
  BY <1>0, <1>2, <1>7 DEF Softens, Eases

\* A failed delete changes nothing a reader sees.
LEMMA DeleteFailedSoftens ==
  ASSUME NEW R, Sound(R), NEW k \in Keys, NEW g, NEW reason \in Reasons
  PROVE  Softens(R, DeleteFailed(R, k, g, reason), k)
<1> DEFINE e == R.entries[k]
           f == [e EXCEPT !.streak = Bump(@), !.reason = reason]
           W == With(R, k, f)
           S == BackedOff(W, k)
<1>1. e \in Entry /\ R \in Registries /\ Bump(e.streak) \in 0 .. StreakCap
  <2>1. e \in Entry /\ R \in Registries
    BY DEF Sound, Registries
  <2>2. e.streak \in 0 .. StreakCap
    BY <2>1 DEF Entry
  <2> QED
    BY <2>1, <2>2, BoundsAreNat DEF Bump, Least
<1>2. /\ f \in Entry /\ f.serving = e.serving /\ Terms(f) = Terms(e)
      /\ f.state = e.state /\ Identity(f) = Identity(e) /\ EntryOK(f)
  BY <1>1 DEF Terms, Entry, Identity, EntryOK, Sound
<1>3. DeleteFailed(R, k, g, reason) \in {R, S}
  BY DEF DeleteFailed
<1>4. Kept(R, DeleteFailed(R, k, g, reason), k)
  BY DeleteFailedKept
<1> HIDE DEF f
<1>5. /\ Sound(W) /\ Frame(R, W, k) /\ Mild(R, W, k)
      /\ W.entries[k].serving = e.serving
  BY <1>1, <1>2, WithSound, WithFrame, WithMild
<1> HIDE DEF W
<1>6. /\ Mild(R, S, k) /\ Frame(R, S, k) /\ S.entries[k].serving = e.serving
  BY <1>5, BookkeepingSound, InternalsMild, MildTrans, FrameTrans DEF Sound
<1>7. Eases(R, S, k) /\ Eases(R, R, k)
  BY <1>1, <1>6, SilentEases DEF Mild, Frame
<1> HIDE DEF S
<1> QED
  BY <1>3, <1>4, <1>7 DEF Softens, Eases

\* A mark on k's entry that keeps everything but the mark.
LEMMA MarkTold ==
  ASSUME NEW R, Sound(R), NEW k \in Keys, NEW f \in Entry,
         f.serving = R.entries[k].serving, f.scope = R.entries[k].scope,
         f.url = R.entries[k].url
  PROVE  LET S == With(R, k, f) IN
         /\ S.entries[k] = f
         /\ S.seq = R.seq /\ S.changes = R.changes /\ Served(S) = Served(R)
<1>1. R \in Registries
  BY DEF Sound
<1>2. /\ \A j \in Keys : With(R, k, f).entries[j]
                           = IF j = k THEN f ELSE R.entries[j]
      /\ With(R, k, f).seq = R.seq /\ With(R, k, f).changes = R.changes
  BY <1>1 DEF With, Registries
<1> QED
  BY <1>2 DEF Served

\* DeferDrain records the debt, DrainCompleted settles it, TakeScopeChanged
\* touches neither, and nobody is told.
LEMMA MarksTold ==
  ASSUME NEW R, Sound(R), NEW k \in Keys, NEW g
  PROVE  /\ \A S \in {DeferDrain(R, k, g), DrainCompleted(R, k, g),
                      ScopeMarkTaken(R, k, g)} :
              /\ Kept(R, S, k)
              /\ S.seq = R.seq /\ S.changes = R.changes /\ Served(S) = Served(R)
              /\ S.entries[k].serving = R.entries[k].serving
              /\ S.entries[k].state = R.entries[k].state
              /\ S.entries[k].scope = R.entries[k].scope
              /\ S.entries[k].url = R.entries[k].url
         /\ ScopeMarkTaken(R, k, g).entries[k].drainPending
              = R.entries[k].drainPending
         /\ Current(R, k, g) => /\ DeferDrain(R, k, g).entries[k].drainPending
                                /\ ~DrainCompleted(R, k, g).entries[k].drainPending
<1> DEFINE e == R.entries[k]
           a == [e EXCEPT !.drainPending = TRUE]
           b == [e EXCEPT !.drainPending = FALSE]
           c == [e EXCEPT !.scopeChanged = FALSE]
<1>1. e \in Entry
  BY DEF Sound, Registries
<1>2. \A f \in {a, b, c} :
        /\ f \in Entry /\ f.serving = e.serving /\ f.scope = e.scope
        /\ f.url = e.url /\ f.state = e.state
  BY <1>1 DEF Entry
<1>3. a.drainPending /\ ~b.drainPending /\ c.drainPending = e.drainPending
  BY <1>1 DEF Entry
<1>4. /\ DeferDrain(R, k, g) = IF Current(R, k, g) THEN With(R, k, a) ELSE R
      /\ DrainCompleted(R, k, g) = IF Current(R, k, g) THEN With(R, k, b) ELSE R
      /\ ScopeMarkTaken(R, k, g) = IF Current(R, k, g) THEN With(R, k, c) ELSE R
  BY DEF DeferDrain, DrainCompleted, ScopeMarkTaken
<1> HIDE DEF a, b, c
<1>5. \A f \in {a, b, c} :
        LET S == With(R, k, f) IN
        /\ S.entries[k] = f
        /\ S.seq = R.seq /\ S.changes = R.changes /\ Served(S) = Served(R)
  BY <1>2, MarkTold
<1> QED
  BY <1>2, <1>3, <1>4, <1>5, MarksKept

\* Ready admits under the terms it verified, and announces a new admission.
LEMMA ReadyTold ==
  ASSUME NEW R, Sound(R), NEW k \in Keys, NEW g, NEW url \in Endpoints,
         Current(R, k, g) => R.entries[k].state # "removing"
  PROVE  LET S == Ready(R, k, g, url) IN
         /\ Kept(R, S, k)
         /\ Told(R, S, 1)
         /\ Rings(R, S, 1)
         /\ S.entries[k].scope = R.entries[k].scope
         /\ ~Current(R, k, g) => S = R
         /\ Current(R, k, g) => S.entries[k].serving /\ S.entries[k].url = url
<1> DEFINE e == R.entries[k]
           f == [e EXCEPT !.url = url, !.state = "ready", !.reason = "",
                          !.attempted = TRUE, !.age = 0, !.streak = 0,
                          !.drainPending = FALSE, !.scopeChanged = FALSE,
                          !.wait = 0, !.serving = TRUE]
           W == With(R, k, f)
           A == [W EXCEPT !.ready = @ + 1]
           S == Ready(R, k, g, url)
<1>1. e \in Entry /\ 0 \in 0 .. StreakCap /\ R \in Registries
  BY BoundsAreNat DEF Sound, Registries
<1>2. f \in Entry /\ f.serving = TRUE /\ f.url = url /\ f.scope = e.scope
  BY <1>1 DEF Entry, States, Reasons
<1>3. \/ ~Current(R, k, g) /\ S = R
      \/ Current(R, k, g) /\ e.serving /\ S = W
      \/ Current(R, k, g) /\ ~e.serving /\ S = Notified(A)
  BY DEF Ready
<1>4. Kept(R, S, k)
  BY ReadyKept
<1> HIDE DEF f, S
<1>5. /\ W \in Registries /\ W.seq = R.seq /\ W.changes = R.changes
      /\ \A j \in Keys : W.entries[j] = IF j = k THEN f ELSE R.entries[j]
  BY <1>1, <1>2, WithType DEF With, Registries
<1> HIDE DEF W
<1>6. A \in Registries /\ A.entries = W.entries /\ A.seq = W.seq
  BY <1>5 DEF Registries
<1> HIDE DEF A
<1>7. Told(R, Notified(A), 1) /\ Notified(A).entries = A.entries
  BY <1>1, <1>5, <1>6, NotifiedTold, NotifiedSeq DEF Notified
<1>8. Told(R, R, 1) /\ Rings(R, R, 1) /\ Rings(R, Notified(A), 1)
  BY <1>1, <1>5, <1>6, ToldNothing, QuietRings, NotifiedRings DEF Notified
<1>9. e.serving => Told(R, W, 1) /\ Rings(R, W, 1)
  <2>1. ASSUME e.serving
        PROVE  \A j \in Keys : W.entries[j].serving = R.entries[j].serving
    BY <1>1, <1>2, <1>5, <2>1 DEF Entry
  <2> QED
    BY <1>1, <1>5, <2>1, ToldNothing, QuietRings
<1> QED
  BY <1>2, <1>3, <1>4, <1>5, <1>6, <1>7, <1>8, <1>9 DEF S

-----------------------------------------------------------------------------
(* Holds, purges, clocks and Sync. *)

\* What a reader sees of an entry, apart from the hold.
Facts(e) == <<e.present, e.obj, e.gen, e.state, e.serving, Terms(e)>>

\* Taking and returning a hold changes the hold alone, and tells nobody.
LEMMA HoldsTold ==
  ASSUME NEW R, Sound(R), NEW k \in Keys, NEW o
  PROVE  /\ \A S \in {Begin(R, k), Release(R, k, o)} :
              Exists(R, k) =>
                /\ S \in Registries /\ S.seq = R.seq /\ S.changes = R.changes
                /\ Served(S) = Served(R)
                /\ Facts(S.entries[k]) = Facts(R.entries[k])
         /\ Exists(R, k) => Begin(R, k).entries[k].busy
         /\ R.entries[k].obj = o => ~(/\ Exists(R, k)
                                      /\ Release(R, k, o).entries[k].busy)
         /\ ~Exists(R, k) => Release(R, k, o) = R
<1> DEFINE e == R.entries[k]
           a == [e EXCEPT !.busy = TRUE]
           b == [e EXCEPT !.busy = FALSE]
<1>1. e \in Entry /\ R \in Registries
  BY DEF Sound, Registries
<1>2. \A f \in {a, b} : f \in Entry /\ f.serving = e.serving
                        /\ f.scope = e.scope /\ f.url = e.url
                        /\ Facts(f) = Facts(e)
  BY <1>1 DEF Entry, Facts, Terms
<1>3. a.busy /\ ~b.busy
  BY <1>1 DEF Entry
<1>4. /\ Exists(R, k) => Begin(R, k) = With(R, k, a)
      /\ Release(R, k, o) = IF Exists(R, k) /\ e.obj = o THEN With(R, k, b) ELSE R
  BY DEF Begin, Release
<1> HIDE DEF a, b
<1>5. \A f \in {a, b} :
        LET S == With(R, k, f) IN
        /\ S \in Registries
        /\ S.entries[k] = f
        /\ S.seq = R.seq /\ S.changes = R.changes /\ Served(S) = Served(R)
  BY <1>1, <1>2, MarkTold, WithType
<1> QED
  BY <1>1, <1>2, <1>3, <1>4, <1>5

\* A purge is announced; the relay held no admission.
LEMMA DeleteDoneTold ==
  ASSUME NEW R, Sound(R), NEW k \in Keys, NEW g
  PROVE  LET S == DeleteDone(R, k, g) IN
         /\ Told(R, S, 1)
         /\ ~(Current(R, k, g) /\ R.entries[k].state = "removing") => S = R
         /\ Current(R, k, g) /\ R.entries[k].state = "removing" =>
              S.entries[k] = Absent(R.entries[k].obj)
<1> DEFINE e == R.entries[k]
           f == Absent(e.obj)
           W == With(R, k, f)
<1>1. e \in Entry /\ R \in Registries
  BY DEF Sound, Registries
<1>2. f \in Entry
  BY <1>1, FreshType DEF Entry
<1>3. CASE ~(Current(R, k, g) /\ e.state = "removing")
  <2>1. DeleteDone(R, k, g) = R
    BY <1>3 DEF DeleteDone
  <2> QED
    BY <1>1, <1>3, <2>1, ToldNothing
<1>4. CASE Current(R, k, g) /\ e.state = "removing"
  <2>1. DeleteDone(R, k, g) = Notified(W)
    BY <1>4 DEF DeleteDone
  <2> HIDE DEF f
  <2>2. W \in Registries /\ W.seq = R.seq /\ W.entries[k] = f
    BY <1>1, <1>2, WithType DEF With, Registries
  <2> HIDE DEF W
  <2>3. Told(R, Notified(W), 1) /\ Notified(W).entries = W.entries
    BY <1>1, <2>2, NotifiedTold, NotifiedSeq DEF Notified
  <2> QED
    BY <1>4, <2>1, <2>2, <2>3 DEF f
<1> QED
  BY <1>3, <1>4

\* Clocks, settings and the applier's receive: what is served and under which
\* terms, who holds what and the counter stay.
LEMMA QuietReads ==
  ASSUME NEW R, Sound(R), NEW cfg \in Settings
  PROVE  /\ \A S \in {Tick(R), UpdateSettings(R, cfg), Received(R)} :
              /\ S.seq = R.seq
              /\ \A k \in Keys : /\ Facts(S.entries[k]) = Facts(R.entries[k])
                                 /\ S.entries[k].busy = R.entries[k].busy
         /\ Tick(R).changes = R.changes
         /\ UpdateSettings(R, cfg).changes = R.changes
         /\ ~Received(R).changes
<1>1. R \in Registries /\ \A k \in Keys : R.entries[k] \in Entry
  BY DEF Sound, Registries
<1>2. ASSUME NEW e \in Entry
      PROVE  /\ Facts(Older(e)) = Facts(e) /\ Older(e).busy = e.busy
             /\ Facts(Rearmed(e, cfg, R.ready)) = Facts(e)
             /\ Rearmed(e, cfg, R.ready).busy = e.busy
  <2>1. \A w, a : /\ Facts([e EXCEPT !.wait = w, !.age = a]) = Facts(e)
                  /\ [e EXCEPT !.wait = w, !.age = a].busy = e.busy
    BY DEF Facts, Terms, Entry
  <2>2. \A w : /\ Facts([e EXCEPT !.wait = w]) = Facts(e)
               /\ [e EXCEPT !.wait = w].busy = e.busy
    BY DEF Facts, Terms, Entry
  <2> QED
    BY <2>1, <2>2 DEF Older, Rearmed
<1>3. /\ Tick(R).entries = [k \in Keys |-> Older(R.entries[k])]
      /\ Tick(R).seq = R.seq /\ Tick(R).changes = R.changes
  BY <1>1 DEF Tick, Registries
<1>4. /\ UpdateSettings(R, cfg).entries
           = [k \in Keys |-> Rearmed(R.entries[k], cfg, R.ready)]
      /\ UpdateSettings(R, cfg).seq = R.seq
      /\ UpdateSettings(R, cfg).changes = R.changes
  <2> DEFINE es == [k \in Keys |-> Rearmed(R.entries[k], cfg, R.ready)]
  <2>1. UpdateSettings(R, cfg) = [R EXCEPT !.cfg = cfg, !.entries = es]
    BY <1>1 DEF UpdateSettings, Registries
  <2> HIDE DEF es
  <2>2. /\ [R EXCEPT !.cfg = cfg, !.entries = es].entries = es
        /\ [R EXCEPT !.cfg = cfg, !.entries = es].seq = R.seq
        /\ [R EXCEPT !.cfg = cfg, !.entries = es].changes = R.changes
    BY <1>1 DEF Registries
  <2> QED
    BY <2>1, <2>2 DEF es
<1>5. /\ Received(R).entries = R.entries /\ Received(R).seq = R.seq
      /\ Received(R).changes = FALSE
  BY <1>1 DEF Received, Registries
<1> QED
  BY <1>1, <1>2, <1>3, <1>4, <1>5

\* Sync announces every entry it revokes, and one notification per change.
LEMMA SyncTold ==
  ASSUME NEW R, Sound(R), NEW w \in [Keys -> Wants]
  PROVE  /\ Told(R, Sync(R, w), Cardinality(Keys))
         /\ Rings(R, Sync(R, w), Cardinality(Keys))
         /\ \A k \in Keys : Sync(R, w).entries[k] = SyncEntry(R.entries[k], w[k])
<1> DEFINE es      == [k \in Keys |-> SyncEntry(R.entries[k], w[k])]
           revoked == {k \in ServingKeys(R) : ~es[k].serving}
           noted   == {k \in Keys : SyncNotifies(R.entries[k], w[k])}
           n       == R.ready - Cardinality(revoked)
           S       == [R EXCEPT !.entries = es, !.ready = n]
<1>1. R \in Registries
      /\ \A k \in Keys : R.entries[k] \in Entry /\ EntryOK(R.entries[k])
  BY DEF Sound, Registries
<1>2. \A k \in Keys : Synced(R.entries[k], es[k])
  BY <1>1, SyncEntryOK
<1>3. Sync(R, w) = NotifiedTimes(S, Cardinality(noted))
  BY DEF Sync
<1>4. /\ IsFiniteSet(noted) /\ Cardinality(noted) \in Nat
      /\ Cardinality(noted) <= Cardinality(Keys) /\ Cardinality(Keys) \in Nat
  BY KeysFinite, FS_Subset, FS_CardinalityType
<1>5. \A k \in Keys : R.entries[k].serving /\ ~es[k].serving => k \in noted
  <2> SUFFICES ASSUME NEW k \in Keys, R.entries[k].serving, ~es[k].serving,
                      ~SyncNotifies(R.entries[k], w[k])
               PROVE  FALSE
    OBVIOUS
  <2> DEFINE e == R.entries[k]
  <2>1. es[k] = IF Resolves(e, w[k]) THEN [e EXCEPT !.scope = w[k]] ELSE e
    BY DEF SyncEntry, SyncNotifies
  <2> QED
    BY <1>1, <2>1 DEF Entry
<1> HIDE DEF revoked, noted, n
<1>6. es \in [Keys -> Entry] /\ n \in Int
  <2>1. es \in [Keys -> Entry]
    BY <1>2 DEF Synced
  <2>2. ServingKeys(R) \subseteq Keys
    BY DEF ServingKeys
  <2>3. IsFiniteSet(revoked)
    BY <2>2, KeysFinite, FS_Subset DEF revoked
  <2> QED
    BY <1>1, <2>1, <2>3, FS_CardinalityType DEF n, Registries
<1> HIDE DEF es
<1>7. /\ S \in Registries /\ S.entries = es /\ S.seq = R.seq
      /\ S.changes = R.changes
  BY <1>1, <1>6 DEF Registries
<1> HIDE DEF S
<1> DEFINE T == Sync(R, w)
<1>8. /\ T.entries = es
      /\ T.changes = (R.changes \/ Cardinality(noted) > 0)
      /\ R.seq + Cardinality(noted) < SeqMod => T.seq = R.seq + Cardinality(noted)
  BY <1>3, <1>4, <1>7, NotifiedSeq
<1>9. Served(T) # Served(R) => Cardinality(noted) > 0
  <2>1. ASSUME Served(T) # Served(R) PROVE noted # {}
    <3>1. PICK k \in Keys : R.entries[k].serving /\ ~es[k].serving
      BY <1>2, <1>8, <2>1 DEF Served, Synced
    <3> QED
      BY <1>5, <3>1
  <2> QED
    BY <1>4, <2>1, FS_EmptySet
<1>10. R.seq \in Nat
  BY <1>1 DEF Registries
<1>11. Told(R, T, Cardinality(Keys))
  <2> SUFFICES ASSUME R.seq + Cardinality(Keys) < SeqMod
               PROVE  /\ R.seq <= T.seq /\ T.seq <= R.seq + Cardinality(Keys)
                      /\ R.changes => T.changes
                      /\ T.seq # R.seq => T.changes
                      /\ Served(T) # Served(R) => T.seq # R.seq
    BY DEF Told
  <2>1. T.seq = R.seq + Cardinality(noted)
    BY <1>4, <1>8, <1>10, BoundsAreNat
  <2>2. T.seq # R.seq => Cardinality(noted) > 0
    BY <1>4, <1>10, <2>1
  <2>3. /\ R.seq <= T.seq /\ T.seq <= R.seq + Cardinality(Keys)
        /\ Cardinality(noted) > 0 => T.seq # R.seq
    BY <1>4, <1>10, <2>1
  <2> QED
    BY <1>8, <1>9, <2>2, <2>3, Zenon
<1>12. Rings(R, T, Cardinality(Keys))
  BY <1>1, <1>3, <1>4, <1>7, <1>9, NotifiedRings
<1> QED
  BY <1>8, <1>11, <1>12 DEF es

-----------------------------------------------------------------------------
(***************************************************************************)
(* What any call of an ensure task amounts to: it keeps the registry sound *)
(* and k's identity, side and scope; it announces what it takes or grants; *)
(* and what it leaves admitted was verified.                               *)
(***************************************************************************)
Lands(R, S, k, n) ==
  /\ Kept(R, S, k)
  /\ Told(R, S, n)
  /\ S.entries[k].scope = R.entries[k].scope
  /\ S.entries[k].serving =>
       \/ S.entries[k].url \in Endpoints
       \/ R.entries[k].serving /\ S.entries[k].url = R.entries[k].url

\* Two calls one after the other.
LEMMA LandsTrans ==
  ASSUME NEW R, Sound(R), NEW S, NEW T, NEW k \in Keys,
         NEW n \in Nat, NEW m \in Nat, Lands(R, S, k, n), Lands(S, T, k, m)
  PROVE  Lands(R, T, k, n + m)
<1>1. R \in Registries /\ S \in Registries /\ T \in Registries
  BY DEF Lands, Kept, Sound
<1>2. Told(R, T, n + m)
  BY <1>1, ToldTrans DEF Lands
<1>3. Kept(R, T, k)
  BY FrameTrans DEF Lands, Kept
<1> QED
  BY <1>2, <1>3 DEF Lands

\* A discarded call.
LEMMA LandsItself ==
  ASSUME NEW R, Sound(R), NEW k \in Keys
  PROVE  Lands(R, R, k, 0)
<1>1. Told(R, R, 0)
  BY ToldNothing DEF Sound
<1> QED
  BY <1>1, KeptItself DEF Lands

\* A call that may take the admission.
LEMMA SoftensLands ==
  ASSUME NEW R, NEW S, NEW k \in Keys, Softens(R, S, k)
  PROVE  Lands(R, S, k, 1)
<1>1. /\ S.entries[k].scope = R.entries[k].scope
      /\ S.entries[k].url = R.entries[k].url
  BY DEF Softens, Terms
<1> QED
  BY <1>1 DEF Softens, Lands

\* A call that grants it.
LEMMA ReadyLands ==
  ASSUME NEW R, Sound(R), NEW k \in Keys, NEW g, NEW url \in Endpoints,
         Current(R, k, g) => R.entries[k].state # "removing"
  PROVE  Lands(R, Ready(R, k, g, url), k, 1)
<1>1. CASE Current(R, k, g)
  BY <1>1, ReadyTold DEF Lands
<1>2. CASE ~Current(R, k, g)
  <2>1. Ready(R, k, g, url) = R
    BY <1>2, ReadyTold
  <2>2. Lands(R, R, k, 0)
    BY LandsItself
  <2> QED
    BY <2>1, <2>2, ReadyTold DEF Lands
<1> QED
  BY <1>1, <1>2

\* A mark.
LEMMA MarksLand ==
  ASSUME NEW R, Sound(R), NEW k \in Keys, NEW g,
         NEW S \in {DeferDrain(R, k, g), DrainCompleted(R, k, g),
                    ScopeMarkTaken(R, k, g)}
  PROVE  Lands(R, S, k, 0)
<1>1. /\ Kept(R, S, k)
      /\ S.seq = R.seq /\ S.changes = R.changes /\ Served(S) = Served(R)
      /\ S.entries[k].serving = R.entries[k].serving
      /\ S.entries[k].scope = R.entries[k].scope
      /\ S.entries[k].url = R.entries[k].url
  BY MarksTold
<1>2. R.seq \in Nat
  BY DEF Sound, Registries
<1>3. Told(R, S, 0)
  BY <1>1, <1>2 DEF Told
<1> QED
  BY <1>1, <1>3 DEF Lands

-----------------------------------------------------------------------------
(***************************************************************************)
(* The gates.  Whatever step moves a gate further away has armed it: with  *)
(* the backoff under the settings and the serving count the step leaves, or*)
(* on a paused relay with the revival cadence.                             *)
(***************************************************************************)
Rearms(R, S, k) ==
  LET e == R.entries[k]
      f == S.entries[k]
  IN  \/ f.wait <= e.wait
      \/ f.state # "paused" /\ f.wait <= Delay(S.cfg, f.streak, S.ready)
      \/ f.state = "paused" /\ f.wait = Remaining(S.cfg.pause, f.age)

\* A gate that stays where it is, or opens.
LEMMA OpenedRearms ==
  ASSUME NEW R \in Registries, NEW S, NEW k \in Keys,
         S.entries[k].wait \in {R.entries[k].wait, 0}
  PROVE  Rearms(R, S, k)
<1>1. R.entries[k].wait \in Nat
  BY DEF Registries, Entry
<1> QED
  BY <1>1 DEF Rearms

\* The backoff, of a relay that is not paused, with the notification after it.
LEMMA BackedOffRearms ==
  ASSUME NEW Z, NEW R \in Registries, NEW k \in Keys, R.entries[k].state # "paused"
  PROVE  /\ Rearms(Z, BackedOff(R, k), k)
         /\ Rearms(Z, Notified(BackedOff(R, k)), k)
<1> DEFINE e == R.entries[k]
           d == Delay(R.cfg, e.streak, R.ready)
           f == [e EXCEPT !.wait = d]
           B == BackedOff(R, k)
<1>1. e \in Entry /\ R.cfg \in Settings /\ R.ready \in Int
  BY DEF Registries
<1>2. d \in Nat
  BY <1>1, DelayType DEF Entry
<1> HIDE DEF d
<1>3. f \in Entry /\ f.wait = d /\ f.streak = e.streak /\ f.state = e.state
  BY <1>1, <1>2 DEF Entry
<1> HIDE DEF f
<1>4. B = With(R, k, f)
  BY DEF BackedOff, f, d
<1> HIDE DEF B
<1>5. /\ B.entries[k] = f /\ B.cfg = R.cfg /\ B.ready = R.ready /\ B \in Registries
  BY <1>3, <1>4, WithType DEF With, Registries
<1>6. /\ Notified(B).entries = B.entries /\ Notified(B).cfg = B.cfg
      /\ Notified(B).ready = B.ready
  BY <1>5 DEF Notified, NotifiedTimes, Registries
<1>7. d <= d
  BY <1>2
<1> QED
  BY <1>3, <1>5, <1>6, <1>7 DEF Rearms, B, d

\* The bookkeeping of an attempt starts the clock of the gate.
LEMMA AttemptedAge ==
  ASSUME NEW R \in Registries, NEW k \in Keys, NEW streak, NEW reason
  PROVE  LET A == Attempted(R, k, streak, reason) IN
         /\ A.entries[k].age = 0 /\ A.entries[k].state = R.entries[k].state
         /\ A.entries[k].serving = R.entries[k].serving
<1> DEFINE e == R.entries[k]
           f == [e EXCEPT !.attempted = TRUE, !.age = 0, !.streak = streak,
                          !.reason = reason]
<1>1. e \in Entry
  BY DEF Registries
<1>2. f.age = 0 /\ f.state = e.state /\ f.serving = e.serving
  BY <1>1 DEF Entry
<1> HIDE DEF f
<1>3. With(R, k, f).entries[k] = f
  BY DEF With, Registries
<1> QED
  BY <1>2, <1>3 DEF Attempted, f

\* The revival cadence.
LEMMA ParkedRearms ==
  ASSUME NEW Z, NEW R \in Registries, NEW k \in Keys, R.entries[k].age = 0
  PROVE  LET P == Parked(R, k) IN
         /\ P \in Registries /\ P.entries[k].age = 0
         /\ P.entries[k].wait = Remaining(P.cfg.pause, 0)
         /\ P.entries[k].state = R.entries[k].state
         /\ R.entries[k].state = "paused" => Rearms(Z, P, k)
<1> DEFINE e == R.entries[k]
           f == [e EXCEPT !.wait = R.cfg.pause]
           P == Parked(R, k)
<1>1. e \in Entry /\ R.cfg.pause \in Nat /\ R.cfg.pause > 0
  BY DEF Registries, Settings
<1>2. f \in Entry /\ f.wait = R.cfg.pause /\ f.age = 0 /\ f.state = e.state
  BY <1>1 DEF Entry
<1> HIDE DEF f
<1>3. P = With(R, k, f)
  BY DEF Parked, f
<1> HIDE DEF P
<1>4. P.entries[k] = f /\ P.cfg = R.cfg /\ P \in Registries
  BY <1>2, <1>3, WithType DEF With, Registries
<1>5. Remaining(R.cfg.pause, 0) = R.cfg.pause
  BY <1>1 DEF Remaining
<1> QED
  BY <1>2, <1>4, <1>5 DEF Rearms, P

\* A failure out of the pool; a demotion.
LEMMA FailuresRearm ==
  ASSUME NEW Z, NEW A, Sound(A), NEW k \in Keys
  PROVE  /\ Rearms(Z, Demoted(A, k), k)
         /\ ~A.entries[k].serving => Rearms(Z, OutOfPool(A, k), k)
<1>1. Rearms(Z, Demoted(A, k), k)
  <2> DEFINE V == Revoked(A, k)
             L == Labelled(V, k, "unready")
  <2>1. Sound(V) /\ ~V.entries[k].serving
    <3>1. A.entries[k] \in Entry
      BY DEF Sound, Registries
    <3>2. ~[A.entries[k] EXCEPT !.serving = FALSE].serving
      BY <3>1 DEF Entry
    <3> QED
      BY <3>2, RevokedSound DEF Sound
  <2> HIDE DEF V
  <2>2. Sound(L) /\ L.entries[k].state = "unready"
    BY <2>1, LabelledSound DEF States
  <2>3. Demoted(A, k) = Notified(BackedOff(L, k))
    BY DEF Demoted, L, V
  <2> HIDE DEF L
  <2> QED
    BY <2>2, <2>3, BackedOffRearms DEF Sound
<1>2. ASSUME ~A.entries[k].serving PROVE Rearms(Z, OutOfPool(A, k), k)
  <2> DEFINE L == Labelled(A, k, "failed")
             N == Notified(L)
             B == IF A.entries[k].state \in {"unready", "failed"} THEN A ELSE N
  <2>1. Sound(L) /\ L.entries[k].state = "failed"
    BY <1>2, LabelledSound DEF States
  <2>2. OutOfPool(A, k) = BackedOff(B, k)
    BY DEF OutOfPool
  <2> HIDE DEF L
  <2>3. Sound(N) /\ N.entries = L.entries
    BY <2>1, NotifiedSound DEF Notified
  <2> HIDE DEF N
  <2>4. B \in Registries /\ B.entries[k].state # "paused"
    BY <2>1, <2>3 DEF Sound
  <2> HIDE DEF B
  <2> QED
    BY <2>2, <2>4, BackedOffRearms
<1> QED
  BY <1>1, <1>2

\* Failing: a paused relay keeps the cadence, any other backs off.
LEMMA FailingRearms ==
  ASSUME NEW R, Sound(R), NEW k \in Keys, NEW g, NEW reason \in Reasons
  PROVE  Rearms(R, Failing(R, k, g, reason), k)
<1> DEFINE e == R.entries[k]
           A == Attempted(R, k, Bump(e.streak), reason)
           S == Failing(R, k, g, reason)
<1>1. Bump(e.streak) \in 0 .. StreakCap
  <2>1. e.streak \in 0 .. StreakCap
    BY DEF Sound, Registries, Entry
  <2> QED
    BY <2>1, BoundsAreNat DEF Bump, Least
<1>2. R \in Registries /\ EntryOK(e)
  BY DEF Sound
<1>3. Sound(A) /\ A.entries[k].age = 0 /\ A.entries[k].state = e.state
      /\ A.entries[k].serving = e.serving /\ A \in Registries
  BY <1>1, <1>2, AttemptedSound, AttemptedAge DEF Sound
<1>4. \/ S = R
      \/ e.state = "paused" /\ S = Parked(A, k)
      \/ e.serving /\ S = BackedOff(A, k)
      \/ ~e.serving /\ S = OutOfPool(A, k)
      \/ S = Demoted(A, k)
  BY DEF Failing
<1> HIDE DEF A, S
<1>5. Rearms(R, R, k)
  BY <1>2, OpenedRearms
<1>6. e.state = "paused" => Rearms(R, Parked(A, k), k)
  BY <1>3, ParkedRearms
<1>7. e.serving => Rearms(R, BackedOff(A, k), k)
  BY <1>2, <1>3, BackedOffRearms DEF EntryOK, Out
<1>8. Rearms(R, Demoted(A, k), k) /\ (~e.serving => Rearms(R, OutOfPool(A, k), k))
  BY <1>3, FailuresRearm
<1> QED
  BY <1>4, <1>5, <1>6, <1>7, <1>8 DEF S

\* Demote.
LEMMA DemoteRearms ==
  ASSUME NEW R, Sound(R), NEW k \in Keys, NEW g, NEW reason \in Reasons
  PROVE  Rearms(R, Demote(R, k, g, reason), k)
<1> DEFINE e == R.entries[k]
           n == Least(R.cfg.demoteAfter, StreakCap)
           A == Attempted(R, k, n, reason)
           S == Demote(R, k, g, reason)
<1>1. n \in 0 .. StreakCap
  <2>1. R.cfg.demoteAfter \in Nat
    BY DEF Sound, Registries, Settings
  <2> QED
    BY <2>1, BoundsAreNat DEF Least
<1>2. Sound(A) /\ A.entries[k].serving = e.serving
  BY <1>1, AttemptedSound
<1>3. \/ S = R
      \/ ~e.serving /\ S = OutOfPool(A, k)
      \/ S = Demoted(A, k)
  BY DEF Demote
<1> HIDE DEF A, S
<1>4. Rearms(R, R, k)
  BY OpenedRearms DEF Sound
<1> QED
  BY <1>2, <1>3, <1>4, FailuresRearm DEF S

\* Pause parks, labels and revokes; the gate it leaves is the cadence.
LEMMA PauseRearms ==
  ASSUME NEW R, Sound(R), NEW k \in Keys, NEW g, NEW reason \in Reasons
  PROVE  Rearms(R, Pause(R, k, g, reason), k)
<1> DEFINE A == Attempted(R, k, R.entries[k].streak, reason)
           P == Parked(A, k)
           p == P.entries[k]
           l == [p EXCEPT !.state = "paused"]
           v == [l EXCEPT !.serving = FALSE]
           L == Labelled(P, k, "paused")
           V == Revoked(L, k)
<1>1. R \in Registries /\ R.entries[k].streak \in 0 .. StreakCap
  BY DEF Sound, Registries, Entry
<1>2. Pause(R, k, g, reason) = R \/ Pause(R, k, g, reason) = Notified(V)
  BY DEF Pause
<1>3. A \in Registries /\ A.entries[k].age = 0
  BY <1>1, AttemptedSound, AttemptedAge DEF Sound
<1> HIDE DEF A
<1>4. /\ P \in Registries /\ p.age = 0 /\ p.wait = Remaining(P.cfg.pause, 0)
  BY <1>3, ParkedRearms
<1> HIDE DEF P
<1>5. p \in Entry
  BY <1>4 DEF Registries
<1>6. /\ l.state = "paused" /\ l.wait = p.wait /\ l.age = 0 /\ l \in Entry
      /\ v.state = "paused" /\ v.wait = p.wait /\ v.age = 0
  BY <1>4, <1>5 DEF Entry, States
<1> HIDE DEF l
<1>7. /\ L \in Registries /\ L.entries[k] = l /\ L.cfg = P.cfg
  <2>1. L = With(P, k, l)
    BY DEF Labelled, l
  <2> QED
    BY <1>4, <1>6, <2>1, WithType DEF With, Registries
<1> HIDE DEF L
<1> HIDE DEF v
<1>8. V.entries[k] \in {l, v} /\ V.cfg = P.cfg /\ V \in Registries
  <2>1. V = IF l.serving THEN [With(L, k, v) EXCEPT !.ready = @ - 1] ELSE L
    BY <1>7 DEF Revoked, v
  <2>2. With(L, k, v).entries[k] = v /\ With(L, k, v).cfg = L.cfg
    BY <1>7 DEF With, Registries
  <2>3. [With(L, k, v) EXCEPT !.ready = @ - 1].entries[k] = v
        /\ [With(L, k, v) EXCEPT !.ready = @ - 1].cfg = L.cfg
    BY <1>7, <2>2 DEF With, Registries
  <2>4. V \in Registries
    BY <1>1, <1>7, InternalsType DEF Reasons, States
  <2> QED
    BY <1>7, <2>1, <2>3, <2>4
<1> HIDE DEF V
<1>9. Notified(V).entries = V.entries /\ Notified(V).cfg = V.cfg
  BY <1>8 DEF Notified, NotifiedTimes, Registries
<1>10. Rearms(R, Notified(V), k)
  BY <1>4, <1>6, <1>8, <1>9 DEF Rearms
<1>11. Rearms(R, R, k)
  BY <1>1, OpenedRearms
<1> QED
  BY <1>2, <1>10, <1>11 DEF V, L, P, A

\* A failed delete backs off, and a removing relay is not a paused one.
LEMMA DeleteFailedRearms ==
  ASSUME NEW R, Sound(R), NEW k \in Keys, NEW g, NEW reason \in Reasons
  PROVE  Rearms(R, DeleteFailed(R, k, g, reason), k)
<1> DEFINE e == R.entries[k]
           f == [e EXCEPT !.streak = Bump(@), !.reason = reason]
           W == With(R, k, f)
<1>1. e \in Entry /\ R \in Registries /\ Bump(e.streak) \in 0 .. StreakCap
  <2>1. e \in Entry /\ R \in Registries
    BY DEF Sound, Registries
  <2>2. e.streak \in 0 .. StreakCap
    BY <2>1 DEF Entry
  <2> QED
    BY <2>1, <2>2, BoundsAreNat DEF Bump, Least
<1>2. f \in Entry /\ f.state = e.state
  BY <1>1 DEF Entry
<1>3. \/ DeleteFailed(R, k, g, reason) = R
      \/ e.state = "removing" /\ DeleteFailed(R, k, g, reason) = BackedOff(W, k)
  BY DEF DeleteFailed
<1> HIDE DEF f
<1>4. W \in Registries /\ W.entries[k] = f
  BY <1>1, <1>2, WithType DEF With, Registries
<1> HIDE DEF W
<1>5. e.state = "removing" => Rearms(R, BackedOff(W, k), k)
  BY <1>2, <1>4, BackedOffRearms
<1>6. Rearms(R, R, k)
  BY <1>1, OpenedRearms
<1> QED
  BY <1>3, <1>5, <1>6 DEF W

\* The calls that open a gate or leave it.
LEMMA GateKept ==
  ASSUME NEW R \in Registries, NEW k \in Keys, NEW f \in Entry, NEW c,
         f.wait \in {R.entries[k].wait, 0}
  PROVE  /\ Rearms(R, With(R, k, f), k)
         /\ Rearms(R, NotifiedIf(With(R, k, f), c), k)
         /\ \A n : Rearms(R, Notified([With(R, k, f) EXCEPT !.ready = n]), k)
<1> DEFINE W == With(R, k, f)
<1>1. W \in Registries /\ W.entries[k] = f
  BY WithType DEF With, Registries
<1> HIDE DEF W
<1>2. NotifiedIf(W, c).entries = W.entries
  BY <1>1 DEF NotifiedIf, Notified, NotifiedTimes, Registries
<1>3. \A n : Notified([W EXCEPT !.ready = n]).entries = W.entries
  BY <1>1 DEF Notified, NotifiedTimes, Registries
<1> QED
  BY <1>1, <1>2, <1>3, OpenedRearms DEF W

LEMMA EnterRearms ==
  ASSUME NEW R, Sound(R), NEW k \in Keys, NEW g,
         NEW state \in States, NEW reason \in Reasons
  PROVE  Rearms(R, Enter(R, k, g, state, reason), k)
<1> DEFINE e     == R.entries[k]
           moved == [e EXCEPT !.state = state, !.reason = reason]
           openE == [moved EXCEPT !.streak = 0, !.wait = 0]
<1>1. e \in Entry /\ R \in Registries /\ 0 \in 0 .. StreakCap
  BY BoundsAreNat DEF Sound, Registries
<1>2. moved \in Entry /\ moved.wait = e.wait
  BY <1>1 DEF Entry
<1>3. openE \in Entry /\ openE.wait = 0
  <2> HIDE DEF moved
  <2> QED
    BY <1>1, <1>2 DEF Entry
<1>4. \E f \in {e, moved, openE}, c \in BOOLEAN :
        \/ Enter(R, k, g, state, reason) = R
        \/ Enter(R, k, g, state, reason) = NotifiedIf(With(R, k, f), c)
  BY DEF Enter
<1> HIDE DEF moved, openE
<1>5. \A f \in {e, moved, openE} : f \in Entry /\ f.wait \in {e.wait, 0}
  BY <1>1, <1>2, <1>3
<1>6. Rearms(R, R, k)
  BY <1>1, OpenedRearms
<1> QED
  BY <1>1, <1>4, <1>5, <1>6, GateKept

LEMMA ReadyRearms ==
  ASSUME NEW R, Sound(R), NEW k \in Keys, NEW g, NEW url \in Endpoints
  PROVE  Rearms(R, Ready(R, k, g, url), k)
<1> DEFINE e == R.entries[k]
           f == [e EXCEPT !.url = url, !.state = "ready", !.reason = "",
                          !.attempted = TRUE, !.age = 0, !.streak = 0,
                          !.drainPending = FALSE, !.scopeChanged = FALSE,
                          !.wait = 0, !.serving = TRUE]
<1>1. e \in Entry /\ R \in Registries /\ 0 \in 0 .. StreakCap
  BY BoundsAreNat DEF Sound, Registries
<1>2. f \in Entry /\ f.wait = 0
  BY <1>1 DEF Entry, States, Reasons
<1>3. \/ Ready(R, k, g, url) = R
      \/ Ready(R, k, g, url) = With(R, k, f)
      \/ \E n : Ready(R, k, g, url) = Notified([With(R, k, f) EXCEPT !.ready = n])
  BY DEF Ready
<1> HIDE DEF f
<1>4. Rearms(R, R, k)
  BY <1>1, OpenedRearms
<1> QED
  BY <1>1, <1>2, <1>3, <1>4, GateKept

\* Marks and holds leave the gate alone.
LEMMA MarksRearm ==
  ASSUME NEW R, Sound(R), NEW k \in Keys, NEW g, NEW o
  PROVE  /\ \A S \in {DeferDrain(R, k, g), DrainCompleted(R, k, g),
                      ScopeMarkTaken(R, k, g), Release(R, k, o)} : Rearms(R, S, k)
         /\ Exists(R, k) => Rearms(R, Begin(R, k), k)
<1> DEFINE e == R.entries[k]
           F == {[e EXCEPT !.drainPending = TRUE], [e EXCEPT !.drainPending = FALSE],
                 [e EXCEPT !.scopeChanged = FALSE], [e EXCEPT !.busy = FALSE],
                 [e EXCEPT !.busy = TRUE]}
<1>1. e \in Entry /\ R \in Registries
  BY DEF Sound, Registries
<1>2. \A f \in F : f \in Entry /\ f.wait = e.wait
  BY <1>1 DEF Entry
<1>3. \A S \in {DeferDrain(R, k, g), DrainCompleted(R, k, g),
                ScopeMarkTaken(R, k, g), Release(R, k, o)} :
        S = R \/ \E f \in F : S = With(R, k, f)
  BY DEF DeferDrain, DrainCompleted, ScopeMarkTaken, Release
<1>4. Exists(R, k) => \E f \in F : Begin(R, k) = With(R, k, f)
  BY DEF Begin
<1> HIDE DEF F
<1>5. Rearms(R, R, k)
  BY <1>1, OpenedRearms
<1>6. \A f \in F : Rearms(R, With(R, k, f), k)
  BY <1>1, <1>2, GateKept
<1> QED
  BY <1>3, <1>4, <1>5, <1>6
=============================================================================
