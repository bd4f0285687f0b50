---------------------------- MODULE DesiredState ----------------------------
(***************************************************************************)
(* How a change of the desired-state file reaches the fleet and the data   *)
(* plane: the polled store (src/cmd/http-relay-gateway/main.go             *)
(* desiredStore, over src/internal/config/config.go Load), the two         *)
(* one-slot channels its watcher posts to, the reconciler's loop           *)
(* (src/internal/reconcile/reconcile.go loop, pass) and the apply loop.    *)
(*                                                                         *)
(* A poll reads the file twice: poll hashes one read, config.Load parses   *)
(* another.  A content stands for its hash and for its parse; whether it   *)
(* parses is all the loader's validation decides here.                     *)
(***************************************************************************)
EXTENDS Naturals

CONSTANTS
  Valid,     \* contents config.Load accepts
  Invalid,   \* contents it rejects: a typo, a half-written file
  Missing,   \* the file cannot be read
  None,      \* no configuration
  MaxWrites, \* bound: changes of the file
  MaxNoKey   \* bound: passes that cannot resolve the relay key

Contents == Valid \cup Invalid
Configs  == Valid \cup {None}

ASSUME ContentsAreDistinct ==
  /\ Valid \cap Invalid = {}
  /\ Missing \notin Contents /\ None \notin Contents /\ Missing # None
ASSUME BoundsAreNat == MaxWrites \in Nat /\ MaxNoKey \in Nat

VARIABLES
  file,    \* the desired-state file
  up,      \* run() is past the boot poll: worker, watcher and apply loop exist
  poll,    \* the local variables of a poll
  key,     \* desiredStore.appliedKey
  store,   \* desiredStore.p
  split,   \* history: the poll that stored it read two contents
  wake,    \* the reconciler's wake token
  reload,  \* the apply loop's reload token
  changes, \* the registry's notification token
  worker,  \* the reconciler's loop
  synced,  \* the configuration the registry was last synced to
  apply,   \* the local variables of apply
  shown,   \* the configuration the serving generation was built with
  gates,   \* the configuration whose settings the retry gates use
  writes, noKey \* disturbances so far

watched == <<poll, key, store, split>>
tokens  == <<wake, reload, changes>>
looped  == <<worker, synced>>
applied == <<apply, shown, gates>>
vars == <<file, up, watched, tokens, looped, applied, writes, noKey>>

(***************************************************************************)
(* poll.pc   begin   a poll is due        worker.pc  wait  in the select   *)
(*           hashed  first read done                 due   a pass starts   *)
(*           stored  returned true                   read  has its config  *)
(*           woken   Wake posted                     sweep past Sync       *)
(*           idle    between ticks                                         *)
(***************************************************************************)
NoPoll == [pc |-> "idle", sum |-> None]
NoApply == [pc |-> "idle", cfg |-> None, source |-> "readiness"]

Init ==
  /\ file \in Contents \cup {Missing}
  /\ up = FALSE
  /\ poll = [NoPoll EXCEPT !.pc = "begin"]
  /\ key = None /\ store = None /\ split = FALSE
  /\ wake = FALSE /\ reload = FALSE /\ changes = FALSE
  /\ worker = [pc |-> "due", cfg |-> None]
  /\ synced = None
  /\ apply = NoApply
  /\ shown = None /\ gates = None
  /\ writes = 0 /\ noKey = 0

-----------------------------------------------------------------------------
\* The operator, or whatever renders the file.
Write ==
  /\ writes < MaxWrites
  /\ file' \in (Contents \cup {Missing}) \ {file}
  /\ writes' = writes + 1
  /\ UNCHANGED <<up, watched, tokens, looped, applied, noKey>>

-----------------------------------------------------------------------------
(* The watcher. *)

Tick ==
  /\ up /\ poll.pc = "idle"
  /\ poll' = [poll EXCEPT !.pc = "begin"]
  /\ UNCHANGED <<file, up, key, store, split, tokens, looped, applied, writes, noKey>>

\* The first read: unreadable ends the poll, a content is hashed.
Hash ==
  /\ poll.pc = "begin"
  /\ poll' = IF file = Missing THEN NoPoll ELSE [pc |-> "hashed", sum |-> file]
  /\ UNCHANGED <<file, up, key, store, split, tokens, looped, applied, writes, noKey>>

\* Mutant: the key of a rejected file is recorded too.
LoadFile_KeysTheRejected ==
  /\ poll.pc = "hashed"
  /\ key' = poll.sum
  /\ IF file \in Valid /\ poll.sum # key
     THEN /\ store' = file /\ split' = (poll.sum # file)
          /\ poll' = [NoPoll EXCEPT !.pc = "stored"]
     ELSE poll' = NoPoll /\ UNCHANGED <<store, split>>
  /\ UNCHANGED <<file, up, tokens, looped, applied, writes, noKey>>

\* Mutant: what was read is stored before it is known to be valid.
LoadFile_StoresTheRejected ==
  /\ poll.pc = "hashed"
  /\ IF file # Missing /\ poll.sum # key
     THEN /\ key' = poll.sum /\ store' = file /\ split' = (poll.sum # file)
          /\ poll' = [NoPoll EXCEPT !.pc = "stored"]
     ELSE poll' = NoPoll /\ UNCHANGED <<key, store, split>>
  /\ UNCHANGED <<file, up, tokens, looped, applied, writes, noKey>>

\* config.Load's own read.  A change is a valid content whose hash is not the
\* one recorded with what is stored; nothing else moves either.
LoadFile ==
  /\ poll.pc = "hashed"
  /\ IF file \in Valid /\ poll.sum # key
     THEN /\ key' = poll.sum /\ store' = file /\ split' = (poll.sum # file)
          /\ poll' = [NoPoll EXCEPT !.pc = "stored"]
     ELSE poll' = NoPoll /\ UNCHANGED <<key, store, split>>
  /\ UNCHANGED <<file, up, tokens, looped, applied, writes, noKey>>

\* The boot poll is over: registry and first generation take its settings, and
\* the goroutines start.  Nobody is there to be woken.
Boot ==
  /\ ~up /\ poll.pc \in {"idle", "stored"}
  /\ up' = TRUE
  /\ poll' = NoPoll
  /\ gates' = store /\ shown' = store
  /\ UNCHANGED <<file, key, store, split, tokens, looped, apply, writes, noKey>>

\* onChange: Wake, then the reload token; both are kept if already there.
PostWake ==
  /\ up /\ poll.pc = "stored"
  /\ wake' = TRUE
  /\ poll' = [poll EXCEPT !.pc = "woken"]
  /\ UNCHANGED <<file, up, key, store, split, reload, changes, looped, applied,
                 writes, noKey>>

PostReload ==
  /\ poll.pc = "woken"
  /\ reload' = TRUE
  /\ poll' = NoPoll
  /\ UNCHANGED <<file, up, key, store, split, wake, changes, looped, applied,
                 writes, noKey>>

-----------------------------------------------------------------------------
(* The reconciler's loop. *)

\* The select: a wake token, or the verify timer.
StartPass ==
  /\ up /\ worker.pc = "wait"
  /\ wake' \in {FALSE, wake}
  /\ worker' = [worker EXCEPT !.pc = "due"]
  /\ UNCHANGED <<file, up, watched, reload, changes, synced, applied, writes, noKey>>

\* The pass reads the store once, for all its steps.
ReadDesired ==
  /\ up /\ worker.pc = "due"
  /\ worker' = [pc |-> IF store = None THEN "wait" ELSE "read", cfg |-> store]
  /\ UNCHANGED <<file, up, watched, tokens, synced, applied, writes, noKey>>

\* Without the relay key the pass ends and the registry is left alone.
RelayKeyFails ==
  /\ worker.pc = "read"
  /\ noKey < MaxNoKey
  /\ noKey' = noKey + 1
  /\ worker' = [worker EXCEPT !.pc = "wait"]
  /\ UNCHANGED <<file, up, watched, tokens, synced, applied, writes>>

SyncRegistry ==
  /\ worker.pc = "read"
  /\ synced' = worker.cfg
  /\ changes' \in {changes, TRUE}
  /\ worker' = [worker EXCEPT !.pc = "sweep"]
  /\ UNCHANGED <<file, up, watched, wake, reload, applied, writes, noKey>>

\* Mutant: a wake posted during the pass is taken for handled.
EndPass_DrainsWake ==
  /\ worker.pc = "sweep"
  /\ changes' \in {changes, TRUE}
  /\ worker' = [worker EXCEPT !.pc = "wait"]
  /\ wake' = FALSE
  /\ UNCHANGED <<file, up, watched, reload, synced, applied, writes, noKey>>

\* The sweep is over; its verifications may have changed admissions.
EndPass ==
  /\ worker.pc = "sweep"
  /\ changes' \in {changes, TRUE}
  /\ worker' = [worker EXCEPT !.pc = "wait"]
  /\ UNCHANGED <<file, up, watched, wake, reload, synced, applied, writes, noKey>>

-----------------------------------------------------------------------------
(* The apply loop. *)

TakeChanges ==
  /\ up /\ apply.pc = "idle" /\ changes
  /\ changes' = FALSE
  /\ apply' = [NoApply EXCEPT !.pc = "taken"]
  /\ UNCHANGED <<file, up, watched, wake, reload, looped, shown, gates, writes, noKey>>

TakeReload ==
  /\ up /\ apply.pc = "idle" /\ reload
  /\ reload' = FALSE
  /\ apply' = [NoApply EXCEPT !.pc = "taken", !.source = "config"]
  /\ UNCHANGED <<file, up, watched, wake, changes, looped, shown, gates, writes, noKey>>

\* Mutant: every rebuild answers for the reload token too.
ReadStore_TakesReload ==
  /\ apply.pc = "taken"
  /\ apply' = [apply EXCEPT !.pc = "read", !.cfg = store]
  /\ reload' = FALSE
  /\ UNCHANGED <<file, up, watched, wake, changes, looped, shown, gates, writes, noKey>>

ReadStore ==
  /\ apply.pc = "taken"
  /\ apply' = [apply EXCEPT !.pc = "read", !.cfg = store]
  /\ UNCHANGED <<file, up, watched, tokens, looped, shown, gates, writes, noKey>>

\* A reload also re-arms the retry gates; then the generation is swapped.
Rebuild ==
  /\ apply.pc = "read"
  /\ gates' = IF apply.source = "config" THEN apply.cfg ELSE gates
  /\ shown' = apply.cfg
  /\ apply' = NoApply
  /\ UNCHANGED <<file, up, watched, tokens, looped, writes, noKey>>

-----------------------------------------------------------------------------
Poll == Tick \/ Hash \/ LoadFile \/ PostWake \/ PostReload
Loop == StartPass \/ ReadDesired \/ SyncRegistry \/ EndPass
Apply == TakeChanges \/ TakeReload \/ ReadStore \/ Rebuild

Next == Write \/ Boot \/ Poll \/ Loop \/ RelayKeyFails \/ Apply

\* Tickers fire, goroutines that can run are scheduled; a select with both
\* tokens ready picks one at random, so it does not pass over one for ever.
Spec == Init /\ [][Next]_vars
             /\ WF_vars(Boot) /\ WF_vars(Poll) /\ WF_vars(Loop) /\ WF_vars(Apply)
             /\ SF_vars(TakeReload)

-----------------------------------------------------------------------------
(* Properties. *)

\* Every variable stays in its declared range; what is not a valid content is
\* never stored.
TypeOK ==
  /\ file \in Contents \cup {Missing}
  /\ poll \in [pc: {"begin", "hashed", "stored", "woken", "idle"},
               sum: Contents \cup {None}]
  /\ key \in Contents \cup {None}
  /\ store \in Configs /\ synced \in Configs /\ shown \in Configs /\ gates \in Configs
  /\ worker \in [pc: {"wait", "due", "read", "sweep"}, cfg: Configs]
  /\ apply \in [pc: {"idle", "taken", "read"}, cfg: Configs, source: {"readiness", "config"}]
  /\ up \in BOOLEAN /\ split \in BOOLEAN
  /\ wake \in BOOLEAN /\ reload \in BOOLEAN /\ changes \in BOOLEAN
  /\ writes \in 0..MaxWrites /\ noKey \in 0..MaxNoKey

\* A stored change is never slept on: the loop that has not read it yet has a
\* token waiting, or the watcher is about to post one (main.go watch,
\* reconcile.go Wake: one slot each, posted after the store).
ChangeNotLost ==
  /\ up /\ worker.pc = "wait" /\ worker.cfg # store
       => wake \/ poll.pc = "stored"
  /\ up /\ apply.pc = "idle" /\ gates # store
       => reload \/ poll.pc \in {"stored", "woken"}

\* What is announced is a change: content equal to what is stored is never
\* stored and announced again, however many rejected or unreadable files were
\* seen in between ("good A, invalid B, good A stays one logical load of A",
\* desiredStore).  Excepted is a write between the two reads of a poll, of this
\* one or of the one that stored what is stored.
ChangeIsReal ==
  [][poll.pc = "hashed" /\ poll'.pc = "stored" /\ poll.sum = file /\ ~split
       => store' # store]_vars

\* Once the file rests, the store holds it, or the last valid content when it
\* is unreadable or invalid, and registry, retry gates and serving generation
\* follow the store.  Excepted is a file whose hash was recorded for another
\* content, by a write between the two reads of a poll (main.go poll).
FileIsFollowed ==
  <>[](/\ file \in Valid => store = file \/ (key = file /\ store # key)
       /\ synced = store /\ shown = store /\ gates = store)

=============================================================================
