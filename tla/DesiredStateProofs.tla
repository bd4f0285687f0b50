------------------------- MODULE DesiredStateProofs -------------------------
(***************************************************************************)
(* Proofs about module DesiredState, for any contents and any number of    *)
(* changes of the file: types, that no stored change is slept on, and that *)
(* what is announced is a change.                                          *)
(***************************************************************************)
EXTENDS DesiredState, TLAPS

\* The worker that has read another configuration than the stored one, in
\* whatever step of its pass, is due another pass.  Before boot it has read
\* nothing.
WorkerIsDue ==
  /\ ~up => worker.pc = "due"
  /\ up /\ worker.pc # "due" /\ worker.cfg # store => wake \/ poll.pc = "stored"

\* Gates that lag behind the store have a reload on its way: being posted,
\* posted, or taken by an apply that has not read the store, or has read it
\* since it last changed.
GatesAreDue ==
  /\ ~up => apply.pc = "idle"
  /\ up => \/ reload
           \/ poll.pc \in {"stored", "woken"}
           \/ apply.source = "config" /\ apply.pc = "taken"
           \/ apply.source = "config" /\ apply.pc = "read" /\ apply.cfg = store
           \/ gates = store /\ ~(apply.source = "config" /\ apply.pc = "read")

\* What one poll read as one content is stored under its own hash.
KeyIsStored == ~split => key = store

IInv == TypeOK /\ WorkerIsDue /\ GatesAreDue /\ KeyIsStored

\* TypeOK in two parts: the flags, and everything else.
FlagsOK ==
  /\ up \in BOOLEAN /\ split \in BOOLEAN
  /\ wake \in BOOLEAN /\ reload \in BOOLEAN /\ changes \in BOOLEAN

DataOK ==
  /\ file \in Contents \cup {Missing}
  /\ poll \in [pc: {"begin", "hashed", "stored", "woken", "idle"},
               sum: Contents \cup {None}]
  /\ key \in Contents \cup {None}
  /\ store \in Configs /\ synced \in Configs /\ shown \in Configs /\ gates \in Configs
  /\ worker \in [pc: {"wait", "due", "read", "sweep"}, cfg: Configs]
  /\ apply \in [pc: {"idle", "taken", "read"}, cfg: Configs, source: {"readiness", "config"}]
  /\ writes \in 0..MaxWrites /\ noKey \in 0..MaxNoKey

LEMMA TypeParts == TypeOK <=> FlagsOK /\ DataOK
BY Zenon DEF TypeOK, FlagsOK, DataOK

LEMMA InitIInv == Init => IInv
<1> SUFFICES ASSUME Init PROVE IInv
  OBVIOUS
<1>1. FlagsOK BY Zenon DEF Init, FlagsOK
<1>2. DataOK BY BoundsAreNat DEF Init, DataOK, NoPoll, NoApply, Configs
<1>3. WorkerIsDue /\ GatesAreDue BY DEF Init, WorkerIsDue, GatesAreDue, NoApply
<1>4. KeyIsStored BY DEF Init, KeyIsStored
<1> QED BY <1>1, <1>2, <1>3, <1>4, TypeParts DEF IInv

LEMMA NextFlagsOK == FlagsOK /\ [Next]_vars => FlagsOK'
<1> SUFFICES ASSUME FlagsOK, [Next]_vars PROVE FlagsOK'
  OBVIOUS
<1> USE DEF FlagsOK, watched, tokens, looped, applied
<1>1. CASE Write BY Zenon, <1>1 DEF Write
<1>2. CASE Boot BY Zenon, <1>2 DEF Boot
<1>3. CASE Tick BY Zenon, <1>3 DEF Tick
<1>4. CASE Hash BY Zenon, <1>4 DEF Hash
<1>5. CASE LoadFile BY Zenon, <1>5 DEF LoadFile
<1>6. CASE PostWake BY Zenon, <1>6 DEF PostWake
<1>7. CASE PostReload BY Zenon, <1>7 DEF PostReload
<1>8. CASE StartPass BY Zenon, <1>8 DEF StartPass
<1>9. CASE ReadDesired BY Zenon, <1>9 DEF ReadDesired
<1>10. CASE SyncRegistry BY Zenon, <1>10 DEF SyncRegistry
<1>11. CASE EndPass BY Zenon, <1>11 DEF EndPass
<1>12. CASE RelayKeyFails BY Zenon, <1>12 DEF RelayKeyFails
<1>13. CASE TakeChanges BY Zenon, <1>13 DEF TakeChanges
<1>14. CASE TakeReload BY Zenon, <1>14 DEF TakeReload
<1>15. CASE ReadStore BY Zenon, <1>15 DEF ReadStore
<1>16. CASE Rebuild BY Zenon, <1>16 DEF Rebuild
<1>17. CASE UNCHANGED vars BY Zenon, <1>17 DEF vars
<1> QED BY <1>1, <1>2, <1>3, <1>4, <1>5, <1>6, <1>7, <1>8, <1>9, <1>10, <1>11, <1>12,
           <1>13, <1>14, <1>15, <1>16, <1>17 DEF Next, Poll, Loop, Apply

LEMMA NextDataOK == DataOK /\ [Next]_vars => DataOK'
<1> SUFFICES ASSUME DataOK, [Next]_vars PROVE DataOK'
  OBVIOUS
<1> USE BoundsAreNat DEF DataOK, Configs, NoPoll, NoApply, watched, tokens, looped, applied
<1>1. CASE Write BY <1>1 DEF Write
<1>2. CASE Boot BY <1>2 DEF Boot
<1>3. CASE Tick BY <1>3 DEF Tick
<1>4. CASE Hash BY <1>4 DEF Hash
<1>5. CASE LoadFile BY <1>5 DEF LoadFile, Contents
<1>6. CASE PostWake BY <1>6 DEF PostWake
<1>7. CASE PostReload BY <1>7 DEF PostReload
<1>8. CASE StartPass BY <1>8 DEF StartPass
<1>9. CASE ReadDesired BY <1>9 DEF ReadDesired
<1>10. CASE SyncRegistry BY <1>10 DEF SyncRegistry
<1>11. CASE EndPass BY <1>11 DEF EndPass
<1>12. CASE RelayKeyFails BY <1>12 DEF RelayKeyFails
<1>13. CASE TakeChanges BY <1>13 DEF TakeChanges
<1>14. CASE TakeReload
  <2>1. apply' = [pc |-> "taken", cfg |-> None, source |-> "config"]
    BY <1>14 DEF TakeReload
  <2> QED BY <1>14, <2>1 DEF TakeReload
<1>15. CASE ReadStore
  <2>1. apply' = [pc |-> "read", cfg |-> store, source |-> apply.source]
    BY <1>15 DEF ReadStore
  <2> QED BY <1>15, <2>1 DEF ReadStore
<1>16. CASE Rebuild BY <1>16 DEF Rebuild
<1>17. CASE UNCHANGED vars BY <1>17 DEF vars
<1> QED BY <1>1, <1>2, <1>3, <1>4, <1>5, <1>6, <1>7, <1>8, <1>9, <1>10, <1>11, <1>12,
           <1>13, <1>14, <1>15, <1>16, <1>17 DEF Next, Poll, Loop, Apply

LEMMA NextTypeOK == TypeOK /\ [Next]_vars => TypeOK'
<1>1. TypeOK' <=> FlagsOK' /\ DataOK'
  BY Zenon DEF TypeOK, FlagsOK, DataOK
<1> QED BY <1>1, TypeParts, NextFlagsOK, NextDataOK

LEMMA NextWorkerIsDue == TypeOK /\ WorkerIsDue /\ [Next]_vars => WorkerIsDue'
<1> SUFFICES ASSUME TypeOK, WorkerIsDue, [Next]_vars PROVE WorkerIsDue'
  OBVIOUS
<1> USE DEF TypeOK, WorkerIsDue, NoPoll, NoApply, watched, tokens, looped, applied
<1>1. CASE Write BY <1>1 DEF Write
<1>2. CASE Boot BY <1>2 DEF Boot
<1>3. CASE Tick BY <1>3 DEF Tick
<1>4. CASE Hash BY <1>4 DEF Hash
<1>5. CASE LoadFile BY <1>5 DEF LoadFile
<1>6. CASE PostWake BY <1>6 DEF PostWake
<1>7. CASE PostReload BY <1>7 DEF PostReload
<1>8. CASE StartPass BY <1>8 DEF StartPass
<1>9. CASE ReadDesired BY <1>9 DEF ReadDesired
<1>10. CASE SyncRegistry BY <1>10 DEF SyncRegistry
<1>11. CASE EndPass BY <1>11 DEF EndPass
<1>12. CASE RelayKeyFails BY <1>12 DEF RelayKeyFails
<1>13. CASE TakeChanges BY <1>13 DEF TakeChanges
<1>14. CASE TakeReload BY <1>14 DEF TakeReload
<1>15. CASE ReadStore BY <1>15 DEF ReadStore
<1>16. CASE Rebuild BY <1>16 DEF Rebuild
<1>17. CASE UNCHANGED vars BY <1>17 DEF vars
<1> QED BY <1>1, <1>2, <1>3, <1>4, <1>5, <1>6, <1>7, <1>8, <1>9, <1>10, <1>11, <1>12,
           <1>13, <1>14, <1>15, <1>16, <1>17 DEF Next, Poll, Loop, Apply

LEMMA NextGatesAreDue == TypeOK /\ GatesAreDue /\ [Next]_vars => GatesAreDue'
<1> SUFFICES ASSUME TypeOK, GatesAreDue, [Next]_vars PROVE GatesAreDue'
  OBVIOUS
<1> USE DEF TypeOK, GatesAreDue, NoPoll, NoApply, watched, tokens, looped, applied
<1>1. CASE Write BY <1>1 DEF Write
<1>2. CASE Boot BY <1>2 DEF Boot
<1>3. CASE Tick BY <1>3 DEF Tick
<1>4. CASE Hash BY <1>4 DEF Hash
<1>5. CASE LoadFile BY <1>5 DEF LoadFile
<1>6. CASE PostWake BY <1>6 DEF PostWake
<1>7. CASE PostReload BY <1>7 DEF PostReload
<1>8. CASE StartPass BY <1>8 DEF StartPass
<1>9. CASE ReadDesired BY <1>9 DEF ReadDesired
<1>10. CASE SyncRegistry BY <1>10 DEF SyncRegistry
<1>11. CASE EndPass BY <1>11 DEF EndPass
<1>12. CASE RelayKeyFails BY <1>12 DEF RelayKeyFails
<1>13. CASE TakeChanges BY <1>13 DEF TakeChanges
<1>14. CASE TakeReload BY <1>14 DEF TakeReload
<1>15. CASE ReadStore BY <1>15 DEF ReadStore
<1>16. CASE Rebuild
  <2>1. apply.pc = "read" /\ (apply.source = "config" => gates' = apply.cfg)
        /\ (apply.source # "config" => gates' = gates) /\ store' = store
    BY <1>16 DEF Rebuild
  <2>2. apply' = NoApply
    BY <1>16 DEF Rebuild
  <2>3. (reload' <=> reload) /\ (up' <=> up) /\ poll' = poll
    BY <1>16 DEF Rebuild
  <2> QED BY <2>1, <2>2, <2>3
<1>17. CASE UNCHANGED vars BY <1>17 DEF vars
<1> QED BY <1>1, <1>2, <1>3, <1>4, <1>5, <1>6, <1>7, <1>8, <1>9, <1>10, <1>11, <1>12,
           <1>13, <1>14, <1>15, <1>16, <1>17 DEF Next, Poll, Loop, Apply

LEMMA NextKeyIsStored == KeyIsStored /\ [Next]_vars => KeyIsStored'
<1> SUFFICES ASSUME KeyIsStored, [Next]_vars PROVE KeyIsStored'
  OBVIOUS
<1>1. CASE LoadFile
  <2>1. CASE file \in Valid /\ poll.sum # key
    <3>1. key' = poll.sum /\ store' = file /\ split' = (poll.sum # file)
      BY <1>1, <2>1 DEF LoadFile
    <3> QED BY <3>1 DEF KeyIsStored
  <2>2. CASE ~(file \in Valid /\ poll.sum # key)
    BY <1>1, <2>2 DEF LoadFile, KeyIsStored
  <2> QED BY <2>1, <2>2
<1>2. CASE UNCHANGED <<key, store, split>>
  BY <1>2 DEF KeyIsStored
<1> QED BY <1>1, <1>2 DEF Next, Poll, Loop, Apply, Write, Boot, Tick, Hash, PostWake,
           PostReload, StartPass, ReadDesired, RelayKeyFails, SyncRegistry, EndPass,
           TakeChanges, TakeReload, ReadStore, Rebuild, vars, watched

LEMMA IInvHolds == Spec => []IInv
<1>1. IInv /\ [Next]_vars => IInv'
  BY NextTypeOK, NextWorkerIsDue, NextGatesAreDue, NextKeyIsStored DEF IInv
<1> QED BY InitIInv, <1>1, PTL DEF Spec

\* Every variable stays in its range, and only valid contents are ever stored,
\* synced or served (main.go poll).
THEOREM TypeCorrect == Spec => []TypeOK
<1>1. IInv => TypeOK BY DEF IInv
<1> QED BY IInvHolds, <1>1, PTL

\* No stored change is slept on by the reconciler or by the apply loop: the
\* two one-slot channels are enough (main.go watch, reconcile.go Wake).
THEOREM ChangesArrive == Spec => []ChangeNotLost
<1>1. IInv => ChangeNotLost
  BY DEF IInv, TypeOK, WorkerIsDue, GatesAreDue, ChangeNotLost
<1> QED BY IInvHolds, <1>1, PTL

\* What is announced differs from what was stored, unless a write fell between
\* the two reads of a poll (main.go poll, the change gate).
THEOREM AnnouncesChanges == Spec => ChangeIsReal
<1>1. IInv /\ [Next]_vars
        => [poll.pc = "hashed" /\ poll'.pc = "stored" /\ poll.sum = file /\ ~split
              => store' # store]_vars
  <2> SUFFICES ASSUME KeyIsStored, [Next]_vars, poll.pc = "hashed", poll'.pc = "stored",
                      poll.sum = file, ~split, vars' # vars
               PROVE  store' # store
    BY DEF IInv
  <2>1. poll' # poll BY DEF vars, watched
  <2>2. CASE LoadFile BY <2>2 DEF LoadFile, NoPoll, KeyIsStored
  <2> QED BY <2>1, <2>2 DEF Next, Poll, Loop, Apply, Write, Boot, Tick, Hash, PostWake,
             PostReload, StartPass, ReadDesired, RelayKeyFails, SyncRegistry, EndPass,
             TakeChanges, TakeReload, ReadStore, Rebuild, vars, watched, NoPoll
<1> QED BY IInvHolds, <1>1, PTL DEF Spec, ChangeIsReal
=============================================================================
