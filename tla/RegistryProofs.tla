---------------------------- MODULE RegistryProofs ----------------------------
(***************************************************************************)
(* What holds of the registry for every number of relays, scopes and       *)
(* callers, every choice of settings and every bound: the theorems about   *)
(* RegistryClients.  The inductive invariant joins the typing, the         *)
(* soundness of the registry (RegistryLemmas) and the ownership of holds.  *)
(***************************************************************************)
EXTENDS RegistryClients, RegistryLemmas

IInv == /\ TypeOK
        /\ Sound(reg)
        /\ HoldInv
        /\ HoldHasOwner

\* Two holds on one relay name two objects (the second half of HoldInv).
Apart == \A c, d \in Clients :
           c # d /\ Holds(c) /\ Holds(d) /\ client[c].key = client[d].key
           => client[c].obj # client[d].obj

\* A registry with no entries and callers with no holds.
LEMMA InitIInv == Init => IInv
<1> SUFFICES ASSUME Init PROVE IInv
  OBVIOUS
<1>1. PICK cfg \in SettingsChoices : reg = New(cfg)
  BY DEF Init
<1>2. cfg \in Settings
  BY SettingsAreSettings
<1>3. Absent(0) \in Entry
  BY FreshType
<1>4. reg \in Registries
  BY <1>1, <1>2, <1>3 DEF New, Registries
<1>5. \A k \in Keys : reg.entries[k] = Absent(0)
  BY <1>1 DEF New
<1>6. ~Absent(0).serving /\ ~Absent(0).present
  BY DEF Absent, Fresh
<1>7. Sound(reg)
  <2>1. Served(reg) = {}
    BY <1>5, <1>6 DEF Served
  <2>2. reg.ready = 0
    BY <1>1 DEF New
  <2>3. QED
    BY <1>4, <1>5, <1>6, <2>1, <2>2, FS_EmptySet DEF Sound, EntryOK
<1>8. client \in [Clients -> ClientStates]
  BY NonEmpty DEF Init, NoHold, ClientStates, Phases
<1>9. want \in Members
  BY DEF Init, Members
<1>10. \A c \in Clients : ~Holds(c)
  BY DEF Init, Holds, NoHold
<1>11. HoldInv
  BY <1>10 DEF HoldInv
<1>12. HoldHasOwner
  BY <1>5, <1>6 DEF HoldHasOwner, Exists
<1>13. QED
  BY <1>4, <1>7, <1>8, <1>9, <1>11, <1>12 DEF IInv, TypeOK

-----------------------------------------------------------------------------
(* Steps that leave every caller where it is. *)

\* Entries may move to later incarnations under their callers, as long as
\* every object in use stays where it is.
LEMMA EvolvingStep ==
  ASSUME IInv, UNCHANGED client, want' \in Members,
         Sound(reg'), Evolves(reg, reg')
  PROVE  IInv'
<1>1. TypeOK'
  BY DEF IInv, TypeOK, Sound
<1>2. \A k \in Keys : /\ reg.entries[k] \in Entry /\ reg'.entries[k] \in Entry
                      /\ Moved(reg.entries[k], reg'.entries[k])
  BY DEF IInv, Sound, Registries, Evolves
<1>3. \A c \in Clients : client[c] \in ClientStates
  BY DEF IInv, TypeOK
<1>4. ASSUME NEW c \in Clients, Holds(c)' PROVE OwnEntry(c)'
  <2> DEFINE k == client[c].key
             e == reg.entries[k]
             f == reg'.entries[k]
  <2>1. k \in Keys /\ client[c].obj \in Nat /\ client[c].gen \in Nat
    BY <1>3 DEF ClientStates
  <2>2. OwnEntry(c)
    BY <1>4 DEF IInv, HoldInv, Holds
  <2>3. e \in Entry /\ f \in Entry /\ Moved(e, f)
    BY <1>2, <2>1
  <2>4. client[c]' = client[c]
    OBVIOUS
  <2>5. /\ client[c].obj <= f.obj
        /\ f.present /\ f.obj = client[c].obj => f.busy
    BY <2>1, <2>2, <2>3 DEF OwnEntry, Moved, Entry
  <2>6. Working(c) => f.present /\ f.obj = client[c].obj /\ client[c].gen <= f.gen
    BY <2>1, <2>2, <2>3 DEF OwnEntry, Moved, Entry
  <2>7. ASSUME Working(c), f.gen = client[c].gen
        PROVE  e.gen = client[c].gen /\ (f.state = "removing") = (e.state = "removing")
    BY <2>1, <2>2, <2>3, <2>7 DEF OwnEntry, Moved, Entry
  <2>8. /\ client[c].phase = "ensure" /\ f.gen = client[c].gen => f.state # "removing"
        /\ client[c].phase = "delete" /\ f.gen = client[c].gen => f.state = "removing"
    BY <2>2, <2>7 DEF OwnEntry, Working
  <2>9. QED
    BY <2>4, <2>5, <2>6, <2>8 DEF OwnEntry, Working
<1>5. HoldInv'
  <2>1. \A c \in Clients : Holds(c)' => OwnEntry(c)'
    BY <1>4
  <2>2. Apart'
    BY DEF IInv, HoldInv, Apart, Holds
  <2>3. QED
    BY <2>1, <2>2 DEF HoldInv, Apart
<1>6. HoldHasOwner'
  <2> SUFFICES ASSUME NEW k \in Keys, Exists(reg', k), reg'.entries[k].busy
               PROVE  \E c \in Clients : /\ client[c].phase # "idle"
                                         /\ client[c].key = k
                                         /\ client[c].obj = reg'.entries[k].obj
    BY DEF HoldHasOwner, Exists
  <2>1. /\ reg.entries[k].present /\ reg.entries[k].busy
        /\ reg'.entries[k].obj = reg.entries[k].obj
    BY <1>2 DEF Moved, Exists
  <2>2. QED
    BY <2>1 DEF IInv, HoldHasOwner, Exists
<1>7. QED
  BY <1>1, <1>5, <1>6 DEF IInv

\* Sync, whatever set of members it is given.
LEMMA SyncStep ==
  ASSUME IInv, SyncMembers
  PROVE  IInv'
<1>1. PICK w \in Members, hiccup \in SUBSET Keys :
        reg' = Sync(reg, Claims(w, hiccup)) /\ want' = w /\ UNCHANGED client
  BY DEF SyncMembers
<1>2. Claims(w, hiccup) \in [Keys -> Wants]
  BY DEF Claims, Members, Wants
<1>3. Sound(reg') /\ Evolves(reg, reg')
  BY <1>1, <1>2, SyncSound DEF IInv
<1>4. QED
  BY <1>1, <1>3, EvolvingStep

\* The reload, the applier's receive and the clock.
LEMMA QuietSteps ==
  ASSUME IInv, Reload \/ Receive \/ Elapse
  PROVE  IInv'
<1>1. UNCHANGED <<want, client>>
  BY DEF Reload, Receive, Elapse
<1>2. CASE Reload
  <2>1. PICK cfg \in SettingsChoices : reg' = UpdateSettings(reg, cfg)
    BY <1>2 DEF Reload
  <2>2. cfg \in Settings
    BY SettingsAreSettings
  <2>3. Sound(reg') /\ Evolves(reg, reg')
    BY <2>1, <2>2, UpdateSettingsSound DEF IInv
  <2>4. QED
    BY <1>1, <2>3, EvolvingStep DEF IInv, TypeOK
<1>3. CASE Receive
  BY <1>1, <1>3, ReceivedSound, EvolvingStep DEF IInv, TypeOK, Receive
<1>4. CASE Elapse
  BY <1>1, <1>4, TickSound, EvolvingStep DEF IInv, TypeOK, Elapse
<1>5. QED
  BY <1>2, <1>3, <1>4

\* Any completion an ensure task can deliver keeps the registry in order and
\* touches one entry.
LEMMA EnsureKept ==
  ASSUME IInv, NEW c \in Clients, EnsureOutcome(c)
  PROVE  Kept(reg, reg', client[c].key)
<1> DEFINE k == client[c].key
           g == client[c].gen
<1>1. k \in Keys /\ client[c].phase = "ensure"
  BY DEF IInv, TypeOK, ClientStates, EnsureOutcome
<1>2. Current(reg, k, g) => reg.entries[k].state # "removing"
  BY <1>1 DEF IInv, HoldInv, Holds, OwnEntry, Current
<1>3. Sound(reg)
  BY DEF IInv
<1>4. ASSUME NEW s \in EnterStates, reg' = Enter(reg, k, g, s, "")
      PROVE  Kept(reg, reg', k)
  BY <1>1, <1>2, <1>3, <1>4, EnterKept DEF Reasons, EnterStates, States, Out
<1>5. ASSUME NEW ep \in Endpoints, reg' = Ready(reg, k, g, ep)
      PROVE  Kept(reg, reg', k)
  BY <1>1, <1>2, <1>3, <1>5, ReadyKept
<1>6. ASSUME NEW r \in FailReasons,
             \/ reg' = Failing(reg, k, g, r)
             \/ reg' = Demote(reg, k, g, r)
             \/ reg' = Pause(reg, k, g, r)
      PROVE  Kept(reg, reg', k)
  <2>1. r \in Reasons
    BY ReasonsAreReasons
  <2>2. /\ Kept(reg, Failing(reg, k, g, r), k)
        /\ Kept(reg, Demote(reg, k, g, r), k)
        /\ Kept(reg, Pause(reg, k, g, r), k)
    BY <1>1, <1>2, <1>3, <2>1, FailingKept, DemoteKept, PauseKept
  <2>3. QED
    BY <1>6, <2>2
<1>7. ASSUME \/ reg' = DeferDrain(reg, k, g)
             \/ reg' = DrainCompleted(reg, k, g)
             \/ reg' = ScopeMarkTaken(reg, k, g)
      PROVE  Kept(reg, reg', k)
  BY <1>1, <1>3, <1>7, MarksKept
<1>8. QED
  BY <1>4, <1>5, <1>6, <1>7 DEF EnsureOutcome, Deliver, EnterStates

\* The other entries, then.
LEMMA EnsureFrames ==
  ASSUME IInv, NEW c \in Clients, EnsureOutcome(c)
  PROVE  \A j \in Keys \ {client[c].key} : reg'.entries[j] = reg.entries[j]
BY EnsureKept DEF Kept, Frame

\* So it keeps the invariant.
LEMMA EnsureOutcomeStep ==
  ASSUME IInv, NEW c \in Clients, EnsureOutcome(c)
  PROVE  IInv'
<1>1. client[c].key \in Keys /\ Sound(reg)
  BY DEF IInv, TypeOK, ClientStates, EnsureOutcome
<1>2. UNCHANGED <<want, client>>
  BY DEF EnsureOutcome, Deliver
<1>3. Sound(reg') /\ Evolves(reg, reg')
  BY <1>1, EnsureKept, KeptEvolves
<1>4. QED
  BY <1>2, <1>3, EvolvingStep DEF IInv, TypeOK

-----------------------------------------------------------------------------
(* Steps of one caller that take, move on or give back its hold. *)

\* ensureRelay looks: the entry is there and not removing.
LEMMA LookStep ==
  ASSUME IInv, NEW c \in Clients, LookAndResolve(c)
  PROVE  IInv'
<1> DEFINE k == client[c].key
<1>1. PICK s \in Scopes :
        client' = [client EXCEPT ![c].phase = "ensure", ![c].scope = s]
  BY DEF LookAndResolve
<1>2. /\ client[c].phase = "begun" /\ reg' = reg /\ want' = want
      /\ Exists(reg, k) /\ k \notin Removing(reg)
  BY DEF LookAndResolve
<1>3. client \in [Clients -> ClientStates] /\ k \in Keys
  BY DEF IInv, TypeOK, ClientStates
<1>4. client' \in [Clients -> ClientStates]
  BY <1>1, <1>3 DEF ClientStates, Phases
<1>5. /\ client'[c].phase = "ensure" /\ client'[c].key = k
      /\ client'[c].gen = client[c].gen /\ client'[c].obj = client[c].obj
      /\ \A d \in Clients \ {c} : client'[d] = client[d]
  BY <1>1, <1>3 DEF ClientStates
<1>6. OwnEntry(c) /\ Working(c) /\ Holds(c)
  BY <1>2 DEF IInv, HoldInv, Holds, Working
<1>7. reg.entries[k].state # "removing"
  BY <1>2, <1>3 DEF Removing
<1>8. \A d \in Clients : Holds(d)' => OwnEntry(d)'
  <2> SUFFICES ASSUME NEW d \in Clients, Holds(d)' PROVE OwnEntry(d)'
    OBVIOUS
  <2>1. CASE d = c
    BY <1>2, <1>5, <1>6, <1>7, <2>1 DEF OwnEntry, Working
  <2>2. CASE d # c
    BY <1>2, <1>5, <2>2 DEF IInv, HoldInv, OwnEntry, Working, Holds
  <2>3. QED
    BY <2>1, <2>2
<1>9. Apart'
  BY <1>5, <1>6 DEF IInv, HoldInv, Apart, Holds
<1>10. HoldHasOwner'
  <2>1. \A d \in Clients : client[d].phase # "idle" =>
          /\ client'[d].phase # "idle" /\ client'[d].key = client[d].key
          /\ client'[d].obj = client[d].obj
    BY <1>5
  <2>2. QED
    BY <1>2, <2>1 DEF IInv, HoldHasOwner, Exists
<1>11. QED
  BY <1>2, <1>4, <1>8, <1>9, <1>10 DEF IInv, TypeOK, HoldInv, Apart

\* A caller takes the hold: nobody else claims the object it gets.
LEMMA HoldStep ==
  ASSUME IInv, NEW c \in Clients, NEW k \in Keys, NEW phase \in {"begun", "delete"},
         CanBegin(reg, k), reg' = Begin(reg, k), Hold(c, k, phase),
         phase = "delete" => reg.entries[k].present /\ reg.entries[k].state = "removing"
  PROVE  IInv'
<1> DEFINE e == reg.entries[k]
           f == reg'.entries[k]
<1>1. /\ Sound(reg')
      /\ \A j \in Keys \ {k} : reg'.entries[j] = reg.entries[j]
      /\ f.present /\ f.busy
      /\ \/ /\ e.present /\ ~e.busy /\ f.obj = e.obj /\ f.gen = e.gen
            /\ f.state = e.state
         \/ ~e.present /\ f.obj = e.obj + 1
  BY BeginSound DEF IInv
<1>2. e \in Entry /\ f \in Entry
  BY <1>1 DEF IInv, Sound, Registries
<1>3. /\ client[c].phase = "idle" /\ want' = want
      /\ client' = [client EXCEPT ![c].phase = phase, ![c].key = k,
                                  ![c].gen = f.gen, ![c].obj = f.obj]
  BY DEF Hold
<1>4. client \in [Clients -> ClientStates]
  BY DEF IInv, TypeOK
<1>5. client' \in [Clients -> ClientStates]
  <2>1. f.gen \in Nat /\ f.obj \in Nat
    BY <1>2 DEF Entry
  <2>2. phase \in Phases
    BY DEF Phases
  <2> HIDE DEF f
  <2>3. [client[c] EXCEPT !.phase = phase, !.key = k, !.gen = f.gen,
                          !.obj = f.obj] \in ClientStates
    BY <1>4, <2>1, <2>2 DEF ClientStates
  <2>4. client' = [client EXCEPT ![c] = [client[c] EXCEPT
                      !.phase = phase, !.key = k, !.gen = f.gen, !.obj = f.obj]]
    BY <1>3, <1>4 DEF ClientStates, f
  <2>5. QED
    BY <1>4, <2>3, <2>4
<1>6. /\ client'[c].phase = phase /\ client'[c].key = k
      /\ client'[c].gen = f.gen /\ client'[c].obj = f.obj
      /\ \A d \in Clients \ {c} : client'[d] = client[d]
  BY <1>3, <1>4 DEF ClientStates
<1>7. \A d \in Clients : Holds(d) => OwnEntry(d)
  BY DEF IInv, HoldInv
<1>8. ASSUME NEW d \in Clients \ {c}, Holds(d), client[d].key = k
      PROVE  client[d].obj <= f.obj /\ client[d].obj # f.obj /\ ~Working(d)
  <2>1. client[d].obj \in Nat
    BY <1>4 DEF ClientStates
  <2>2. QED
    BY <1>1, <1>2, <1>7, <1>8, <2>1 DEF OwnEntry, Entry
<1>9. ASSUME NEW d \in Clients, Holds(d)' PROVE OwnEntry(d)'
  <2>1. CASE d = c
    BY <1>1, <1>2, <1>6, <2>1 DEF OwnEntry, Working, Entry
  <2>2. CASE d # c /\ client[d].key = k
    BY <1>6, <1>8, <1>9, <2>2 DEF OwnEntry, Working, Holds
  <2>3. CASE d # c /\ client[d].key # k
    <3>1. client[d].key \in Keys
      BY <1>4 DEF ClientStates
    <3>2. reg'.entries[client[d].key] = reg.entries[client[d].key]
      BY <1>1, <2>3, <3>1
    <3>3. OwnEntry(d)
      BY <1>6, <1>7, <1>9, <2>3 DEF Holds
    <3>4. QED
      BY <1>6, <2>3, <3>2, <3>3 DEF OwnEntry, Working
  <2>4. QED
    BY <2>1, <2>2, <2>3
<1>10. Apart'
  BY <1>6, <1>8 DEF IInv, HoldInv, Apart, Holds
<1>11. HoldHasOwner'
  <2> SUFFICES ASSUME NEW j \in Keys, Exists(reg', j), reg'.entries[j].busy
               PROVE  \E d \in Clients : /\ client'[d].phase # "idle"
                                         /\ client'[d].key = j
                                         /\ client'[d].obj = reg'.entries[j].obj
    BY DEF HoldHasOwner, Exists
  <2>1. CASE j = k
    BY <1>6, <2>1
  <2>2. CASE j # k
    <3>1. PICK d \in Clients : /\ client[d].phase # "idle" /\ client[d].key = j
                               /\ client[d].obj = reg.entries[j].obj
      BY <1>1, <2>2 DEF IInv, HoldHasOwner, Exists
    <3>2. d # c
      BY <1>3, <3>1
    <3>3. QED
      BY <1>1, <1>6, <2>2, <3>1, <3>2
  <2>3. QED
    BY <2>1, <2>2
<1>12. QED
  BY <1>1, <1>3, <1>5, <1>9, <1>10, <1>11 DEF IInv, TypeOK, HoldInv, Apart, Sound

\* The outcome of a remote delete: the entry is purged under the hold, or
\* stays removing with a gate.
LEMMA DeleteOutcomeStep ==
  ASSUME IInv, NEW c \in Clients, DeleteOutcome(c)
  PROVE  IInv'
<1> DEFINE k == client[c].key
           g == client[c].gen
           e == reg.entries[k]
           f == reg'.entries[k]
<1>1. /\ client[c].phase = "delete" /\ want' = want
      /\ client' = [client EXCEPT ![c].phase = "done"]
  BY DEF DeleteOutcome
<1>2. client \in [Clients -> ClientStates] /\ k \in Keys
  BY DEF IInv, TypeOK, ClientStates
<1>3. client' \in [Clients -> ClientStates]
  BY <1>1, <1>2 DEF ClientStates, Phases
<1>4. /\ client'[c].phase = "done" /\ client'[c].key = k
      /\ client'[c].gen = g /\ client'[c].obj = client[c].obj
      /\ \A d \in Clients \ {c} : client'[d] = client[d]
  BY <1>1, <1>2 DEF ClientStates
<1>5. \A d \in Clients : Holds(d) => OwnEntry(d)
  BY DEF IInv, HoldInv
<1>6. Holds(c) /\ Working(c) /\ e.obj = client[c].obj
  BY <1>1, <1>5 DEF Holds, Working, OwnEntry
<1>7. ASSUME NEW d \in Clients \ {c}, Holds(d), client[d].key = k
      PROVE  ~Working(d) /\ client[d].obj # e.obj /\ client[d].obj <= e.obj
  BY <1>5, <1>6, <1>7 DEF IInv, HoldInv, OwnEntry
<1>8. /\ Sound(reg')
      /\ \A j \in Keys \ {k} : reg'.entries[j] = reg.entries[j]
      /\ f.obj = e.obj
      /\ f.present => e.present /\ f.busy = e.busy
  <2>1. CASE reg' = DeleteDone(reg, k, g)
    <3>1. /\ Sound(reg')
          /\ \A j \in Keys \ {k} : reg'.entries[j] = reg.entries[j]
          /\ reg' = reg \/ f = Absent(e.obj)
      BY <1>2, <2>1, DeleteDoneSound DEF IInv
    <3>2. Absent(e.obj).obj = e.obj /\ ~Absent(e.obj).present
      BY DEF Absent, Fresh
    <3>3. QED
      BY <3>1, <3>2
  <2>2. CASE reg' = DeleteFailed(reg, k, g, "delete_failed")
    <3>1. Kept(reg, reg', k)
      BY <1>2, <2>2, DeleteFailedKept DEF IInv, Reasons
    <3>2. QED
      BY <3>1 DEF Kept, Frame, Identity
  <2>3. QED
    BY <2>1, <2>2 DEF DeleteOutcome
<1>9. ASSUME NEW d \in Clients, Holds(d)' PROVE OwnEntry(d)'
  <2>1. CASE d = c
    BY <1>4, <1>5, <1>6, <1>8, <2>1 DEF OwnEntry, Working
  <2>2. CASE d # c /\ client[d].key = k
    BY <1>4, <1>7, <1>8, <1>9, <2>2 DEF OwnEntry, Working, Holds
  <2>3. CASE d # c /\ client[d].key # k
    <3>1. client[d].key \in Keys
      BY <1>2 DEF ClientStates
    <3>2. reg'.entries[client[d].key] = reg.entries[client[d].key]
      BY <1>8, <2>3, <3>1
    <3>3. OwnEntry(d)
      BY <1>4, <1>5, <1>9, <2>3 DEF Holds
    <3>4. QED
      BY <1>4, <2>3, <3>2, <3>3 DEF OwnEntry, Working
  <2>4. QED
    BY <2>1, <2>2, <2>3
<1>10. Apart'
  BY <1>4, <1>6 DEF IInv, HoldInv, Apart, Holds
<1>11. HoldHasOwner'
  <2> SUFFICES ASSUME NEW j \in Keys, Exists(reg', j), reg'.entries[j].busy
               PROVE  \E d \in Clients : /\ client'[d].phase # "idle"
                                         /\ client'[d].key = j
                                         /\ client'[d].obj = reg'.entries[j].obj
    BY DEF HoldHasOwner, Exists
  <2>1. /\ reg.entries[j].present /\ reg.entries[j].busy
        /\ reg'.entries[j].obj = reg.entries[j].obj
    BY <1>8 DEF Exists
  <2>2. PICK d \in Clients : /\ client[d].phase # "idle" /\ client[d].key = j
                             /\ client[d].obj = reg.entries[j].obj
    BY <2>1 DEF IInv, HoldHasOwner, Exists
  <2>3. QED
    BY <1>4, <2>1, <2>2
<1>12. QED
  BY <1>1, <1>3, <1>8, <1>9, <1>10, <1>11 DEF IInv, TypeOK, HoldInv, Apart, Sound

\* The release of a hold touches the object it was taken on and no other.
LEMMA FinishStep ==
  ASSUME IInv, NEW c \in Clients, Finish(c)
  PROVE  IInv'
<1> DEFINE k == client[c].key
           o == client[c].obj
           e == reg.entries[k]
           f == reg'.entries[k]
<1>1. /\ client[c].phase # "idle" /\ want' = want
      /\ reg' = Release(reg, k, o)
      /\ client' = [client EXCEPT ![c] = NoHold]
  BY DEF Finish
<1>2. client \in [Clients -> ClientStates] /\ k \in Keys /\ NoHold \in ClientStates
  BY NonEmpty DEF IInv, TypeOK, ClientStates, NoHold, Phases
<1>3. client' \in [Clients -> ClientStates]
  BY <1>1, <1>2
<1>4. /\ client'[c].phase = "idle"
      /\ \A d \in Clients \ {c} : client'[d] = client[d]
  BY <1>1, <1>2 DEF NoHold
<1>5. \A d \in Clients : Holds(d) => OwnEntry(d)
  BY DEF IInv, HoldInv
<1>6. /\ Sound(reg')
      /\ \A j \in Keys \ {k} : reg'.entries[j] = reg.entries[j]
      /\ f.present = e.present /\ f.obj = e.obj /\ f.gen = e.gen
      /\ f.state = e.state
      /\ e.obj # o => f.busy = e.busy
      /\ e.obj = o /\ e.present => ~f.busy
  BY <1>1, <1>2, ReleaseSound DEF IInv
<1>7. ASSUME NEW d \in Clients \ {c}, Holds(d), client[d].key = k
      PROVE  client[d].obj # o
  BY <1>1, <1>7 DEF IInv, HoldInv, Holds
<1>8. ASSUME NEW d \in Clients, Holds(d)' PROVE OwnEntry(d)'
  <2>1. d # c /\ Holds(d) /\ OwnEntry(d) /\ client'[d] = client[d]
    BY <1>4, <1>5, <1>8 DEF Holds
  <2>2. CASE client[d].key = k
    <3>1. client[d].obj # o
      BY <1>7, <2>1, <2>2
    <3>2. f.present /\ f.obj = client[d].obj => f.busy
      BY <1>6, <2>1, <2>2, <3>1 DEF OwnEntry
    <3>3. QED
      BY <1>6, <2>1, <2>2, <3>2 DEF OwnEntry, Working
  <2>3. CASE client[d].key # k
    <3>1. client[d].key \in Keys
      BY <1>2 DEF ClientStates
    <3>2. reg'.entries[client[d].key] = reg.entries[client[d].key]
      BY <1>6, <2>3, <3>1
    <3>3. QED
      BY <2>1, <2>3, <3>2 DEF OwnEntry, Working
  <2>4. QED
    BY <2>2, <2>3
<1>9. Apart'
  BY <1>4 DEF IInv, HoldInv, Apart, Holds
<1>10. HoldHasOwner'
  <2> SUFFICES ASSUME NEW j \in Keys, Exists(reg', j), reg'.entries[j].busy
               PROVE  \E d \in Clients : /\ client'[d].phase # "idle"
                                         /\ client'[d].key = j
                                         /\ client'[d].obj = reg'.entries[j].obj
    BY DEF HoldHasOwner, Exists
  <2>1. /\ reg.entries[j].present /\ reg.entries[j].busy
        /\ reg'.entries[j].obj = reg.entries[j].obj
        /\ j = k => reg.entries[j].obj # o
    BY <1>6 DEF Exists
  <2>2. PICK d \in Clients : /\ client[d].phase # "idle" /\ client[d].key = j
                             /\ client[d].obj = reg.entries[j].obj
    BY <2>1 DEF IInv, HoldHasOwner, Exists
  <2>3. d # c
    BY <2>1, <2>2
  <2>4. QED
    BY <1>4, <2>1, <2>2, <2>3
<1>11. QED
  BY <1>1, <1>3, <1>6, <1>8, <1>9, <1>10 DEF IInv, TypeOK, HoldInv, Apart, Sound

-----------------------------------------------------------------------------
(* The theorems. *)

\* One case per action of RegistryClients.
LEMMA NextIInv == IInv /\ [Next]_vars => IInv'
<1> SUFFICES ASSUME IInv, [Next]_vars PROVE IInv'
  OBVIOUS
<1>1. CASE UNCHANGED vars
  BY <1>1 DEF vars, IInv, TypeOK, HoldInv, HoldHasOwner, Holds, OwnEntry, Working
<1>2. CASE SyncMembers
  BY <1>2, SyncStep
<1>3. CASE Reload \/ Receive \/ Elapse
  BY <1>3, QuietSteps
<1>4. ASSUME NEW c \in Clients, Step(c) PROVE IInv'
  <2>1. ASSUME NEW k \in Keys, BeginEnsure(c, k) PROVE IInv'
    BY <2>1, HoldStep DEF BeginEnsure
  <2>2. ASSUME NEW k \in Keys, BeginRemoteDelete(c, k) PROVE IInv'
    <3>1. /\ CanBegin(reg, k)
          /\ reg.entries[k].present /\ reg.entries[k].state = "removing"
      BY <2>2 DEF BeginRemoteDelete, CanBeginDelete, CanBegin, Removing, Exists
    <3>2. QED
      BY <2>2, <3>1, HoldStep DEF BeginRemoteDelete
  <2>3. CASE LookAndResolve(c)
    BY <2>3, LookStep
  <2>4. CASE EnsureOutcome(c)
    BY <2>4, EnsureOutcomeStep
  <2>5. CASE DeleteOutcome(c)
    BY <2>5, DeleteOutcomeStep
  <2>6. CASE Finish(c)
    BY <2>6, FinishStep
  <2>7. QED
    BY <1>4, <2>1, <2>2, <2>3, <2>4, <2>5, <2>6 DEF Step
<1>5. QED
  BY <1>1, <1>2, <1>3, <1>4 DEF Next

\* The inductive invariant: a registry that is well typed, whose count and
\* labels agree with its admissions, and whose callers own the entry objects
\* they began on (registry.go Begin: the closure captures the entry).
THEOREM Inductive == Spec => []IInv
<1>1. Init => IInv
  BY InitIInv
<1>2. IInv /\ [Next]_vars => IInv'
  BY NextIInv
<1>3. QED
  BY <1>1, <1>2, PTL DEF Spec

\* Every field stays in its declared range (registry.go: the readyCount, the
\* streaks and the gates are plain ints there).
THEOREM Typing == Spec => []TypeOK
<1>1. IInv => TypeOK
  BY DEF IInv
<1>2. QED
  BY <1>1, Inductive, PTL

\* The cached readyCount, on which the outage ceiling of every gate depends,
\* never drifts from the entries that hold admission.
THEOREM CountIsExact == Spec => []ReadyCountExact
<1>1. IInv => ReadyCountExact
  <2> SUFFICES ASSUME IInv PROVE ReadyCountExact
    OBVIOUS
  <2>1. ServingKeys(reg) = Served(reg)
    BY DEF IInv, Sound, EntryOK, ServingKeys, Served, IsReady, Exists
  <2>2. QED
    BY <2>1 DEF IInv, Sound, ReadyCountExact
<1>2. QED
  BY <1>1, Inductive, PTL

\* However many callers race, at most one works on a relay, and on the entry
\* object it began on (registry.go Begin, BeginDelete).
THEOREM HoldIsExclusive == Spec => []SingleFlight
<1>1. IInv => SingleFlight
  <2> SUFFICES ASSUME IInv, NEW c \in Clients, Working(c)
               PROVE  /\ Exists(reg, client[c].key)
                      /\ reg.entries[client[c].key].obj = client[c].obj
                      /\ reg.entries[client[c].key].busy
                      /\ \A d \in Clients \ {c} :
                           Working(d) => client[d].key # client[c].key
    BY DEF SingleFlight
  <2>1. \A d \in Clients : Working(d) => Holds(d) /\ OwnEntry(d)
    BY DEF IInv, HoldInv, Holds, Working
  <2>2. OwnEntry(c) /\ Holds(c)
    BY <2>1
  <2>3. \A d \in Clients \ {c} : Working(d) => client[d].key # client[c].key
    BY <2>1, <2>2 DEF IInv, HoldInv, OwnEntry
  <2>4. QED
    BY <2>2, <2>3 DEF OwnEntry, Exists
<1>2. QED
  BY <1>1, Inductive, PTL

\* A completion that passes the generation check belongs to the incarnation
\* it was started for (registry.go current, DeleteDone).
THEOREM CompletionsAreCurrent == Spec => []NoStaleCompletion
<1>1. IInv => NoStaleCompletion
  <2> SUFFICES ASSUME IInv, NEW c \in Clients, Working(c),
                      Current(reg, client[c].key, client[c].gen)
               PROVE  /\ reg.entries[client[c].key].obj = client[c].obj
                      /\ client[c].phase = "ensure" =>
                           client[c].key \notin Removing(reg)
                      /\ client[c].phase = "delete" =>
                           client[c].key \in Removing(reg)
    BY DEF NoStaleCompletion
  <2>1. OwnEntry(c)
    BY DEF IInv, HoldInv, Holds, Working
  <2>2. client[c].key \in Keys
    BY DEF IInv, TypeOK, ClientStates
  <2>3. QED
    BY <2>1, <2>2 DEF OwnEntry, Current, Removing, Exists
<1>2. QED
  BY <1>1, Inductive, PTL

\* A busy entry always has a caller that will release that very object
\* (registry.go Begin: the release closure captures the entry).
THEOREM HoldsAreOwned == Spec => []HoldHasOwner
<1>1. IInv => HoldHasOwner
  BY DEF IInv
<1>2. QED
  BY <1>1, Inductive, PTL

\* A label that means "out" is never worn by a relay that holds admission
\* (registry.go Sync, Failing, Demote, Pause).
THEOREM LabelsAgree == Spec => []OutMeansOut
<1>1. IInv => OutMeansOut
  BY DEF IInv, Sound, EntryOK, Out, OutMeansOut
<1>2. QED
  BY <1>1, Inductive, PTL
-----------------------------------------------------------------------------
(***************************************************************************)
(* What a step makes of an entry, whoever takes it: outside Sync it keeps  *)
(* the incarnation and its scope, or purges a removing entry, or makes a   *)
(* new one that holds nothing.                                             *)
(***************************************************************************)

\* A caller that may vouch for an endpoint of k now.
Vouches(c, k, url) ==
  /\ client[c].phase = "ensure" /\ client[c].key = k
  /\ Current(reg, k, client[c].gen)
  /\ Addresses(url, client[c].scope)

Keeps(k) ==
  LET e == reg.entries[k]
      f == reg'.entries[k]
  IN  /\ f.present = e.present /\ f.obj = e.obj /\ f.gen = e.gen /\ f.scope = e.scope
      /\ (f.state = "removing") = (e.state = "removing")
      /\ f.serving => \/ e.serving /\ f.url = e.url
                      \/ \E c \in Clients : Vouches(c, k, f.url)

Purged(k) == /\ k \in Removing(reg)
             /\ reg'.entries[k] = Absent(reg.entries[k].obj)

Made(k) == /\ ~Exists(reg, k) /\ Exists(reg', k)
           /\ ~reg'.entries[k].serving /\ reg'.entries[k].scope = Unknown

Outcome == /\ want' = want
           /\ Rings(reg, reg', 1)
           /\ \A k \in Keys : Keeps(k) \/ Purged(k) \/ Made(k)

\* A step that keeps what a reader sees of each entry.
LEMMA FactsKeep ==
  ASSUME IInv, UNCHANGED want,
         \A k \in Keys : Facts(reg'.entries[k]) = Facts(reg.entries[k])
  PROVE  Outcome
<1>1. \A k \in Keys : reg'.entries[k].serving = reg.entries[k].serving
  BY DEF Facts
<1>2. Rings(reg, reg', 1)
  BY <1>1, QuietRings
<1>3. \A k \in Keys : Keeps(k)
  BY DEF Facts, Terms, Keeps
<1> QED
  BY <1>2, <1>3 DEF Outcome

\* A completion lands on one entry, and a new admission was vouched for.
LEMMA EnsureOutcomes ==
  ASSUME IInv, NEW c \in Clients, EnsureOutcome(c)
  PROVE  Outcome
<1> DEFINE k == client[c].key
           g == client[c].gen
           e == reg.entries[k]
           f == reg'.entries[k]
<1>1. k \in Keys /\ client[c].phase = "ensure" /\ UNCHANGED want
  BY DEF IInv, TypeOK, ClientStates, EnsureOutcome, Deliver
<1>2. Current(reg, k, g) => e.state # "removing"
  BY <1>1 DEF IInv, HoldInv, Holds, OwnEntry, Current
<1>3. Sound(reg)
  BY DEF IInv
<1> DEFINE Landed == /\ Kept(reg, reg', k) /\ Rings(reg, reg', 1)
                     /\ f.scope = e.scope
                     /\ f.serving => \/ e.serving /\ f.url = e.url
                                     \/ Vouches(c, k, f.url)
<1>4. ASSUME Softens(reg, reg', k) PROVE Landed
  BY <1>4 DEF Softens, Terms
<1>5. ASSUME NEW s \in EnterStates, reg' = Enter(reg, k, g, s, "") PROVE Landed
  BY <1>1, <1>2, <1>3, <1>4, <1>5, EnterSoftens DEF Reasons, EnterStates, States, Out
<1>6. ASSUME NEW ep \in Endpoints, Addresses(ep, client[c].scope),
             reg' = Ready(reg, k, g, ep)
      PROVE  Landed
  <2>1. /\ Kept(reg, reg', k) /\ Rings(reg, reg', 1) /\ f.scope = e.scope
        /\ ~Current(reg, k, g) => reg' = reg
        /\ Current(reg, k, g) => f.url = ep
    BY <1>1, <1>2, <1>3, <1>6, ReadyTold
  <2> QED
    BY <1>1, <1>6, <2>1 DEF Vouches
<1>7. ASSUME NEW r \in FailReasons,
             \/ reg' = Failing(reg, k, g, r)
             \/ reg' = Demote(reg, k, g, r)
             \/ reg' = Pause(reg, k, g, r)
      PROVE  Landed
  <2>1. r \in Reasons
    BY ReasonsAreReasons
  <2>2. /\ Softens(reg, Failing(reg, k, g, r), k)
        /\ Softens(reg, Demote(reg, k, g, r), k)
        /\ Softens(reg, Pause(reg, k, g, r), k)
    BY <1>1, <1>2, <1>3, <2>1, FailingSoftens, DemoteSoftens, PauseSoftens
  <2> QED
    BY <1>4, <1>7, <2>2
<1>8. ASSUME reg' \in {DeferDrain(reg, k, g), DrainCompleted(reg, k, g),
                       ScopeMarkTaken(reg, k, g)}
      PROVE  Landed
  <2>1. /\ Kept(reg, reg', k) /\ Served(reg') = Served(reg)
        /\ f.serving = e.serving /\ f.scope = e.scope /\ f.url = e.url
    BY <1>1, <1>3, <1>8, MarksTold
  <2> QED
    BY <2>1 DEF Rings
<1>9. Landed
  BY <1>5, <1>6, <1>7, <1>8 DEF EnsureOutcome, Deliver, EnterStates
<1>10. ASSUME NEW j \in Keys PROVE Keeps(j)
  BY <1>9 DEF Keeps, Kept, Frame, Identity
<1> QED
  BY <1>1, <1>9, <1>10 DEF Outcome

\* A remote delete's outcome purges the entry, or leaves what a reader sees.
LEMMA DeleteOutcomes ==
  ASSUME IInv, NEW c \in Clients, DeleteOutcome(c)
  PROVE  Outcome
<1> DEFINE k == client[c].key
           g == client[c].gen
           e == reg.entries[k]
<1>1. k \in Keys /\ UNCHANGED want /\ Sound(reg)
  BY DEF IInv, TypeOK, ClientStates, DeleteOutcome
<1>2. CASE reg' = DeleteFailed(reg, k, g, "delete_failed")
  <2>1. Softens(reg, reg', k)
    BY <1>1, <1>2, DeleteFailedSoftens DEF Reasons
  <2>2. ASSUME NEW j \in Keys PROVE Keeps(j)
    BY <2>1 DEF Keeps, Softens, Terms, Kept, Frame, Identity
  <2> QED
    BY <1>1, <2>1, <2>2 DEF Outcome, Softens
<1>3. CASE reg' = DeleteDone(reg, k, g)
  <2>1. \A j \in Keys \ {k} : reg'.entries[j] = reg.entries[j]
    BY <1>1, <1>3, DeleteDoneSound
  <2>2. CASE Current(reg, k, g) /\ e.state = "removing"
    <3>1. reg'.entries[k] = Absent(e.obj)
      BY <1>1, <1>3, <2>2, DeleteDoneTold
    <3>2. ~e.serving /\ ~Absent(e.obj).serving
      BY <1>1, <2>2 DEF Sound, EntryOK, Out, Absent, Fresh
    <3>3. Purged(k)
      BY <1>1, <2>2, <3>1 DEF Purged, Removing, Exists, Current
    <3>4. Served(reg') = Served(reg)
      BY <2>1, <3>1, <3>2 DEF Served
    <3>5. \A j \in Keys \ {k} : Keeps(j)
      BY <2>1 DEF Keeps
    <3> QED
      BY <1>1, <3>3, <3>4, <3>5 DEF Outcome, Rings
  <2>3. CASE ~(Current(reg, k, g) /\ e.state = "removing")
    <3>1. reg' = reg
      BY <1>1, <1>3, <2>3, DeleteDoneTold
    <3> QED
      BY <1>1, <3>1, FactsKeep
  <2> QED
    BY <2>2, <2>3
<1> QED
  BY <1>2, <1>3 DEF DeleteOutcome

\* Begin takes the hold of the entry there is, or of a new one.
LEMMA BeginOutcomes ==
  ASSUME IInv, NEW k \in Keys, CanBegin(reg, k), reg' = Begin(reg, k), UNCHANGED want
  PROVE  Outcome
<1>1. Sound(reg) /\ reg \in Registries
  BY DEF IInv, Sound
<1>2. \A j \in Keys \ {k} : reg'.entries[j] = reg.entries[j]
  BY <1>1, BeginSound
<1>3. CASE Exists(reg, k)
  <2>1. Facts(reg'.entries[k]) = Facts(reg.entries[k])
    BY <1>1, <1>3, HoldsTold
  <2> QED
    BY <1>2, <2>1, FactsKeep
<1>4. CASE ~Exists(reg, k)
  <2> DEFINE f == [Fresh(reg.entries[k].obj + 1, Unknown) EXCEPT !.busy = TRUE]
  <2>1. f.present /\ ~f.serving /\ f.scope = Unknown
    BY DEF Fresh
  <2>2. reg' = With(reg, k, f)
    BY <1>4 DEF Begin
  <2> HIDE DEF f
  <2>3. reg'.entries[k] = f
    BY <1>1, <2>2 DEF With, Registries
  <2>4. ~reg.entries[k].serving
    BY <1>1, <1>4 DEF Sound, EntryOK, Exists
  <2>5. Made(k)
    BY <1>4, <2>1, <2>3 DEF Made, Exists
  <2>6. Served(reg') = Served(reg)
    BY <1>2, <2>1, <2>3, <2>4 DEF Served
  <2>7. \A j \in Keys \ {k} : Keeps(j)
    BY <1>2 DEF Keeps
  <2> QED
    BY <2>5, <2>6, <2>7 DEF Outcome, Rings
<1> QED
  BY <1>3, <1>4

\* Releases, looks, clocks, reloads and receives change nothing a reader sees.
LEMMA FinishOutcomes ==
  ASSUME IInv, NEW c \in Clients, Finish(c)
  PROVE  Outcome
<1> DEFINE k == client[c].key
           o == client[c].obj
<1>1. k \in Keys /\ UNCHANGED want /\ Sound(reg) /\ reg' = Release(reg, k, o)
  BY DEF IInv, TypeOK, ClientStates, Finish
<1>2. \A j \in Keys \ {k} : reg'.entries[j] = reg.entries[j]
  BY <1>1, ReleaseSound
<1>3. Facts(reg'.entries[k]) = Facts(reg.entries[k])
  BY <1>1, HoldsTold
<1> QED
  BY <1>1, <1>2, <1>3, FactsKeep

LEMMA QuietOutcomes ==
  ASSUME IInv, Reload \/ Receive \/ Elapse
  PROVE  Outcome
<1>1. Sound(reg) /\ reg.cfg \in Settings /\ UNCHANGED want
  BY DEF IInv, Sound, Registries, Reload, Receive, Elapse
<1>2. PICK cfg \in Settings :
        reg' \in {Tick(reg), UpdateSettings(reg, cfg), Received(reg)}
  BY <1>1, SettingsAreSettings DEF Reload, Receive, Elapse
<1>3. \A k \in Keys : Facts(reg'.entries[k]) = Facts(reg.entries[k])
  BY <1>1, <1>2, QuietReads
<1> QED
  BY <1>1, <1>3, FactsKeep

\* One case per action.
LEMMA NextOutcomes ==
  ASSUME IInv, [Next]_vars
  PROVE  SyncMembers \/ Outcome
<1>1. CASE UNCHANGED vars
  BY <1>1, FactsKeep DEF vars
<1>2. CASE Reload \/ Receive \/ Elapse
  BY <1>2, QuietOutcomes
<1>3. ASSUME NEW c \in Clients, Step(c) PROVE Outcome
  <2>1. ASSUME NEW k \in Keys, BeginEnsure(c, k) PROVE Outcome
    BY <2>1, BeginOutcomes DEF BeginEnsure, Hold
  <2>2. ASSUME NEW k \in Keys, BeginRemoteDelete(c, k) PROVE Outcome
    <3>1. CanBegin(reg, k)
      BY <2>2 DEF BeginRemoteDelete, CanBeginDelete, CanBegin
    <3> QED
      BY <2>2, <3>1, BeginOutcomes DEF BeginRemoteDelete, Hold
  <2>3. CASE LookAndResolve(c)
    BY <2>3, FactsKeep DEF LookAndResolve
  <2>4. CASE EnsureOutcome(c)
    BY <2>4, EnsureOutcomes
  <2>5. CASE DeleteOutcome(c)
    BY <2>5, DeleteOutcomes
  <2>6. CASE Finish(c)
    BY <2>6, FinishOutcomes
  <2> QED
    BY <1>3, <2>1, <2>2, <2>3, <2>4, <2>5, <2>6 DEF Step
<1> QED
  BY <1>1, <1>2, <1>3 DEF Next

\* What a purge leaves holds nothing.
LEMMA AbsentFacts ==
  ASSUME NEW o
  PROVE  ~Absent(o).present /\ ~Absent(o).serving
BY DEF Absent, Fresh

\* What a pass makes of one entry (registry.go Sync).
LEMMA SyncEntryFacts ==
  ASSUME NEW e \in Entry, EntryOK(e), NEW m \in Wants
  PROVE  LET f == SyncEntry(e, m) IN
         /\ f.gen # e.gen => ~f.serving
         /\ f.serving => e.serving /\ f.url = e.url /\ (f.scope = e.scope \/ e.scope = Unknown)
         /\ e.present /\ e.state = "removing" =>
              IF m = Gone THEN f = e ELSE f.present /\ f.gen > e.gen
         /\ m \in Scopes => f.present /\ f.state # "removing" /\ f.scope = m
         /\ e.present /\ f.gen = e.gen => f.scope = e.scope \/ e.scope = Unknown
<1> DEFINE After(f) ==
      /\ f.gen # e.gen => ~f.serving
      /\ f.serving => e.serving /\ f.url = e.url /\ (f.scope = e.scope \/ e.scope = Unknown)
      /\ e.present /\ e.state = "removing" =>
           IF m = Gone THEN f = e ELSE f.present /\ f.gen > e.gen
      /\ m \in Scopes => f.present /\ f.state # "removing" /\ f.scope = m
      /\ e.present /\ f.gen = e.gen => f.scope = e.scope \/ e.scope = Unknown
<1> SUFFICES ASSUME NEW f, f = SyncEntry(e, m) PROVE After(f)
  OBVIOUS
<1>1. e.gen \in Nat /\ Gone # Unknown /\ Gone \notin Scopes /\ Unknown \notin Scopes
  BY NullsDistinct DEF Entry
<1>2. CASE Appears(e, m)
  <2>1. f = Fresh(e.obj + 1, m)
    BY <1>2 DEF SyncEntry, Appears, Returns, Leaves, Resolves, Flips, Stays
  <2>2. f.present /\ ~f.serving /\ f.state = "configured" /\ f.scope = m
    <3>1. \A o : LET r == Fresh(o, m) IN
                  r.present /\ ~r.serving /\ r.state = "configured" /\ r.scope = m
      BY DEF Fresh
    <3> QED
      BY <2>1, <3>1
  <2>3. ~e.present
    BY <1>2 DEF Appears
  <2> QED
    BY <2>2, <2>3
<1>3. CASE Returns(e, m)
  <2>1. f = Returned(e, m)
    BY <1>3 DEF SyncEntry, Appears, Returns, Leaves, Resolves, Flips, Stays
  <2>2. /\ f.present /\ f.gen = e.gen + 1 /\ f.state = "configured" /\ f.scope = m
        /\ f.serving = e.serving
    BY <1>3, <2>1 DEF Returned, Entry, Returns
  <2> QED
    BY <1>1, <1>3, <2>2 DEF Returns, EntryOK, Out
<1>4. CASE Leaves(e, m)
  <2>1. f = Left(e)
    BY <1>4 DEF SyncEntry, Appears, Returns, Leaves, Resolves, Flips, Stays
  <2>2. ~f.serving /\ f.gen = e.gen + 1
    BY <2>1 DEF Left, Entry
  <2> QED
    BY <1>1, <1>4, <2>2 DEF Leaves
<1>5. CASE Resolves(e, m)
  <2>1. f = [e EXCEPT !.scope = m]
    BY <1>5 DEF SyncEntry, Appears, Returns, Leaves, Resolves, Flips, Stays
  <2>2. /\ f.gen = e.gen /\ f.scope = m /\ f.serving = e.serving /\ f.url = e.url
        /\ f.present = e.present /\ f.state = e.state
    BY <2>1 DEF Entry
  <2> QED
    BY <1>5, <2>2 DEF Resolves, Stays
<1>6. CASE Flips(e, m)
  <2>1. f = Flipped(e, m)
    BY <1>6 DEF SyncEntry, Appears, Returns, Leaves, Resolves, Flips, Stays
  <2>2. /\ ~f.serving /\ f.gen = e.gen + 1 /\ f.scope = m /\ f.present = e.present
        /\ f.state = "configured"
    BY <2>1 DEF Flipped, Entry
  <2> QED
    BY <1>1, <1>6, <2>2 DEF Flips, Stays
<1>7. CASE ~(\/ Appears(e, m) \/ Returns(e, m) \/ Leaves(e, m)
             \/ Resolves(e, m) \/ Flips(e, m))
  <2>1. f = e
    BY <1>7 DEF SyncEntry
  <2>2. m \in Scopes => e.present /\ e.state # "removing" /\ e.scope = m
    BY <1>1, <1>7 DEF Appears, Returns, Resolves, Flips, Stays
  <2>3. e.present /\ e.state = "removing" => m = Gone
    BY <1>7 DEF Returns
  <2> QED
    BY <2>1, <2>2, <2>3
<1> QED
  BY <1>2, <1>3, <1>4, <1>5, <1>6, <1>7

\* What SyncMembers does to one relay, and that it rings.
LEMMA SyncOutcomes ==
  ASSUME IInv, SyncMembers
  PROVE  /\ want' \in Members /\ UNCHANGED client
         /\ Rings(reg, reg', Cardinality(Keys))
         /\ \E m \in [Keys -> Wants] :
              \A k \in Keys : /\ reg'.entries[k] = SyncEntry(reg.entries[k], m[k])
                              /\ m[k] = Gone <=> want'[k] = Gone
                              /\ ~Hiccups => m[k] = want'[k]
<1>1. PICK w \in Members, hiccup \in (IF Hiccups THEN SUBSET Keys ELSE {{}}) :
        reg' = Sync(reg, Claims(w, hiccup)) /\ want' = w /\ UNCHANGED client
  BY DEF SyncMembers
<1> DEFINE m == Claims(w, hiccup)
<1>2. m \in [Keys -> Wants]
  BY DEF Claims, Members, Wants
<1>3. \A k \in Keys : /\ m[k] = Gone <=> w[k] = Gone
                      /\ ~Hiccups => m[k] = w[k]
  BY NullsDistinct, HiccupsIsBoolean DEF Claims
<1> HIDE DEF m
<1>4. Sound(reg)
  BY DEF IInv
<1>5. /\ Rings(reg, Sync(reg, m), Cardinality(Keys))
      /\ \A k \in Keys : Sync(reg, m).entries[k] = SyncEntry(reg.entries[k], m[k])
  BY <1>2, <1>4, SyncTold
<1>6. reg' = Sync(reg, m)
  BY <1>1 DEF m
<1> QED
  BY <1>1, <1>2, <1>3, <1>5, <1>6

-----------------------------------------------------------------------------
(* What follows for every step. *)

\* The step that begins an incarnation leaves the relay out of the pool
\* (registry.go Sync).
THEOREM AdmissionEnds == Spec => AdmissionEndsWithIncarnation
<1>1. ASSUME IInv, [Next]_vars, NEW k \in Keys,
             reg'.entries[k].gen # reg.entries[k].gen
      PROVE  ~reg'.entries[k].serving
  <2>1. CASE SyncMembers
    BY <1>1, <2>1, SyncOutcomes, SyncEntryFacts DEF IInv, Sound, Registries
  <2>2. CASE Outcome
    BY <1>1, <2>2, AbsentFacts DEF Outcome, Keeps, Purged, Made
  <2> QED
    BY <1>1, <2>1, <2>2, NextOutcomes
<1>2. IInv /\ [Next]_vars =>
        [\A k \in Keys : reg'.entries[k].gen # reg.entries[k].gen
                           => ~reg'.entries[k].serving]_vars
  BY <1>1
<1> QED
  BY <1>2, Inductive, PTL DEF Spec, AdmissionEndsWithIncarnation

\* A removing relay is purged, or re-added by a Sync that desires it, and
\* nothing else brings it back (registry.go Sync, DeleteDone).
THEOREM RemovedStaysRemoved == Spec => NoResurrection
<1>1. ASSUME IInv, [Next]_vars, NEW k \in Removing(reg), k \notin Removing(reg')
      PROVE  \/ ~Exists(reg', k)
             \/ want'[k] # Gone /\ reg'.entries[k].gen > reg.entries[k].gen
  <2>1. k \in Keys /\ reg.entries[k].present /\ reg.entries[k].state = "removing"
    BY <1>1 DEF Removing, Exists
  <2>2. CASE SyncMembers
    <3>1. PICK m \in [Keys -> Wants] :
            /\ reg'.entries[k] = SyncEntry(reg.entries[k], m[k])
            /\ m[k] = Gone <=> want'[k] = Gone
      BY <1>1, <2>1, <2>2, SyncOutcomes
    <3>2. reg.entries[k] \in Entry /\ EntryOK(reg.entries[k])
      BY <1>1, <2>1 DEF IInv, Sound, Registries
    <3>3. m[k] # Gone
      BY <1>1, <2>1, <3>1, <3>2, SyncEntryFacts DEF Removing, Exists
    <3> QED
      BY <2>1, <3>1, <3>2, <3>3, SyncEntryFacts
  <2>3. CASE Outcome
    BY <1>1, <2>1, <2>3, AbsentFacts
       DEF Outcome, Keeps, Purged, Made, Removing, Exists
  <2> QED
    BY <1>1, <2>2, <2>3, NextOutcomes
<1>2. IInv /\ [Next]_vars =>
        [\A k \in Removing(reg) : k \notin Removing(reg') =>
           \/ ~Exists(reg', k)
           \/ want'[k] # Gone /\ reg'.entries[k].gen > reg.entries[k].gen]_vars
  BY <1>1
<1> QED
  BY <1>2, Inductive, PTL DEF Spec, NoResurrection

\* Whoever changes the serving set tells the applier in the same critical
\* section, as long as the relays are fewer than the notification counter has
\* values, the counter's wrap included (registry.go notifyLocked).
THEOREM MembershipRings ==
  ASSUME Cardinality(Keys) < SeqMod
  PROVE  Spec => MembershipNotified
<1>1. ASSUME IInv, [Next]_vars, ServingKeys(reg') # ServingKeys(reg)
      PROVE  reg'.changes /\ reg'.seq # reg.seq
  <2>1. IInv'
    BY <1>1, NextIInv
  <2>2. ServingKeys(reg) = Served(reg)
    BY <1>1 DEF IInv, Sound, EntryOK, ServingKeys, Served, IsReady, Exists
  <2>3. ServingKeys(reg') = Served(reg')
    BY <2>1 DEF IInv, Sound, EntryOK, ServingKeys, Served, IsReady, Exists
  <2>4. 1 < SeqMod
    <3>1. Cardinality(Keys) \in Nat /\ Cardinality(Keys) # 0
      BY KeysFinite, NonEmpty, FS_CardinalityType, FS_EmptySet
    <3> QED
      BY <3>1, BoundsAreNat
  <2>5. \E n \in {1, Cardinality(Keys)} : Rings(reg, reg', n)
    BY <1>1, NextOutcomes, SyncOutcomes DEF Outcome
  <2> QED
    BY <1>1, <2>2, <2>3, <2>4, <2>5 DEF Rings
<1>2. IInv /\ [Next]_vars =>
        [ServingKeys(reg') # ServingKeys(reg) =>
           reg'.changes /\ reg'.seq # reg.seq]_vars
  BY <1>1
<1> QED
  BY <1>2, Inductive, PTL DEF Spec, MembershipNotified

-----------------------------------------------------------------------------
(***************************************************************************)
(* Scopes, when every Sync resolves them.  What is admitted was verified   *)
(* in the scope on record because the caller that vouched for it resolved  *)
(* the scope on record, because that is the scope desired.                 *)
(***************************************************************************)
ScopesInv ==
  /\ \A k \in Keys : want[k] # Gone => /\ Exists(reg, k) /\ k \notin Removing(reg)
                                       /\ reg.entries[k].scope = want[k]
  /\ \A c \in Clients :
       client[c].phase = "ensure" /\ Current(reg, client[c].key, client[c].gen)
         => reg.entries[client[c].key].scope = client[c].scope
  /\ \A k \in Keys : reg.entries[k].serving =>
       /\ reg.entries[k].scope \in Scopes
       /\ Addresses(reg.entries[k].url, reg.entries[k].scope)

\* A caller that works on a deployment has looked.
LEMMA EnsuresLook ==
  ASSUME IInv, [Next]_vars, NEW c \in Clients, client'[c].phase = "ensure"
  PROVE  client'[c] = client[c] \/ LookAndResolve(c)
<1>1. client \in [Clients -> ClientStates]
  BY DEF IInv, TypeOK
<1>2. CASE \/ UNCHANGED vars
           \/ SyncMembers \/ Reload \/ Receive \/ Elapse
  BY <1>2 DEF vars, SyncMembers, Reload, Receive, Elapse
<1>3. ASSUME NEW d \in Clients, Step(d)
      PROVE  \/ client' = client
             \/ LookAndResolve(d) /\ \A q \in Clients \ {d} : client'[q] = client[q]
             \/ /\ client'[d].phase # "ensure"
                /\ \A q \in Clients \ {d} : client'[q] = client[q]
  <2>1. ASSUME NEW k \in Keys, BeginEnsure(d, k) \/ BeginRemoteDelete(d, k)
        PROVE  /\ client'[d].phase # "ensure"
               /\ \A q \in Clients \ {d} : client'[q] = client[q]
    BY <1>1, <2>1 DEF BeginEnsure, BeginRemoteDelete, Hold, ClientStates
  <2>2. CASE LookAndResolve(d)
    BY <1>1, <2>2 DEF LookAndResolve
  <2>3. CASE EnsureOutcome(d)
    BY <2>3 DEF EnsureOutcome, Deliver
  <2>4. CASE DeleteOutcome(d)
    BY <1>1, <2>4 DEF DeleteOutcome, ClientStates
  <2>5. CASE Finish(d)
    BY <1>1, <2>5 DEF Finish, NoHold
  <2> QED
    BY <1>3, <2>1, <2>2, <2>3, <2>4, <2>5 DEF Step
<1> QED
  BY <1>2, <1>3 DEF Next

\* The scope it resolved is the one its incarnation is recorded under.
LEMMA ClientKeeps ==
  ASSUME IInv, ScopesInv, [Next]_vars, Outcome, NEW c \in Clients,
         client'[c].phase = "ensure", Current(reg', client'[c].key, client'[c].gen)
  PROVE  reg'.entries[client'[c].key].scope = client'[c].scope
<1> DEFINE k == client[c].key
<1>1. client \in [Clients -> ClientStates] /\ k \in Keys
  BY DEF IInv, TypeOK, ClientStates
<1>2. CASE client'[c] = client[c]
  <2>1. reg.entries[k].present
    BY <1>2 DEF IInv, HoldInv, Holds, OwnEntry, Working
  <2>2. Keeps(k)
    BY <1>1, <1>2, <2>1, AbsentFacts DEF Outcome, Made, Purged, Exists, Current
  <2> QED
    BY <1>1, <1>2, <2>1, <2>2 DEF Keeps, Current, ScopesInv
<1>3. CASE LookAndResolve(c)
  <2>1. PICK s \in Scopes :
          /\ want[k] = s
          /\ client' = [client EXCEPT ![c].phase = "ensure", ![c].scope = s]
    BY <1>3 DEF LookAndResolve
  <2>2. reg' = reg /\ client'[c].key = k /\ client'[c].scope = s
    BY <1>1, <1>3, <2>1 DEF LookAndResolve, ClientStates
  <2>3. want[k] # Gone
    BY <2>1, NullsDistinct
  <2> QED
    BY <1>1, <2>1, <2>2, <2>3 DEF ScopesInv
<1> QED
  BY <1>2, <1>3, EnsuresLook

\* One conjunct at a time, by what the step makes of the entry.
LEMMA NextScopes ==
  ASSUME ~Hiccups, IInv, ScopesInv, [Next]_vars
  PROVE  ScopesInv'
<1>1. /\ IInv' /\ Sound(reg)
      /\ \A k \in Keys : reg.entries[k] \in Entry /\ EntryOK(reg.entries[k])
  BY NextIInv DEF IInv, Sound, Registries
<1>2. \A c \in Clients : /\ client[c].key \in Keys /\ client[c].scope \in Scopes
                         /\ client[c].gen \in Nat
  BY DEF IInv, TypeOK, ClientStates
<1>3. CASE SyncMembers
  <2>1. PICK m \in [Keys -> Wants] :
          \A k \in Keys : /\ reg'.entries[k] = SyncEntry(reg.entries[k], m[k])
                          /\ m[k] = want'[k]
    BY <1>3, SyncOutcomes
  <2>2. want' \in Members /\ UNCHANGED client
    BY <1>3, SyncOutcomes
  <2>3. ASSUME NEW k \in Keys, want'[k] # Gone
        PROVE  /\ Exists(reg', k) /\ k \notin Removing(reg')
               /\ reg'.entries[k].scope = want'[k]
    <3>1. m[k] \in Scopes
      BY <2>1, <2>2, <2>3 DEF Members
    <3> QED
      BY <1>1, <2>1, <3>1, SyncEntryFacts DEF Exists, Removing
  <2>4. ASSUME NEW c \in Clients, client'[c].phase = "ensure",
               Current(reg', client'[c].key, client'[c].gen)
        PROVE  reg'.entries[client'[c].key].scope = client'[c].scope
    <3> DEFINE k == client[c].key
               e == reg.entries[k]
    <3>1. client'[c] = client[c] /\ k \in Keys /\ reg'.entries[k].gen = client[c].gen
      BY <1>2, <2>2, <2>4 DEF Current
    <3>2. OwnEntry(c) /\ OwnEntry(c)'
      BY <1>1, <2>4, <3>1 DEF IInv, HoldInv, Holds
    <3>3. e.present /\ client[c].gen <= e.gen
      BY <2>4, <3>1, <3>2 DEF OwnEntry, Working
    <3>4. e.gen <= reg'.entries[k].gen
      BY <1>1, <2>1, <3>1, <3>3, SyncEntryOK DEF Synced, Moved
    <3>5. e.gen = reg'.entries[k].gen
      <4>1. e.gen \in Nat /\ reg'.entries[k].gen \in Nat
        BY <1>1, <2>1, <3>1, SyncEntryOK DEF Synced, Entry
      <4> QED
        BY <1>2, <3>1, <3>3, <3>4, <4>1
    <3>6. e.scope = client[c].scope
      BY <2>4, <3>1, <3>3, <3>5 DEF ScopesInv, Current
    <3>7. e.scope # Unknown
      BY <1>2, <3>6, NullsDistinct
    <3> QED
      BY <1>1, <2>1, <3>1, <3>3, <3>5, <3>6, <3>7, SyncEntryFacts
  <2>5. ASSUME NEW k \in Keys, reg'.entries[k].serving
        PROVE  /\ reg'.entries[k].scope \in Scopes
               /\ Addresses(reg'.entries[k].url, reg'.entries[k].scope)
    <3>1. /\ reg.entries[k].serving /\ reg'.entries[k].url = reg.entries[k].url
          /\ reg'.entries[k].scope = reg.entries[k].scope
             \/ reg.entries[k].scope = Unknown
      BY <1>1, <2>1, <2>5, SyncEntryFacts
    <3> QED
      BY <3>1, NullsDistinct DEF ScopesInv
  <2> QED
    BY <2>3, <2>4, <2>5 DEF ScopesInv
<1>4. CASE Outcome
  <2>1. want' = want /\ \A k \in Keys : Keeps(k) \/ Purged(k) \/ Made(k)
    BY <1>4 DEF Outcome
  <2>2. ASSUME NEW k \in Keys, want'[k] # Gone
        PROVE  /\ Exists(reg', k) /\ k \notin Removing(reg')
               /\ reg'.entries[k].scope = want'[k]
    <3>1. Exists(reg, k) /\ k \notin Removing(reg) /\ reg.entries[k].scope = want[k]
      BY <2>1, <2>2 DEF ScopesInv
    <3>2. Keeps(k)
      BY <2>1, <3>1 DEF Purged, Made
    <3> QED
      BY <2>1, <3>1, <3>2 DEF Keeps, Exists, Removing
  <2>3. ASSUME NEW c \in Clients, client'[c].phase = "ensure",
               Current(reg', client'[c].key, client'[c].gen)
        PROVE  reg'.entries[client'[c].key].scope = client'[c].scope
    BY <1>4, <2>3, ClientKeeps
  <2>4. ASSUME NEW k \in Keys, reg'.entries[k].serving
        PROVE  /\ reg'.entries[k].scope \in Scopes
               /\ Addresses(reg'.entries[k].url, reg'.entries[k].scope)
    <3>1. Keeps(k)
      BY <2>1, <2>4, AbsentFacts DEF Purged, Made
    <3>2. CASE reg.entries[k].serving /\ reg'.entries[k].url = reg.entries[k].url
      BY <3>1, <3>2 DEF Keeps, ScopesInv
    <3>3. CASE \E c \in Clients : Vouches(c, k, reg'.entries[k].url)
      BY <1>2, <3>1, <3>3 DEF Keeps, ScopesInv, Vouches
    <3> QED
      BY <2>4, <3>1, <3>2, <3>3 DEF Keeps
  <2> QED
    BY <2>2, <2>3, <2>4 DEF ScopesInv
<1> QED
  BY <1>3, <1>4, NextOutcomes

\* What serves was verified in the scope the entry is recorded under, when no
\* Sync misses a credential (registry.go Sync, Ready).
THEOREM ServesItsScope ==
  ASSUME ~Hiccups
  PROVE  Spec => []ServesOwnScope
<1>1. Init => ScopesInv
  <2> SUFFICES ASSUME Init PROVE ScopesInv
    OBVIOUS
  <2>1. \A k \in Keys : want[k] = Gone /\ ~reg.entries[k].serving
    BY AbsentFacts DEF Init, New
  <2>2. \A c \in Clients : client[c].phase # "ensure"
    BY DEF Init, NoHold
  <2> QED
    BY <2>1, <2>2 DEF ScopesInv
<1>2. IInv /\ ScopesInv /\ [Next]_vars => ScopesInv'
  BY NextScopes
<1>3. ScopesInv => ServesOwnScope
  BY DEF ScopesInv, ServesOwnScope, IsReady
<1> QED
  BY <1>1, <1>2, <1>3, Inductive, PTL DEF Spec

-----------------------------------------------------------------------------
(* The gates. *)

\* A pass leaves a gate alone or opens it.
LEMMA SyncGates ==
  ASSUME NEW e \in Entry, NEW m \in Wants
  PROVE  SyncEntry(e, m).wait \in {e.wait, 0}
<1>1. \A o : Fresh(o, m).wait = 0
  BY DEF Fresh
<1>2. Returned(e, m).wait = 0 /\ Left(e).wait = e.wait /\ Flipped(e, m).wait = 0
      /\ [e EXCEPT !.scope = m].wait = e.wait
  BY DEF Entry, Returned, Left, Flipped
<1>3. \/ SyncEntry(e, m) = Fresh(e.obj + 1, m)
      \/ SyncEntry(e, m) \in {Returned(e, m), Left(e), [e EXCEPT !.scope = m],
                              Flipped(e, m), e}
  BY DEF SyncEntry
<1> QED
  BY <1>1, <1>2, <1>3

\* A reload computes the gates again, from the last attempt.
LEMMA ReloadGates ==
  ASSUME IInv, NEW cfg \in Settings, NEW k \in Keys
  PROVE  Rearms(reg, UpdateSettings(reg, cfg), k)
<1> DEFINE e == reg.entries[k]
           f == Rearmed(e, cfg, reg.ready)
           U == UpdateSettings(reg, cfg)
           d == Delay(cfg, e.streak, reg.ready)
<1>1. /\ reg \in Registries /\ e \in Entry /\ reg.ready \in Int /\ cfg.pause \in Nat
      /\ e.wait \in Nat /\ e.age \in Nat
  BY DEF IInv, Sound, Registries, Entry, Settings
<1>2. U.entries[k] = f /\ U.cfg = cfg /\ U.ready = reg.ready
  BY <1>1 DEF UpdateSettings, Registries
<1>3. d \in Nat
  BY <1>1, DelayType DEF Entry
<1> HIDE DEF d, U
<1>4. Remaining(d, e.age) <= d
  BY <1>1, <1>3 DEF Remaining
<1>5. \A w : LET h == [e EXCEPT !.wait = w] IN
             h.wait = w /\ h.state = e.state /\ h.streak = e.streak /\ h.age = e.age
  BY <1>1 DEF Entry
<1>6. \/ f = e
      \/ e.state = "paused" /\ f = [e EXCEPT !.wait = Remaining(cfg.pause, e.age)]
      \/ e.state # "paused" /\ f = [e EXCEPT !.wait = Remaining(d, e.age)]
  BY DEF Rearmed, d
<1> HIDE DEF f
<1>7. CASE f = e
  BY <1>1, <1>2, <1>7 DEF Rearms, U
<1>8. CASE e.state = "paused" /\ f = [e EXCEPT !.wait = Remaining(cfg.pause, e.age)]
  BY <1>2, <1>5, <1>8 DEF Rearms, U
<1>9. CASE e.state # "paused" /\ f = [e EXCEPT !.wait = Remaining(d, e.age)]
  BY <1>2, <1>4, <1>5, <1>9 DEF Rearms, U, d
<1> QED
  BY <1>6, <1>7, <1>8, <1>9

\* A step on one entry is a step on that entry's gate.
LEMMA OneGate ==
  ASSUME IInv, NEW k \in Keys, Rearms(reg, reg', k),
         \A j \in Keys \ {k} : reg'.entries[j] = reg.entries[j]
  PROVE  \A j \in Keys : Rearms(reg, reg', j)
BY OpenedRearms DEF IInv, Sound

\* A completion arms one gate.
LEMMA EnsureGates ==
  ASSUME IInv, NEW c \in Clients, EnsureOutcome(c)
  PROVE  \A j \in Keys : Rearms(reg, reg', j)
<1> DEFINE k == client[c].key
           g == client[c].gen
<1>1. k \in Keys /\ Sound(reg) /\ client[c].phase = "ensure"
  BY DEF IInv, TypeOK, ClientStates, EnsureOutcome
<1>2. \A j \in Keys \ {k} : reg'.entries[j] = reg.entries[j]
  BY <1>1, EnsureFrames
<1>3. ASSUME NEW s \in EnterStates, reg' = Enter(reg, k, g, s, "")
      PROVE  Rearms(reg, reg', k)
  BY <1>1, <1>3, EnterRearms DEF EnterStates, States, Reasons
<1>4. ASSUME NEW ep \in Endpoints, reg' = Ready(reg, k, g, ep)
      PROVE  Rearms(reg, reg', k)
  BY <1>1, <1>4, ReadyRearms
<1>5. ASSUME NEW r \in FailReasons,
             \/ reg' = Failing(reg, k, g, r)
             \/ reg' = Demote(reg, k, g, r)
             \/ reg' = Pause(reg, k, g, r)
      PROVE  Rearms(reg, reg', k)
  <2>1. r \in Reasons
    BY ReasonsAreReasons
  <2> QED
    BY <1>1, <1>5, <2>1, FailingRearms, DemoteRearms, PauseRearms
<1>6. ASSUME reg' \in {DeferDrain(reg, k, g), DrainCompleted(reg, k, g),
                       ScopeMarkTaken(reg, k, g)}
      PROVE  Rearms(reg, reg', k)
  BY <1>1, <1>6, MarksRearm
<1>7. Rearms(reg, reg', k)
  BY <1>3, <1>4, <1>5, <1>6 DEF EnsureOutcome, Deliver, EnterStates
<1> QED
  BY <1>1, <1>2, <1>7, OneGate

\* What a remote delete answers arms one gate or purges.
LEMMA DeleteGates ==
  ASSUME IInv, NEW c \in Clients, DeleteOutcome(c)
  PROVE  \A j \in Keys : Rearms(reg, reg', j)
<1> DEFINE k == client[c].key
           g == client[c].gen
<1>1. k \in Keys /\ Sound(reg) /\ reg \in Registries
  BY DEF IInv, Sound, TypeOK, ClientStates, DeleteOutcome
<1>2. CASE reg' = DeleteFailed(reg, k, g, "delete_failed")
  <2>1. Rearms(reg, reg', k) /\ Kept(reg, reg', k)
    BY <1>1, <1>2, DeleteFailedRearms, DeleteFailedKept DEF Reasons
  <2> QED
    BY <1>1, <2>1, OneGate DEF Kept, Frame
<1>3. CASE reg' = DeleteDone(reg, k, g)
  <2>1. /\ \A j \in Keys \ {k} : reg'.entries[j] = reg.entries[j]
        /\ reg' = reg \/ reg'.entries[k] = Absent(reg.entries[k].obj)
    BY <1>1, <1>3, DeleteDoneSound
  <2>2. \A o : Absent(o).wait = 0
    BY DEF Absent, Fresh
  <2>3. Rearms(reg, reg', k)
    BY <1>1, <2>1, <2>2, OpenedRearms
  <2> QED
    BY <1>1, <2>1, <2>3, OneGate
<1> QED
  BY <1>2, <1>3 DEF DeleteOutcome

\* Taking a hold leaves the gate, or makes an entry whose gate is open.
LEMMA BeginGates ==
  ASSUME IInv, NEW k \in Keys, CanBegin(reg, k), reg' = Begin(reg, k)
  PROVE  \A j \in Keys : Rearms(reg, reg', j)
<1>1. Sound(reg) /\ reg \in Registries
  BY DEF IInv, Sound
<1>2. \A j \in Keys \ {k} : reg'.entries[j] = reg.entries[j]
  BY <1>1, BeginSound
<1>3. CASE Exists(reg, k)
  BY <1>1, <1>2, <1>3, MarksRearm, OneGate
<1>4. CASE ~Exists(reg, k)
  <2> DEFINE f == [Fresh(reg.entries[k].obj + 1, Unknown) EXCEPT !.busy = TRUE]
  <2>1. f.wait = 0
    BY DEF Fresh
  <2>2. reg' = With(reg, k, f)
    BY <1>4 DEF Begin
  <2> HIDE DEF f
  <2>3. reg'.entries[k] = f
    BY <1>1, <2>2 DEF With, Registries
  <2> QED
    BY <1>1, <1>2, <2>1, <2>3, OpenedRearms, OneGate
<1> QED
  BY <1>3, <1>4

\* Whatever moves a gate further away has armed it.
LEMMA NextGates ==
  ASSUME IInv, [Next]_vars
  PROVE  \A k \in Keys : Rearms(reg, reg', k)
<1>1. /\ Sound(reg) /\ reg \in Registries
      /\ \A k \in Keys : reg.entries[k] \in Entry /\ EntryOK(reg.entries[k])
  BY DEF IInv, Sound, Registries
<1>2. CASE reg' = reg
  BY <1>1, <1>2, OpenedRearms
<1>3. CASE SyncMembers
  <2>1. PICK m \in [Keys -> Wants] :
          \A k \in Keys : reg'.entries[k] = SyncEntry(reg.entries[k], m[k])
    BY <1>3, SyncOutcomes
  <2> QED
    BY <1>1, <2>1, SyncGates, OpenedRearms
<1>4. CASE Reload
  <2>1. PICK cfg \in Settings : reg' = UpdateSettings(reg, cfg)
    BY <1>4, SettingsAreSettings DEF Reload
  <2> QED
    BY <2>1, ReloadGates
<1>5. CASE Receive
  <2>1. reg'.entries = reg.entries
    BY <1>1, <1>5 DEF Receive, Received, Registries
  <2> QED
    BY <1>1, <2>1, OpenedRearms
<1>6. CASE Elapse
  <2> SUFFICES ASSUME NEW k \in Keys PROVE Rearms(reg, reg', k)
    OBVIOUS
  <2>1. reg'.entries[k] = Older(reg.entries[k])
    BY <1>1, <1>6 DEF Elapse, Tick, Registries
  <2>2. reg.entries[k].wait \in Nat
    BY <1>1 DEF Entry
  <2>3. Older(reg.entries[k]).wait <= reg.entries[k].wait
    BY <1>1, <2>2 DEF Older, Entry
  <2> QED
    BY <2>1, <2>3 DEF Rearms
<1>7. ASSUME NEW c \in Clients, Step(c) PROVE \A k \in Keys : Rearms(reg, reg', k)
  <2>1. ASSUME NEW k \in Keys, BeginEnsure(c, k) \/ BeginRemoteDelete(c, k)
        PROVE  \A j \in Keys : Rearms(reg, reg', j)
    <3>1. CanBegin(reg, k) /\ reg' = Begin(reg, k)
      BY <2>1 DEF BeginEnsure, BeginRemoteDelete, CanBeginDelete, CanBegin
    <3> QED
      BY <3>1, BeginGates
  <2>2. CASE LookAndResolve(c)
    BY <1>2, <2>2 DEF LookAndResolve
  <2>3. CASE EnsureOutcome(c)
    BY <2>3, EnsureGates
  <2>4. CASE DeleteOutcome(c)
    BY <2>4, DeleteGates
  <2>5. CASE Finish(c)
    <3>1. /\ client[c].key \in Keys
          /\ reg' = Release(reg, client[c].key, client[c].obj)
      BY <2>5 DEF Finish, IInv, TypeOK, ClientStates
    <3>2. \A j \in Keys \ {client[c].key} : reg'.entries[j] = reg.entries[j]
      BY <1>1, <3>1, ReleaseSound
    <3> QED
      BY <1>1, <3>1, <3>2, MarksRearm, OneGate
  <2> QED
    BY <1>7, <2>1, <2>2, <2>3, <2>4, <2>5 DEF Step
<1> QED
  BY <1>2, <1>3, <1>4, <1>5, <1>6, <1>7 DEF Next, vars

\* A gate armed by a step that leaves nothing serving obeys the ceiling, the
\* step that revokes the last admission included (registry.go Failing, Demote,
\* Pause, UpdateSettings).
THEOREM OutagesHeal == Spec => OutageHealsQuickly
<1>1. ASSUME IInv, [Next]_vars, NEW k \in Keys,
             ServingKeys(reg') = {}, reg'.cfg = reg.cfg,
             reg'.entries[k].state # "paused",
             reg'.entries[k].wait > reg.entries[k].wait
      PROVE  reg'.entries[k].wait <= reg.cfg.recover
  <2> DEFINE e == reg.entries[k]
             f == reg'.entries[k]
  <2>1. IInv' /\ reg \in Registries /\ e \in Entry /\ f \in Entry
    BY <1>1, NextIInv DEF IInv, Sound, Registries
  <2>2. ServingKeys(reg') = Served(reg')
    BY <2>1 DEF IInv, Sound, EntryOK, ServingKeys, Served, IsReady, Exists
  <2>3. reg'.ready = 0
    BY <1>1, <2>1, <2>2, FS_EmptySet DEF IInv, Sound
  <2>4. f.wait <= Delay(reg'.cfg, f.streak, 0)
    <3>1. Rearms(reg, reg', k)
      BY <1>1, NextGates
    <3>2. e.wait \in Nat /\ f.wait \in Nat
      BY <2>1 DEF Entry
    <3> QED
      BY <1>1, <2>3, <3>1, <3>2 DEF Rearms
  <2>5. Delay(reg.cfg, f.streak, 0) <= reg.cfg.recover
    BY <2>1, BackoffIsBounded DEF Registries, Entry
  <2>6. Delay(reg.cfg, f.streak, 0) \in Nat /\ f.wait \in Nat /\ reg.cfg.recover \in Nat
    BY <2>1, DelayType DEF Entry, Registries, Settings
  <2> QED
    BY <1>1, <2>4, <2>5, <2>6
<1>2. IInv /\ [Next]_vars =>
        [\A k \in Keys :
           /\ ServingKeys(reg') = {}
           /\ reg'.cfg = reg.cfg
           /\ reg'.entries[k].state # "paused"
           /\ reg'.entries[k].wait > reg.entries[k].wait
           => reg'.entries[k].wait <= reg.cfg.recover]_vars
  BY <1>1
<1> QED
  BY <1>2, Inductive, PTL DEF Spec, OutageHealsQuickly

\* A relay that stays paused is armed at the revival cadence and nothing else
\* (registry.go Failing, Enter, Pause, UpdateSettings).
THEOREM PausesKeepTheirCadence == Spec => PauseKeepsCadence
<1>1. ASSUME IInv, [Next]_vars, NEW k \in Keys,
             reg'.entries[k].state = "paused",
             reg'.entries[k].wait > reg.entries[k].wait
      PROVE  reg'.entries[k].wait = Remaining(reg'.cfg.pause, reg'.entries[k].age)
  <2>1. Rearms(reg, reg', k)
    BY <1>1, NextGates
  <2>2. IInv'
    BY <1>1, NextIInv
  <2>3. reg.entries[k].wait \in Nat /\ reg'.entries[k].wait \in Nat
    BY <1>1, <2>2 DEF IInv, Sound, Registries, Entry
  <2> QED
    BY <1>1, <2>1, <2>3 DEF Rearms
<1>2. IInv /\ [Next]_vars =>
        [\A k \in Keys :
           /\ reg.entries[k].state = "paused" /\ reg'.entries[k].state = "paused"
           /\ reg'.entries[k].wait > reg.entries[k].wait
           => reg'.entries[k].wait
                = Remaining(reg'.cfg.pause, reg'.entries[k].age)]_vars
  BY <1>1
<1> QED
  BY <1>2, Inductive, PTL DEF Spec, PauseKeepsCadence

-----------------------------------------------------------------------------
(***************************************************************************)
(* Where a shut gate stands: as far from the last attempt as the settings  *)
(* of now say.  An entry that is labelled as waiting was attempted, and    *)
(* has failed, so that the next reload finds it.                           *)
(***************************************************************************)
Waits(e) == e.serving \/ e.state \in {"failed", "unready"}

Gated(e, cfg) ==
  e.present /\ e.wait > 0 /\ e.age < AgeCap =>
    /\ Waits(e) => /\ e.attempted /\ e.streak > 0
                   /\ \E n \in {0, 1} : e.age + e.wait = Delay(cfg, e.streak, n)
    /\ e.state = "paused" => e.attempted /\ e.age + e.wait = cfg.pause

\* The outcome of an attempt that has just been stamped.
Stamped(R, k) ==
  LET e == R.entries[k] IN e.attempted /\ e.age = 0 /\ e.streak > 0

\* An open gate stands nowhere.
LEMMA OpenGated ==
  ASSUME NEW e, e.wait = 0, NEW cfg
  PROVE  Gated(e, cfg)
BY DEF Gated

\* What the internals leave of the fields a gate is counted from.
LEMMA InternalsGate ==
  ASSUME NEW R \in Registries, NEW k \in Keys
  PROVE  /\ \A state : /\ Labelled(R, k, state).entries[k]
                            = [R.entries[k] EXCEPT !.state = state]
                       /\ Labelled(R, k, state).cfg = R.cfg
         /\ Revoked(R, k).entries[k] = [R.entries[k] EXCEPT !.serving = FALSE]
         /\ Revoked(R, k).cfg = R.cfg
         /\ Parked(R, k).entries[k] = [R.entries[k] EXCEPT !.wait = R.cfg.pause]
         /\ Parked(R, k).cfg = R.cfg
         /\ Notified(R).entries = R.entries
         /\ Notified(R).cfg = R.cfg
<1> DEFINE e == R.entries[k]
           f == [e EXCEPT !.serving = FALSE]
<1>1. e \in Entry
  BY DEF Registries
<1>2. \A x : With(R, k, x).entries[k] = x /\ With(R, k, x).cfg = R.cfg
  BY DEF With, Registries
<1>3. ~e.serving => f = e
  BY <1>1 DEF Entry
<1>4. Revoked(R, k).entries[k] = f /\ Revoked(R, k).cfg = R.cfg
  <2>1. CASE ~e.serving
    BY <1>3, <2>1 DEF Revoked
  <2>2. CASE e.serving
    <3> DEFINE W == With(R, k, f)
    <3>1. Revoked(R, k) = [W EXCEPT !.ready = @ - 1]
      BY <2>2 DEF Revoked
    <3>2. [W EXCEPT !.ready = @ - 1].entries = W.entries
          /\ [W EXCEPT !.ready = @ - 1].cfg = W.cfg
      BY DEF With, Registries
    <3> QED
      BY <1>2, <3>1, <3>2
  <2> QED
    BY <2>1, <2>2
<1>5. Notified(R).entries = R.entries /\ Notified(R).cfg = R.cfg
  BY DEF Notified, NotifiedTimes, Registries
<1> QED
  BY <1>2, <1>4, <1>5 DEF Labelled, Parked

\* The bookkeeping stamps.
LEMMA AttemptedStamps ==
  ASSUME NEW R \in Registries, NEW k \in Keys, NEW streak \in Nat, NEW reason
  PROVE  LET A == Attempted(R, k, streak, reason) IN
         /\ streak > 0 => Stamped(A, k)
         /\ A.entries[k].attempted /\ A.entries[k].age = 0
         /\ A.cfg = R.cfg
<1> DEFINE e == R.entries[k]
           f == [e EXCEPT !.attempted = TRUE, !.age = 0, !.streak = streak,
                          !.reason = reason]
<1>1. e \in Entry
  BY DEF Registries
<1>2. f.attempted = TRUE /\ f.age = 0 /\ f.streak = streak
  BY <1>1 DEF Entry
<1> HIDE DEF f
<1>3. With(R, k, f).entries[k] = f /\ With(R, k, f).cfg = R.cfg
  BY DEF With, Registries
<1> QED
  BY <1>2, <1>3 DEF Attempted, Stamped, f

\* The backoff from the stamp, with the notification after it.
LEMMA BackedOffGated ==
  ASSUME NEW R \in Registries, NEW k \in Keys, Stamped(R, k),
         R.entries[k].state # "paused"
  PROVE  LET B == BackedOff(R, k) IN
         /\ Gated(B.entries[k], R.cfg) /\ B.cfg = R.cfg
         /\ Notified(B).entries[k] = B.entries[k] /\ Notified(B).cfg = R.cfg
<1> DEFINE e == R.entries[k]
           d == Delay(R.cfg, e.streak, R.ready)
           f == [e EXCEPT !.wait = d]
           B == BackedOff(R, k)
<1>1. e \in Entry /\ R.cfg \in Settings /\ R.ready \in Int
  BY DEF Registries
<1>2. d \in Nat
  BY <1>1, DelayType DEF Entry
<1>3. \E n \in {0, 1} : d = Delay(R.cfg, e.streak, n)
  BY DEF Delay
<1> HIDE DEF d
<1>4. /\ f \in Entry /\ f.wait = d /\ f.streak = e.streak /\ f.state = e.state
      /\ f.age = 0 /\ f.attempted /\ f.streak > 0
  BY <1>1, <1>2 DEF Entry, Stamped
<1> HIDE DEF f
<1>5. B = With(R, k, f)
  BY DEF BackedOff, f, d
<1>6. B.entries[k] = f /\ B.cfg = R.cfg /\ B \in Registries
  BY <1>4, <1>5, WithType DEF With, Registries
<1> HIDE DEF B
<1>7. Gated(f, R.cfg)
  <2>1. 0 + d = d
    BY <1>2
  <2> QED
    BY <1>3, <1>4, <2>1 DEF Gated
<1>8. Notified(B).entries = B.entries /\ Notified(B).cfg = B.cfg
  BY <1>6 DEF Notified, NotifiedTimes, Registries
<1> QED
  BY <1>6, <1>7, <1>8 DEF B

\* A stamped failure out of the pool; a stamped demotion.
LEMMA FailuresGated ==
  ASSUME NEW A, Sound(A), NEW k \in Keys, Stamped(A, k)
  PROVE  LET D == Demoted(A, k)
             O == OutOfPool(A, k)
         IN  /\ Gated(D.entries[k], A.cfg) /\ D.cfg = A.cfg
             /\ ~A.entries[k].serving => Gated(O.entries[k], A.cfg) /\ O.cfg = A.cfg
<1>0. A \in Registries /\ A.entries[k] \in Entry
  BY DEF Sound, Registries
<1>1. Gated(Demoted(A, k).entries[k], A.cfg) /\ Demoted(A, k).cfg = A.cfg
  <2> DEFINE a == A.entries[k]
             v == [a EXCEPT !.serving = FALSE]
             l == [v EXCEPT !.state = "unready"]
             V == Revoked(A, k)
             L == Labelled(V, k, "unready")
  <2>1. /\ v \in Entry /\ v.attempted = a.attempted /\ v.age = a.age
        /\ v.streak = a.streak /\ ~v.serving
    BY <1>0 DEF Entry
  <2>2. V.entries[k] = v /\ V.cfg = A.cfg
    BY <1>0, InternalsGate
  <2>3. Sound(V)
    BY RevokedSound DEF Sound
  <2> HIDE DEF v, V
  <2>4. /\ l.attempted = v.attempted /\ l.age = v.age /\ l.streak = v.streak
        /\ l.state = "unready"
    BY <2>1 DEF Entry
  <2>5. Sound(L)
    BY <2>1, <2>2, <2>3, LabelledSound DEF States
  <2>6. L.entries[k] = l /\ L.cfg = A.cfg
    <3>1. V \in Registries
      BY <2>3 DEF Sound
    <3>2. /\ L.entries[k] = [V.entries[k] EXCEPT !.state = "unready"]
          /\ L.cfg = V.cfg
      BY <3>1, InternalsGate
    <3> QED
      BY <2>2, <3>2
  <2> HIDE DEF l
  <2>7. Demoted(A, k) = Notified(BackedOff(L, k))
    BY DEF Demoted, L, V
  <2> HIDE DEF L
  <2>8. L \in Registries /\ Stamped(L, k) /\ L.entries[k].state # "paused"
    BY <2>1, <2>4, <2>5, <2>6 DEF Stamped, Sound
  <2> QED
    BY <2>6, <2>7, <2>8, BackedOffGated
<1>2. ASSUME ~A.entries[k].serving
      PROVE  Gated(OutOfPool(A, k).entries[k], A.cfg) /\ OutOfPool(A, k).cfg = A.cfg
  <2> DEFINE a == A.entries[k]
             l == [a EXCEPT !.state = "failed"]
             L == Labelled(A, k, "failed")
             N == Notified(L)
             B == IF a.state \in {"unready", "failed"} THEN A ELSE N
  <2>1. /\ l.attempted = a.attempted /\ l.age = a.age /\ l.streak = a.streak
        /\ l.state = "failed"
    BY <1>0 DEF Entry
  <2>2. Sound(L)
    BY <1>2, LabelledSound DEF States
  <2>3. L.entries[k] = l /\ L.cfg = A.cfg
    BY <1>0, InternalsGate
  <2> HIDE DEF l
  <2>4. OutOfPool(A, k) = BackedOff(B, k)
    BY DEF OutOfPool
  <2> HIDE DEF L
  <2>5. Sound(N) /\ N.entries = L.entries /\ N.cfg = L.cfg
    <3>1. Sound(N)
      BY <2>2, NotifiedSound DEF Notified
    <3>2. L \in Registries
      BY <2>2 DEF Sound
    <3> QED
      BY <3>1, <3>2, InternalsGate
  <2> HIDE DEF N
  <2>6. /\ B \in Registries /\ B.cfg = A.cfg /\ Stamped(B, k)
        /\ B.entries[k].state # "paused"
    BY <1>0, <2>1, <2>3, <2>5 DEF Stamped, Sound
  <2> HIDE DEF B
  <2> QED
    BY <2>4, <2>6, BackedOffGated
<1> QED
  BY <1>1, <1>2

\* An answer that is a failure arms the gate from its stamp, or the cadence.
LEMMA FailingGated ==
  ASSUME NEW R, Sound(R), NEW k \in Keys, NEW g, NEW reason \in Reasons,
         Gated(R.entries[k], R.cfg)
  PROVE  LET S == Failing(R, k, g, reason) IN
         Gated(S.entries[k], R.cfg) /\ S.cfg = R.cfg
<1> DEFINE e == R.entries[k]
           A == Attempted(R, k, Bump(e.streak), reason)
           S == Failing(R, k, g, reason)
<1>1. Bump(e.streak) \in 0 .. StreakCap /\ Bump(e.streak) > 0 /\ Bump(e.streak) \in Nat
  <2>1. e.streak \in 0 .. StreakCap
    BY DEF Sound, Registries, Entry
  <2> QED
    BY <2>1, BoundsAreNat DEF Bump, Least
<1>2. R \in Registries /\ EntryOK(e)
  BY DEF Sound
<1>3. Sound(A) /\ A.entries[k].state = e.state /\ A.entries[k].serving = e.serving
      /\ A \in Registries
  BY <1>1, <1>2, AttemptedSound, AttemptedAge DEF Sound
<1>4. Stamped(A, k) /\ A.cfg = R.cfg
  BY <1>1, <1>2, AttemptedStamps
<1>5. \/ S = R
      \/ e.state = "paused" /\ ~e.serving /\ S = Parked(A, k)
      \/ e.serving /\ S = BackedOff(A, k)
      \/ ~e.serving /\ S = OutOfPool(A, k)
      \/ S = Demoted(A, k)
  BY DEF Failing
<1> HIDE DEF A, S
<1>6. CASE S = R
  BY <1>6 DEF S
<1>7. CASE e.state = "paused" /\ ~e.serving /\ S = Parked(A, k)
  <2> DEFINE a == A.entries[k]
             p == [a EXCEPT !.wait = A.cfg.pause]
  <2>1. S.entries[k] = p /\ S.cfg = R.cfg
    BY <1>3, <1>4, <1>7, InternalsGate
  <2>2. a \in Entry /\ a.attempted /\ a.age = 0
    BY <1>3, <1>4 DEF Registries, Stamped
  <2>3. /\ p.wait = R.cfg.pause /\ p.age = 0 /\ p.attempted
        /\ p.state = "paused" /\ ~p.serving
    BY <1>3, <1>4, <1>7, <2>2 DEF Entry
  <2> HIDE DEF p
  <2>4. 0 + R.cfg.pause = R.cfg.pause
    BY <1>2 DEF Registries, Settings
  <2>5. Gated(p, R.cfg)
    BY <2>3, <2>4 DEF Gated, Waits
  <2> QED
    BY <2>1, <2>5 DEF S
<1>8. CASE e.serving /\ S = BackedOff(A, k)
  <2>1. A.entries[k].state # "paused"
    BY <1>2, <1>3, <1>8 DEF EntryOK, Out
  <2>2. Gated(BackedOff(A, k).entries[k], R.cfg) /\ BackedOff(A, k).cfg = R.cfg
    BY <1>3, <1>4, <2>1, BackedOffGated
  <2> QED
    BY <1>8, <2>2 DEF S
<1>9. CASE (~e.serving /\ S = OutOfPool(A, k)) \/ S = Demoted(A, k)
  <2>1. Gated(S.entries[k], A.cfg) /\ S.cfg = A.cfg
    BY <1>3, <1>4, <1>9, FailuresGated
  <2> QED
    BY <1>4, <2>1 DEF S
<1> QED
  BY <1>5, <1>6, <1>7, <1>8, <1>9

\* So does a demotion.
LEMMA DemoteGated ==
  ASSUME NEW R, Sound(R), NEW k \in Keys, NEW g, NEW reason \in Reasons,
         Gated(R.entries[k], R.cfg)
  PROVE  LET S == Demote(R, k, g, reason) IN
         Gated(S.entries[k], R.cfg) /\ S.cfg = R.cfg
<1> DEFINE e == R.entries[k]
           n == Least(R.cfg.demoteAfter, StreakCap)
           A == Attempted(R, k, n, reason)
           S == Demote(R, k, g, reason)
<1>1. n \in 0 .. StreakCap /\ n > 0 /\ n \in Nat
  <2>1. R.cfg.demoteAfter \in Nat \ {0}
    BY DEF Sound, Registries, Settings
  <2> QED
    BY <2>1, BoundsAreNat DEF Least
<1>2. R \in Registries
  BY DEF Sound
<1> HIDE DEF n
<1>3. Sound(A) /\ A.entries[k].serving = e.serving
  BY <1>1, AttemptedSound
<1>4. Stamped(A, k) /\ A.cfg = R.cfg
  BY <1>1, <1>2, AttemptedStamps
<1>5. \/ S = R
      \/ ~e.serving /\ S = OutOfPool(A, k)
      \/ S = Demoted(A, k)
  BY DEF Demote, n
<1> HIDE DEF A, S
<1>6. CASE S = R
  BY <1>6 DEF S
<1>7. CASE (~e.serving /\ S = OutOfPool(A, k)) \/ S = Demoted(A, k)
  <2>1. Gated(S.entries[k], A.cfg) /\ S.cfg = A.cfg
    BY <1>3, <1>4, <1>7, FailuresGated
  <2> QED
    BY <1>4, <2>1 DEF S
<1> QED
  BY <1>5, <1>6, <1>7

\* A pause arms the cadence.
LEMMA PauseGated ==
  ASSUME NEW R, Sound(R), NEW k \in Keys, NEW g, NEW reason \in Reasons,
         Gated(R.entries[k], R.cfg)
  PROVE  LET S == Pause(R, k, g, reason) IN
         Gated(S.entries[k], R.cfg) /\ S.cfg = R.cfg
<1> DEFINE A == Attempted(R, k, R.entries[k].streak, reason)
           a == A.entries[k]
           p == [a EXCEPT !.wait = A.cfg.pause]
           l == [p EXCEPT !.state = "paused"]
           v == [l EXCEPT !.serving = FALSE]
           P == Parked(A, k)
           L == Labelled(P, k, "paused")
           V == Revoked(L, k)
           S == Pause(R, k, g, reason)
<1>1. R \in Registries /\ R.entries[k].streak \in 0 .. StreakCap
      /\ R.entries[k].streak \in Nat /\ R.cfg.pause \in Nat
  BY BoundsAreNat DEF Sound, Registries, Entry, Settings
<1>2. S = R \/ S = Notified(V)
  BY DEF Pause
<1>3. A \in Registries /\ a.attempted /\ a.age = 0 /\ A.cfg = R.cfg
  BY <1>1, AttemptedSound, AttemptedStamps DEF Sound
<1> HIDE DEF A
<1>4. a \in Entry /\ A.cfg.pause \in Nat
  BY <1>1, <1>3 DEF Registries
<1>5. p \in Entry /\ p.wait = R.cfg.pause /\ p.age = 0 /\ p.attempted
  BY <1>3, <1>4 DEF Entry
<1>6. P.entries[k] = p /\ P.cfg = R.cfg /\ P \in Registries
  <2>1. P.entries[k] = p /\ P.cfg = R.cfg
    BY <1>3, InternalsGate
  <2> QED
    BY <1>1, <1>3, <2>1, InternalsType DEF Reasons, States
<1> HIDE DEF P, p
<1>7. l \in Entry /\ l.wait = R.cfg.pause /\ l.age = 0 /\ l.attempted /\ l.state = "paused"
  BY <1>5 DEF Entry, States
<1>8. L.entries[k] = l /\ L.cfg = R.cfg /\ L \in Registries
  <2>1. /\ L.entries[k] = [P.entries[k] EXCEPT !.state = "paused"]
        /\ L.cfg = P.cfg
    BY <1>6, InternalsGate
  <2> QED
    BY <1>1, <1>6, <2>1, InternalsType DEF Reasons, States
<1> HIDE DEF L, l
<1>9. /\ v.wait = R.cfg.pause /\ v.age = 0 /\ v.attempted /\ v.state = "paused"
      /\ ~v.serving
  BY <1>7 DEF Entry
<1>10. V.entries[k] = v /\ V.cfg = R.cfg /\ V \in Registries
  <2>1. V.entries[k] = [L.entries[k] EXCEPT !.serving = FALSE] /\ V.cfg = L.cfg
    BY <1>8, InternalsGate
  <2> QED
    BY <1>1, <1>8, <2>1, InternalsType DEF Reasons, States
<1> HIDE DEF V, v
<1>11. Notified(V).entries[k] = v /\ Notified(V).cfg = R.cfg
  BY <1>10, InternalsGate
<1>12. Gated(v, R.cfg)
  <2>1. 0 + R.cfg.pause = R.cfg.pause
    BY <1>1
  <2> QED
    BY <1>9, <2>1 DEF Gated, Waits
<1> QED
  BY <1>2, <1>11, <1>12

\* Whatever leaves the fields the gate is counted from, and labels nobody as
\* waiting, leaves the gate where it stands.
LEMMA SameGated ==
  ASSUME NEW e, NEW f, NEW cfg, Gated(e, cfg), f.present => e.present,
         f.wait = e.wait, f.age = e.age, f.streak = e.streak,
         f.attempted = e.attempted, Waits(f) => Waits(e),
         f.state = "paused" => e.state = "paused"
  PROVE  Gated(f, cfg)
BY DEF Gated

\* The other answers open the gate or leave it.
LEMMA CallsGated ==
  ASSUME NEW R, Sound(R), NEW k \in Keys, NEW g, Gated(R.entries[k], R.cfg)
  PROVE  /\ \A s \in EnterStates :
              LET S == Enter(R, k, g, s, "") IN
              Gated(S.entries[k], R.cfg) /\ S.cfg = R.cfg
         /\ \A ep \in Endpoints : LET S == Ready(R, k, g, ep) IN
              Gated(S.entries[k], R.cfg) /\ S.cfg = R.cfg
<1> DEFINE e == R.entries[k]
<1>1. R \in Registries /\ e \in Entry
  BY DEF Sound, Registries
<1>2. \A f : With(R, k, f).entries[k] = f /\ With(R, k, f).cfg = R.cfg
  BY <1>1 DEF With, Registries
<1>3. ASSUME NEW s \in EnterStates
      PROVE  /\ Gated(Enter(R, k, g, s, "").entries[k], R.cfg)
             /\ Enter(R, k, g, s, "").cfg = R.cfg
  <2> DEFINE m == [e EXCEPT !.state = s, !.reason = ""]
             p == [m EXCEPT !.streak = 0, !.wait = 0]
             S == Enter(R, k, g, s, "")
  <2>1. /\ m.present = e.present /\ m.wait = e.wait /\ m.age = e.age
        /\ m.streak = e.streak /\ m.attempted = e.attempted
        /\ m.serving = e.serving /\ m.state = s /\ m \in Entry
    BY <1>1 DEF Entry, EnterStates, States, Reasons
  <2>2. p.wait = 0 /\ p \in Entry
    <3> HIDE DEF m
    <3>1. 0 \in 0 .. StreakCap /\ 0 \in Nat
      BY BoundsAreNat
    <3> QED
      BY <2>1, <3>1 DEF Entry
  <2>3. \/ S = R
        \/ \E f \in {m, p}, c \in BOOLEAN : S = NotifiedIf(With(R, k, f), c)
    BY DEF Enter
  <2> HIDE DEF m, p, S
  <2>4. \A f \in {m, p}, c \in BOOLEAN :
          /\ NotifiedIf(With(R, k, f), c).entries[k] = f
          /\ NotifiedIf(With(R, k, f), c).cfg = R.cfg
    <3> SUFFICES ASSUME NEW f \in {m, p}, NEW c \in BOOLEAN
                 PROVE  /\ NotifiedIf(With(R, k, f), c).entries[k] = f
                        /\ NotifiedIf(With(R, k, f), c).cfg = R.cfg
      OBVIOUS
    <3> DEFINE W == With(R, k, f)
    <3>1. W \in Registries /\ W.entries[k] = f /\ W.cfg = R.cfg
      BY <1>1, <1>2, <2>1, <2>2, WithType
    <3> HIDE DEF W
    <3>2. Notified(W).entries = W.entries /\ Notified(W).cfg = W.cfg
      BY <3>1, InternalsGate
    <3>3. NotifiedIf(W, c) = W \/ NotifiedIf(W, c) = Notified(W)
      BY DEF NotifiedIf
    <3> QED
      BY <3>1, <3>2, <3>3 DEF W
  <2>5. Gated(m, R.cfg)
    <3>1. Waits(m) => Waits(e)
      BY <2>1 DEF Waits, EnterStates
    <3>2. m.state # "paused"
      BY <2>1 DEF EnterStates
    <3> QED
      BY <2>1, <3>1, <3>2 DEF Gated
  <2>6. Gated(p, R.cfg)
    BY <2>2, OpenGated
  <2> QED
    BY <2>3, <2>4, <2>5, <2>6 DEF S
<1>4. ASSUME NEW ep \in Endpoints
      PROVE  /\ Gated(Ready(R, k, g, ep).entries[k], R.cfg)
             /\ Ready(R, k, g, ep).cfg = R.cfg
  <2> DEFINE f == [e EXCEPT !.url = ep, !.state = "ready", !.reason = "",
                            !.attempted = TRUE, !.age = 0, !.streak = 0,
                            !.drainPending = FALSE, !.scopeChanged = FALSE,
                            !.wait = 0, !.serving = TRUE]
             W == With(R, k, f)
             S == Ready(R, k, g, ep)
  <2>1. f.wait = 0
    BY <1>1 DEF Entry
  <2>2. S = R \/ S = W \/ S = Notified([W EXCEPT !.ready = @ + 1])
    BY DEF Ready
  <2> HIDE DEF f, S
  <2>3. /\ Notified([W EXCEPT !.ready = @ + 1]).entries = W.entries
        /\ Notified([W EXCEPT !.ready = @ + 1]).cfg = W.cfg
    BY <1>1 DEF With, Notified, NotifiedTimes, Registries
  <2>4. W.entries[k] = f /\ W.cfg = R.cfg
    BY <1>2
  <2> HIDE DEF W
  <2> QED
    BY <2>1, <2>2, <2>3, <2>4, OpenGated DEF S
<1> QED
  BY <1>3, <1>4

\* Marks and holds leave a gate, or make an entry whose gate is open.
LEMMA MarksGated ==
  ASSUME NEW R, Sound(R), NEW k \in Keys, NEW g, NEW o, Gated(R.entries[k], R.cfg),
         NEW S, \/ S = DeferDrain(R, k, g) \/ S = DrainCompleted(R, k, g)
                \/ S = ScopeMarkTaken(R, k, g)
                \/ S = Release(R, k, o) \/ S = Begin(R, k)
  PROVE  Gated(S.entries[k], R.cfg) /\ S.cfg = R.cfg
<1> DEFINE e == R.entries[k]
           F == {[e EXCEPT !.drainPending = TRUE], [e EXCEPT !.drainPending = FALSE],
                 [e EXCEPT !.scopeChanged = FALSE], [e EXCEPT !.busy = FALSE],
                 [e EXCEPT !.busy = TRUE]}
           n == [Fresh(e.obj + 1, Unknown) EXCEPT !.busy = TRUE]
<1>1. R \in Registries /\ e \in Entry
  BY DEF Sound, Registries
<1>2. \A f : With(R, k, f).entries[k] = f /\ With(R, k, f).cfg = R.cfg
  BY <1>1 DEF With, Registries
<1>3. \A f \in F : /\ f.present = e.present /\ f.wait = e.wait /\ f.age = e.age
                   /\ f.streak = e.streak /\ f.attempted = e.attempted
                   /\ f.serving = e.serving /\ f.state = e.state
  BY <1>1 DEF Entry
<1>4. n.wait = 0
  BY DEF Fresh
<1>5. S = R \/ S = With(R, k, n) \/ \E f \in F : S = With(R, k, f)
  BY DEF DeferDrain, DrainCompleted, ScopeMarkTaken, Release, Begin
<1> HIDE DEF F, n
<1>6. \A f \in F : Gated(f, R.cfg)
  BY <1>3, SameGated DEF Waits
<1>7. Gated(n, R.cfg)
  BY <1>4, OpenGated
<1> QED
  BY <1>2, <1>5, <1>6, <1>7

\* Every gate stands where the settings put it.
GatesInv == \A k \in Keys : Gated(reg.entries[k], reg.cfg)

LEMMA OneGated ==
  ASSUME GatesInv, NEW k \in Keys, Gated(reg'.entries[k], reg.cfg),
         reg'.cfg = reg.cfg,
         \A j \in Keys \ {k} : reg'.entries[j] = reg.entries[j]
  PROVE  GatesInv'
<1> SUFFICES ASSUME NEW j \in Keys PROVE Gated(reg'.entries[j], reg'.cfg)
  BY DEF GatesInv
<1>1. CASE j = k BY <1>1
<1>2. CASE j # k BY <1>2 DEF GatesInv
<1> QED
  BY <1>1, <1>2

\* A completion, of an ensure and of a delete.
LEMMA OutcomesGated ==
  ASSUME IInv, GatesInv, NEW c \in Clients, EnsureOutcome(c) \/ DeleteOutcome(c)
  PROVE  GatesInv'
<1> DEFINE k == client[c].key
           g == client[c].gen
           e == reg.entries[k]
<1>1. k \in Keys /\ Sound(reg) /\ reg \in Registries /\ e \in Entry /\ EntryOK(e)
  BY DEF IInv, Sound, Registries, TypeOK, ClientStates
<1>2. Gated(e, reg.cfg)
  BY <1>1 DEF GatesInv
<1>3. CASE EnsureOutcome(c)
  <2>1. \A j \in Keys \ {k} : reg'.entries[j] = reg.entries[j]
    BY <1>3, EnsureFrames
  <2>2. ASSUME NEW s \in EnterStates, reg' = Enter(reg, k, g, s, "")
        PROVE  Gated(reg'.entries[k], reg.cfg) /\ reg'.cfg = reg.cfg
    BY <1>1, <1>2, <2>2, CallsGated
  <2>3. ASSUME NEW ep \in Endpoints, reg' = Ready(reg, k, g, ep)
        PROVE  Gated(reg'.entries[k], reg.cfg) /\ reg'.cfg = reg.cfg
    BY <1>1, <1>2, <2>3, CallsGated
  <2>4. ASSUME NEW r \in FailReasons,
               \/ reg' = Failing(reg, k, g, r)
               \/ reg' = Demote(reg, k, g, r)
               \/ reg' = Pause(reg, k, g, r)
        PROVE  Gated(reg'.entries[k], reg.cfg) /\ reg'.cfg = reg.cfg
    <3>1. r \in Reasons
      BY ReasonsAreReasons
    <3> QED
      BY <1>1, <1>2, <2>4, <3>1, FailingGated, DemoteGated, PauseGated
  <2>5. ASSUME reg' \in {DeferDrain(reg, k, g), DrainCompleted(reg, k, g),
                         ScopeMarkTaken(reg, k, g)}
        PROVE  Gated(reg'.entries[k], reg.cfg) /\ reg'.cfg = reg.cfg
    BY <1>1, <1>2, <2>5, MarksGated
  <2>6. Gated(reg'.entries[k], reg.cfg) /\ reg'.cfg = reg.cfg
    BY <1>3, <2>2, <2>3, <2>4, <2>5 DEF EnsureOutcome, Deliver, EnterStates
  <2> QED
    BY <1>1, <2>1, <2>6, OneGated
<1>4. CASE DeleteOutcome(c) /\ reg' = DeleteDone(reg, k, g)
  <2>1. /\ \A j \in Keys \ {k} : reg'.entries[j] = reg.entries[j]
        /\ reg' = reg \/ reg'.entries[k] = Absent(e.obj)
    BY <1>1, <1>4, DeleteDoneSound
  <2>2. ~Absent(e.obj).present
    BY DEF Absent, Fresh
  <2>3. reg'.cfg = reg.cfg
    BY <1>1, <1>4 DEF DeleteDone, With, Notified, NotifiedTimes, Registries
  <2>4. Gated(reg'.entries[k], reg.cfg)
    BY <1>2, <2>1, <2>2 DEF Gated
  <2> QED
    BY <1>1, <2>1, <2>3, <2>4, OneGated
<1>5. CASE DeleteOutcome(c) /\ reg' = DeleteFailed(reg, k, g, "delete_failed")
  <2>1. Kept(reg, reg', k)
    BY <1>1, <1>5, DeleteFailedKept DEF Reasons
  <2>2. CASE reg' = reg
    BY <2>2 DEF GatesInv
  <2>3. CASE reg' # reg
    <3>1. e.state = "removing" /\ ~e.serving
      BY <1>1, <1>5, <2>3 DEF DeleteFailed, EntryOK, Out
    <3>2. reg'.entries[k].state = "removing" /\ ~reg'.entries[k].serving
      <4>1. Softens(reg, reg', k)
        BY <1>1, <1>5, DeleteFailedSoftens DEF Reasons
      <4> QED
        BY <2>1, <3>1, <4>1 DEF Kept, Softens
    <3>3. Gated(reg'.entries[k], reg.cfg)
      BY <3>2 DEF Gated, Waits
    <3> QED
      BY <1>1, <2>1, <3>3, OneGated DEF Kept, Frame
  <2> QED
    BY <2>2, <2>3
<1> QED
  BY <1>3, <1>4, <1>5 DEF DeleteOutcome

\* A pass: what appears, returns or moves has an open gate, what leaves waits
\* no more.
LEMMA SyncGated ==
  ASSUME NEW e \in Entry, NEW m \in Wants, NEW cfg, Gated(e, cfg)
  PROVE  Gated(SyncEntry(e, m), cfg)
<1>1. \A o : Fresh(o, m).wait = 0
  BY DEF Fresh
<1>2. Returned(e, m).wait = 0 /\ Flipped(e, m).wait = 0
  BY DEF Entry, Returned, Flipped
<1>3. ~Left(e).serving /\ Left(e).state = "removing"
  BY DEF Entry, Left
<1>4. ASSUME NEW f, f = [e EXCEPT !.scope = m] PROVE Gated(f, cfg)
  <2>1. /\ f.present = e.present /\ f.wait = e.wait /\ f.age = e.age
        /\ f.streak = e.streak /\ f.attempted = e.attempted
        /\ f.serving = e.serving /\ f.state = e.state
    BY <1>4 DEF Entry
  <2> QED
    BY <2>1, SameGated DEF Waits
<1>5. Gated(Left(e), cfg)
  BY <1>3 DEF Gated, Waits
<1>6. \/ SyncEntry(e, m) = Fresh(e.obj + 1, m)
      \/ SyncEntry(e, m) \in {Returned(e, m), Left(e), [e EXCEPT !.scope = m],
                              Flipped(e, m), e}
  BY DEF SyncEntry
<1> QED
  BY <1>1, <1>2, <1>4, <1>5, <1>6, OpenGated

\* A reload: who waits is counted again, from the attempt.
LEMMA ReloadGated ==
  ASSUME NEW e \in Entry, EntryOK(e), NEW old, Gated(e, old),
         NEW cfg \in Settings, NEW ready \in Int
  PROVE  Gated(Rearmed(e, cfg, ready), cfg)
<1> DEFINE f == Rearmed(e, cfg, ready)
           d == Delay(cfg, e.streak, ready)
<1>1. d \in Nat /\ cfg.pause \in Nat /\ e.age \in Nat
  BY DelayType DEF Entry, Settings
<1>2. \E n \in {0, 1} : d = Delay(cfg, e.streak, n)
  BY DEF Delay
<1> HIDE DEF d
<1>3. \A w : LET h == [e EXCEPT !.wait = w] IN
             /\ h.wait = w /\ h.state = e.state /\ h.streak = e.streak
             /\ h.age = e.age /\ h.attempted = e.attempted
             /\ h.serving = e.serving /\ h.present = e.present
  BY DEF Entry
<1>4. CASE e.present /\ e.attempted /\ e.state = "paused"
  <2>1. f = [e EXCEPT !.wait = Remaining(cfg.pause, e.age)]
    BY <1>4 DEF Rearmed
  <2> HIDE DEF f
  <2>2. f.wait = Remaining(cfg.pause, e.age) /\ f.age = e.age /\ f.attempted
        /\ f.state = "paused" /\ ~f.serving
    BY <1>3, <1>4, <2>1 DEF EntryOK, Out
  <2>3. f.wait > 0 => f.age + f.wait = cfg.pause
    BY <1>1, <2>2 DEF Remaining
  <2> QED
    BY <2>2, <2>3 DEF Gated, Waits, f
<1>5. CASE e.present /\ e.attempted /\ e.state # "paused" /\ e.streak > 0
  <2>1. f = [e EXCEPT !.wait = Remaining(d, e.age)]
    BY <1>5 DEF Rearmed, d
  <2> HIDE DEF f
  <2>2. f.wait = Remaining(d, e.age) /\ f.age = e.age /\ f.attempted
        /\ f.state # "paused" /\ f.streak = e.streak
    BY <1>3, <1>5, <2>1
  <2>3. f.wait > 0 => f.age + f.wait = d
    BY <1>1, <2>2 DEF Remaining
  <2> QED
    BY <1>2, <1>5, <2>2, <2>3 DEF Gated, f
<1>6. CASE ~(e.present /\ e.attempted /\ (e.state = "paused" \/ e.streak > 0))
  <2>1. f = e
    BY <1>6 DEF Rearmed
  <2>2. Gated(e, cfg)
    BY <1>6 DEF Gated
  <2> QED
    BY <2>1, <2>2
<1> QED
  BY <1>4, <1>5, <1>6

\* The clock takes from the gate what it adds to the age.
LEMMA OlderGated ==
  ASSUME NEW e \in Entry, NEW cfg \in Settings, Gated(e, cfg)
  PROVE  Gated(Older(e), cfg)
<1> DEFINE w == IF e.wait > 0 THEN e.wait - 1 ELSE 0
           a == IF e.attempted THEN Least(e.age + 1, AgeCap) ELSE e.age
           f == [e EXCEPT !.wait = w, !.age = a]
<1>1. e.wait \in Nat /\ e.age \in Nat /\ AgeCap \in Nat
  BY BoundsAreNat DEF Entry
<1>2. Older(e) = f
  BY DEF Older, Entry
<1>3. /\ f.wait = w /\ f.age = a /\ f.state = e.state /\ f.streak = e.streak
      /\ f.attempted = e.attempted /\ f.serving = e.serving /\ f.present = e.present
  BY DEF Entry
<1>4. w > 0 /\ a < AgeCap /\ e.attempted =>
        e.wait > 0 /\ e.age < AgeCap /\ a + w = e.age + e.wait
  BY <1>1 DEF Least
<1>5. w > 0 /\ a < AgeCap => e.wait > 0 /\ e.age < AgeCap
  BY <1>1 DEF Least
<1> HIDE DEF f, w, a
<1>6. Gated(f, cfg)
  <2> SUFFICES ASSUME f.present, f.wait > 0, f.age < AgeCap
               PROVE  /\ Waits(f) => /\ f.attempted /\ f.streak > 0
                                     /\ \E n \in {0, 1} :
                                          f.age + f.wait = Delay(cfg, f.streak, n)
                      /\ f.state = "paused" => f.attempted /\ f.age + f.wait = cfg.pause
    BY DEF Gated
  <2>1. e.present /\ e.wait > 0 /\ e.age < AgeCap
    BY <1>3, <1>5
  <2>2. e.attempted => f.age + f.wait = e.age + e.wait
    BY <1>3, <1>4
  <2> QED
    BY <1>3, <2>1, <2>2 DEF Gated, Waits
<1> QED
  BY <1>2, <1>6

\* So every step leaves the gates where the settings put them.
LEMMA NextGated ==
  ASSUME IInv, GatesInv, [Next]_vars
  PROVE  GatesInv'
<1>1. /\ Sound(reg) /\ reg \in Registries /\ reg.ready \in Int /\ reg.cfg \in Settings
      /\ \A k \in Keys : reg.entries[k] \in Entry /\ EntryOK(reg.entries[k])
  BY DEF IInv, Sound, Registries
<1>2. CASE reg' = reg
  BY <1>2 DEF GatesInv
<1>3. CASE SyncMembers
  <2>1. PICK m \in [Keys -> Wants] :
          \A k \in Keys : reg'.entries[k] = SyncEntry(reg.entries[k], m[k])
    BY <1>3, SyncOutcomes
  <2>2. reg'.cfg = reg.cfg
    BY <1>1, <1>3 DEF SyncMembers, Sync, NotifiedTimes, Registries
  <2>3. ASSUME NEW k \in Keys PROVE Gated(reg'.entries[k], reg'.cfg)
    BY <1>1, <2>1, <2>2, SyncGated DEF GatesInv
  <2> QED
    BY <2>3 DEF GatesInv
<1>4. CASE Reload
  <2>1. PICK cfg \in Settings : reg' = UpdateSettings(reg, cfg)
    BY <1>4, SettingsAreSettings DEF Reload
  <2>2. /\ reg'.cfg = cfg
        /\ \A k \in Keys :
             reg'.entries[k] = Rearmed(reg.entries[k], cfg, reg.ready)
    BY <1>1, <2>1 DEF UpdateSettings, Registries
  <2>3. ASSUME NEW k \in Keys PROVE Gated(reg'.entries[k], reg'.cfg)
    BY <1>1, <2>2, ReloadGated DEF GatesInv
  <2> QED
    BY <2>3 DEF GatesInv
<1>5. CASE Receive
  <2>1. reg'.entries = reg.entries /\ reg'.cfg = reg.cfg
    BY <1>1, <1>5 DEF Receive, Received, Registries
  <2> QED
    BY <2>1 DEF GatesInv
<1>6. CASE Elapse
  <2>1. /\ reg'.cfg = reg.cfg
        /\ \A k \in Keys : reg'.entries[k] = Older(reg.entries[k])
    BY <1>1, <1>6 DEF Elapse, Tick, Registries
  <2>2. ASSUME NEW k \in Keys PROVE Gated(reg'.entries[k], reg'.cfg)
    BY <1>1, <2>1, OlderGated DEF GatesInv
  <2> QED
    BY <2>2 DEF GatesInv
<1>7. ASSUME NEW c \in Clients, Step(c) PROVE GatesInv'
  <2>1. ASSUME NEW k \in Keys, BeginEnsure(c, k) \/ BeginRemoteDelete(c, k)
        PROVE  GatesInv'
    <3>1. CanBegin(reg, k) /\ reg' = Begin(reg, k)
      BY <2>1 DEF BeginEnsure, BeginRemoteDelete, CanBeginDelete, CanBegin
    <3>2. \A j \in Keys \ {k} : reg'.entries[j] = reg.entries[j]
      BY <1>1, <3>1, BeginSound
    <3>3. Gated(reg'.entries[k], reg.cfg) /\ reg'.cfg = reg.cfg
      BY <1>1, <3>1, MarksGated DEF GatesInv
    <3> QED
      BY <3>2, <3>3, OneGated
  <2>2. CASE LookAndResolve(c)
    BY <1>2, <2>2 DEF LookAndResolve
  <2>3. CASE EnsureOutcome(c) \/ DeleteOutcome(c)
    BY <2>3, OutcomesGated
  <2>4. CASE Finish(c)
    <3> DEFINE k == client[c].key
    <3>1. k \in Keys /\ reg' = Release(reg, k, client[c].obj)
      BY <2>4 DEF Finish, IInv, TypeOK, ClientStates
    <3>2. \A j \in Keys \ {k} : reg'.entries[j] = reg.entries[j]
      BY <1>1, <3>1, ReleaseSound
    <3>3. Gated(reg'.entries[k], reg.cfg) /\ reg'.cfg = reg.cfg
      BY <1>1, <3>1, MarksGated DEF GatesInv
    <3> QED
      BY <3>1, <3>2, <3>3, OneGated
  <2> QED
    BY <1>7, <2>1, <2>2, <2>3, <2>4 DEF Step
<1> QED
  BY <1>2, <1>3, <1>4, <1>5, <1>6, <1>7 DEF Next, vars

\* A shut gate stands where the settings of now put it, counted from the last
\* attempt, whatever was reloaded, answered and waited in between (registry.go
\* UpdateSettings, backoffLocked, Failing, Demote, Pause).
THEOREM GatesStand == Spec => []GateFollowsSettings
<1>1. Init => GatesInv
  <2> SUFFICES ASSUME Init, NEW k \in Keys PROVE Gated(reg.entries[k], reg.cfg)
    BY DEF GatesInv
  <2>1. reg.entries[k] = Absent(0)
    BY DEF Init, New
  <2>2. ~Absent(0).present
    BY DEF Absent, Fresh
  <2> QED
    BY <2>1, <2>2 DEF Gated
<1>2. IInv /\ GatesInv /\ [Next]_vars => GatesInv'
  BY NextGated
<1>3. GatesInv => GateFollowsSettings
  BY DEF GatesInv, Gated, Waits, GateFollowsSettings
<1> QED
  BY <1>1, <1>2, <1>3, Inductive, PTL DEF Spec
=============================================================================
