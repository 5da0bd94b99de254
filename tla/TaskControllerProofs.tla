------------------------ MODULE TaskControllerProofs ------------------------
(***************************************************************************)
(* Proofs about the task controller, for any tasks, machines,              *)
(* reservations, continuations, configurations, edits and failures.        *)
(***************************************************************************)
EXTENDS TaskController, TLAPS

\* Conflict does not depend on who asks (resourcesConflict,
\* resource_identity.go, looks at the loopback form of one side only).
LEMMA ConflictSymmetric ==
    ASSUME NEW a, NEW b
    PROVE  resourcesConflict(a, b) <=> resourcesConflict(b, a)
  <1>1. ASSUME NEW x, NEW y, resourceHost(x.host) = resourceHost(y.host)
        PROVE  DistinctForwards(x, y) => DistinctForwards(y, x)
    <2>1. x.host \in LoopbackHosts <=> y.host \in LoopbackHosts
      BY <1>1, HostAssumption DEF resourceHost
    <2> QED  BY <2>1 DEF DistinctForwards
  <1> QED  BY <1>1 DEF resourcesConflict

\* Nor does the separation of two holders.
LEMMA ApartSymmetric ==
    ASSUME NEW A, NEW B
    PROVE  Apart(A, B) <=> Apart(B, A)
  BY ConflictSymmetric DEF Apart

\* What a configured machine is recorded as (machineAllocation).
LEMMA AllocationType ==
    ASSUME NEW cfg \in Config, NEW m \in Machines, Configured(cfg, m)
    PROVE  AllocationOf(cfg, m) \in Allocation
  BY DEF Config, Configured, AllocationOf, machineAllocation, machineResource, Allocation,
         ResourceKey, Entry

\* A machine that readyForReservationLocked lets through is apart from
\* everything that is held.
LEMMA FreeApart ==
    ASSUME NEW cfg, NEW m, NEW owner, Free(cfg, m, owner)
    PROVE  /\ Configured(cfg, m)
           /\ Apart({AllocationOf(cfg, m)}, Held(cfg, owner))
  BY DEF Free, conflictsWithAny, Apart

----------------------------------------------------------------------------
(***************************************************************************)
(* Types                                                                   *)
(***************************************************************************)

\* Giving machines back keeps the type of a continuation.
LEMMA FreedType ==
    ASSUME NEW x \in Continuation, NEW s \in ContinuationStates
    PROVE  Freed(x, s) \in Continuation
  <1>1. 0 \in 0..MaxGeneration /\ {} \in SUBSET (Tasks \X Allocation)
    BY InputAssumption
  <1>2. [x EXCEPT !.state = s, !.allocations = {}] \in Continuation
    BY <1>1 DEF Continuation
  <1>3. [[x EXCEPT !.state = s, !.allocations = {}] EXCEPT !.grant = 0, !.offerUntil = "nil"]
          \in Continuation
    BY <1>1, <1>2 DEF Continuation
  <1>4. Freed(x, s) = [[x EXCEPT !.state = s, !.allocations = {}] EXCEPT !.grant = 0, !.offerUntil = "nil"]
    BY DEF Freed
  <1> QED  BY <1>3, <1>4

\* So does a tick of CheckContinuations,
LEMMA ObservedType ==
    ASSUME TypeOK, NEW c \in ContinuationIDs, Known(c)
    PROVE  Observed(c) \in Continuation
  <1> DEFINE x0 == continuations[c]
             x1 == ReceiptTimedOut(x0)
             x2 == OfferLapsed(x1)
             x3 == AuthorizationLapsed(x2)
  <1>0. x0 \in Continuation
    <2>1. continuations[c] \in Continuation \cup {Unregistered}  BY DEF TypeOK
    <2> QED  BY <2>1 DEF Known
  <1>1. x1 \in Continuation
    <2> HIDE DEF x0
    <2>1. CASE x0.wake # NoWake
      <3>1. x0.wake \in Wake  BY <1>0, <2>1 DEF Continuation
      <3>2. [x0.wake EXCEPT !.status = "delivery_uncertain"] \in Wake  BY <3>1 DEF Wake
      <3>3. [x0 EXCEPT !.wake.status = "delivery_uncertain"] \in Continuation
        BY <1>0, <3>2 DEF Continuation
      <3> QED  BY <1>0, <3>3 DEF ReceiptTimedOut, x1
    <2>2. CASE x0.wake = NoWake
      BY <1>0, <2>2 DEF ReceiptTimedOut, x1
    <2> QED  BY <2>1, <2>2
  <1>2. x2 \in Continuation
    <2> HIDE DEF x1
    <2> QED  BY <1>1, FreedType DEF OfferLapsed, ContinuationStates, OccupiedStates, x2
  <1>3. x3 \in Continuation
    <2> HIDE DEF x2
    <2> QED  BY <1>2, FreedType DEF AuthorizationLapsed, ContinuationStates, TerminalStates, x3
  <1>4. TasksObserved(c, x3) \in Continuation
    <2> HIDE DEF x3
    <2>1. [generation |-> x3.generation, kind |-> "tasks_finished", status |-> "pending",
           sender |-> None, attempts |-> 0, overdue |-> FALSE] \in Wake
      BY <1>3 DEF Continuation, Wake
    <2> QED  BY <1>3, <2>1 DEF TasksObserved, TasksFinished, Continuation, ContinuationStates, OccupiedStates
  <1> QED  BY <1>4 DEF Observed, x3, x2, x1, x0

\* and an offer, whose bundle has a free machine for each planned task.
LEMMA OfferedType ==
    ASSUME TypeOK, NEW c \in ContinuationIDs, NEW x \in Continuation,
           x.generation < MaxGeneration, NEW f \in Bundles(c)
    PROVE  /\ Offered(x, f) \in Continuation
           /\ DOMAIN f = Plan[c]
           /\ \A t \in Plan[c] : \E m \in Machines :
                 Free(config, m, None) /\ f[t] = AllocationOf(config, m)
  <1>1. DOMAIN f = Plan[c] /\ \A t \in Plan[c] : \E m \in Machines :
                 Free(config, m, None) /\ f[t] = AllocationOf(config, m)
    BY DEF Bundles
  <1>2. \A t \in Plan[c] : f[t] \in Allocation
    BY <1>1, AllocationType DEF TypeOK, Free
  <1>3. Plan[c] \subseteq Tasks
    BY InputAssumption
  <1>4. {<<t, f[t]>> : t \in DOMAIN f} \in SUBSET (Tasks \X Allocation)
    BY <1>1, <1>2, <1>3
  <1>5. x.generation + 1 \in 0..MaxGeneration
    BY InputAssumption DEF Continuation
  <1>6. [generation |-> x.generation + 1, kind |-> "resources_ready", status |-> "pending",
         sender |-> None, attempts |-> 0, overdue |-> FALSE] \in Wake
    BY <1>5 DEF Wake
  <1> QED  BY <1>1, <1>4, <1>5, <1>6 DEF Offered, Continuation, ContinuationStates, OccupiedStates

\* So does a change of the wake event.
LEMMA WakeType ==
    ASSUME NEW x \in Continuation, x.wake # NoWake, NEW w \in Wake
    PROVE  [x EXCEPT !.wake = w] \in Continuation
  BY DEF Continuation

\* loadContinuations changes at most the delivery status of the wake event.
LEMMA ReloadedKeeps ==
    ASSUME NEW x \in Continuation \cup {Unregistered}
    PROVE  /\ Reloaded(x) \in Continuation \cup {Unregistered}
           /\ x = Unregistered <=> Reloaded(x) = Unregistered
           /\ x # Unregistered =>
                 /\ Reloaded(x).state = x.state /\ Reloaded(x).allocations = x.allocations
                 /\ Reloaded(x).grant = x.grant /\ Reloaded(x).generation = x.generation
                 /\ Reloaded(x).intents = x.intents
                 /\ AttemptLeft(x) => AttemptLeft(Reloaded(x))
  <1>1. CASE x # Unregistered /\ x.wake # NoWake /\ x.wake.status = "sending"
    <2>1. x \in Continuation /\ x.wake \in Wake
      BY <1>1 DEF Continuation
    <2>2. [x.wake EXCEPT !.status = "delivery_uncertain"] \in Wake
      BY <2>1 DEF Wake
    <2> DEFINE y == [x EXCEPT !.wake = [x.wake EXCEPT !.status = "delivery_uncertain"]]
    <2>3. y = Reloaded(x)
      BY <1>1 DEF Reloaded
    <2>4. y \in Continuation
      BY <1>1, <2>1, <2>2, WakeType
    <2>5. /\ y.state = x.state /\ y.allocations = x.allocations
          /\ y.grant = x.grant /\ y.generation = x.generation
          /\ y.intents = x.intents /\ y.wake.status = "delivery_uncertain"
      BY <2>1, <2>2 DEF Continuation, Wake
    <2> HIDE DEF y
    <2> QED  BY <1>1, <2>3, <2>4, <2>5, IdAssumption DEF AttemptLeft
  <1>2. CASE ~(x # Unregistered /\ x.wake # NoWake /\ x.wake.status = "sending")
    BY <1>2 DEF Reloaded
  <1> QED  BY <1>1, <1>2

----------------------------------------------------------------------------
(***************************************************************************)
(* Holdings                                                                *)
(***************************************************************************)

\* Reservations and continuations hold what they held, and vouch for as much.
SameReservations ==
    \A r \in ReservationIDs :
        /\ reservations'[r] = NoReservation <=> reservations[r] = NoReservation
        /\ reservations[r] # NoReservation =>
              /\ reservations'[r].coordinator = reservations[r].coordinator
              /\ reservations'[r].allocations = reservations[r].allocations
              /\ reservations'[r].released = reservations[r].released

SameContinuations ==
    \A c \in ContinuationIDs :
        /\ continuations'[c] = Unregistered <=> continuations[c] = Unregistered
        /\ continuations[c] # Unregistered =>
              /\ \/ continuations'[c].state = continuations[c].state
                 \/ {continuations[c].state, continuations'[c].state} \subseteq OccupiedStates \ {"offered"}
              /\ continuations'[c].allocations = continuations[c].allocations
              /\ continuations'[c].grant = continuations[c].grant
              /\ continuations'[c].generation = continuations[c].generation
              /\ continuations[c].intents \subseteq continuations'[c].intents

SameTasks(ts) == \A t \in ts : Live(t)' => Live(t) /\ SameTask(disk'[t], disk[t])

\* A task of its own, on a machine that only its owner holds.
NewTask(t) ==
    LET j == disk'[t] IN
    /\ j \in Job
    /\ j.reservation # None => ReservationVouches(reservations'[j.reservation], j)
    /\ j.continuation # None => ContinuationVouches(continuations'[j.continuation], t, j)
    /\ \A u \in Tasks \ {t} : Apart({j.alloc}, TaskHolds(u))
    /\ \A r \in ReservationIDs \ {j.reservation} : Apart({j.alloc}, ReservationHolds(r))
    /\ \A c \in ContinuationIDs \ {j.continuation} : Apart({j.alloc}, ContinuationHolds(c))

\* A step after which every holder holds and vouches for what it did, and
\* tasks at most end, keeps the holders apart.
LEMMA HoldingsKept ==
    ASSUME TypeOK, GrantsKept, HoldersExclusive, SameReservations, SameContinuations,
           SameTasks(Tasks)
    PROVE  GrantsKept' /\ HoldersExclusive'
  <1>1. \A c \in ContinuationIDs : ContinuationHolds(c)' = ContinuationHolds(c)
    BY DEF SameContinuations, ContinuationHolds, IsOccupied, AllocationsOf
  <1>2. \A r \in ReservationIDs : ReservationHolds(r)' = ReservationHolds(r)
    BY DEF SameReservations, ReservationHolds, IsUnreleased
  <1>3. \A t \in Tasks : TaskHolds(t)' \subseteq TaskHolds(t)
    BY DEF SameTasks, TaskHolds, SameTask
  <1>4. HoldersExclusive'
    <2>1. TasksApart'
      BY <1>3 DEF HoldersExclusive, TasksApart, Apart
    <2>2. ReservationsApart'
      BY <1>2 DEF HoldersExclusive, ReservationsApart, Apart
    <2>3. ContinuationsApart'
      BY <1>1 DEF HoldersExclusive, ContinuationsApart, Apart
    <2>4. ReservationsApartFromContinuations'
      BY <1>1, <1>2 DEF HoldersExclusive, ReservationsApartFromContinuations, Apart
    <2>5. TasksApartFromReservations'
      BY <1>2, <1>3 DEF HoldersExclusive, TasksApartFromReservations, Apart, SameTasks, SameTask
    <2>6. TasksApartFromContinuations'
      BY <1>1, <1>3 DEF HoldersExclusive, TasksApartFromContinuations, Apart, SameTasks, SameTask
    <2> QED  BY <2>1, <2>2, <2>3, <2>4, <2>5, <2>6 DEF HoldersExclusive
  <1>5. LiveTaskKeepsItsGrant'
    <2> SUFFICES ASSUME NEW t \in Tasks, Live(t)'
                 PROVE  /\ disk'[t].reservation # None =>
                             ReservationVouches(reservations'[disk'[t].reservation], disk'[t])
                        /\ disk'[t].continuation # None =>
                             ContinuationVouches(continuations'[disk'[t].continuation], t, disk'[t])
      BY DEF LiveTaskKeepsItsGrant
    <2>1. Live(t) /\ SameTask(disk'[t], disk[t]) /\ disk[t] \in Job
      BY DEF Live, SameTasks
    <2>2. /\ disk[t].reservation # None => ReservationVouches(reservations[disk[t].reservation], disk[t])
          /\ disk[t].continuation # None => ContinuationVouches(continuations[disk[t].continuation], t, disk[t])
      BY <2>1 DEF GrantsKept, LiveTaskKeepsItsGrant
    <2>3. /\ disk[t].continuation # None => disk[t].continuation \in ContinuationIDs
          /\ disk[t].reservation # None => disk[t].reservation \in ReservationIDs
      BY <2>1 DEF Job
    <2> QED  BY <2>1, <2>2, <2>3 DEF SameTask, ReservationVouches, ContinuationVouches, IsOccupied,
                IsUnreleased, SameReservations, SameContinuations
  <1> QED  BY <1>4, <1>5 DEF GrantsKept, Known, SameReservations, SameContinuations

\* A step that adds one task, on a machine its owner holds and nobody else,
\* keeps the holders apart.
LEMMA TaskAdded ==
    ASSUME TypeOK, GrantsKept, HoldersExclusive, SameReservations, SameContinuations,
           NEW t \in Tasks, ~Live(t), NewTask(t), SameTasks(Tasks \ {t})
    PROVE  GrantsKept' /\ HoldersExclusive'
  <1>1. \A c \in ContinuationIDs : ContinuationHolds(c)' = ContinuationHolds(c)
    BY DEF SameContinuations, ContinuationHolds, IsOccupied, AllocationsOf
  <1>2. \A r \in ReservationIDs : ReservationHolds(r)' = ReservationHolds(r)
    BY DEF SameReservations, ReservationHolds, IsUnreleased
  <1>3. \A u \in Tasks \ {t} : TaskHolds(u)' \subseteq TaskHolds(u)
    BY DEF SameTasks, TaskHolds, SameTask
  <1>4. TaskHolds(t)' \subseteq {disk'[t].alloc}
    BY DEF TaskHolds
  <1>5. HoldersExclusive'
    <2>1. TasksApart'
      <3> SUFFICES ASSUME NEW u \in Tasks, NEW v \in Tasks, u # v
                   PROVE  Apart(TaskHolds(u)', TaskHolds(v)')
        BY DEF TasksApart, Apart
      <3>1. CASE u # t /\ v # t
        BY <1>3, <3>1 DEF HoldersExclusive, TasksApart, Apart
      <3>2. CASE u = t
        BY <1>3, <1>4, <3>2 DEF NewTask, Apart
      <3>3. CASE v = t
        <4>1. Apart(TaskHolds(v)', TaskHolds(u)')
          BY <1>3, <1>4, <3>3 DEF NewTask, Apart
        <4> QED  BY <4>1, ApartSymmetric
      <3> QED  BY <3>1, <3>2, <3>3
    <2>2. ReservationsApart'
      BY <1>2 DEF HoldersExclusive, ReservationsApart, Apart
    <2>3. ContinuationsApart'
      BY <1>1 DEF HoldersExclusive, ContinuationsApart, Apart
    <2>4. ReservationsApartFromContinuations'
      BY <1>1, <1>2 DEF HoldersExclusive, ReservationsApartFromContinuations, Apart
    <2>5. TasksApartFromReservations'
      BY <1>2, <1>3, <1>4
      DEF HoldersExclusive, TasksApartFromReservations, Apart, SameTasks, SameTask, NewTask
    <2>6. TasksApartFromContinuations'
      BY <1>1, <1>3, <1>4
      DEF HoldersExclusive, TasksApartFromContinuations, Apart, SameTasks, SameTask, NewTask
    <2> QED  BY <2>1, <2>2, <2>3, <2>4, <2>5, <2>6 DEF HoldersExclusive
  <1>6. LiveTaskKeepsItsGrant'
    <2> SUFFICES ASSUME NEW u \in Tasks, Live(u)'
                 PROVE  /\ disk'[u].reservation # None =>
                             ReservationVouches(reservations'[disk'[u].reservation], disk'[u])
                        /\ disk'[u].continuation # None =>
                             ContinuationVouches(continuations'[disk'[u].continuation], u, disk'[u])
      BY DEF LiveTaskKeepsItsGrant
    <2>1. CASE u = t
      BY <2>1 DEF NewTask
    <2>2. CASE u # t
      <3>1. Live(u) /\ SameTask(disk'[u], disk[u]) /\ disk[u] \in Job
        BY <2>2 DEF Live, SameTasks
      <3>2. /\ disk[u].reservation # None => ReservationVouches(reservations[disk[u].reservation], disk[u])
            /\ disk[u].continuation # None => ContinuationVouches(continuations[disk[u].continuation], u, disk[u])
        BY <3>1 DEF GrantsKept, LiveTaskKeepsItsGrant
      <3>3. /\ disk[u].continuation # None => disk[u].continuation \in ContinuationIDs
            /\ disk[u].reservation # None => disk[u].reservation \in ReservationIDs
        BY <3>1 DEF Job
      <3> QED  BY <3>1, <3>2, <3>3 DEF SameTask, ReservationVouches, ContinuationVouches, IsOccupied,
                  IsUnreleased, SameReservations, SameContinuations
    <2> QED  BY <2>1, <2>2
  <1> QED  BY <1>5, <1>6 DEF GrantsKept, Known, SameReservations, SameContinuations

\* In a running service every live task is unfinished in memory, so what it
\* holds is part of what an occupancy check sees.
LEMMA LiveIsHeld ==
    ASSUME TypeOK, MemoryMatches, LaunchesOnce, up, NEW t \in Tasks, Live(t), NEW cfg
    PROVE  /\ jobs[t] \in Job /\ IsUnfinished(jobs[t]) /\ SameTask(jobs[t], disk[t])
           /\ TaskHolds(t) \subseteq HeldByTasks(cfg)
  <1>1. jobs[t] \in Job /\ SameTask(jobs[t], disk[t]) /\ jobs[t].status \in Unfinished
    BY DEF MemoryMatches, LaunchesOnce, Live
  <1>2. IsUnfinished(jobs[t])
    BY <1>1, IdAssumption DEF IsUnfinished
  <1>3. jobs[t].alloc \in HeldByTasks(cfg)
    BY <1>2 DEF HeldByTasks
  <1> QED  BY <1>1, <1>2, <1>3 DEF TaskHolds, SameTask

\* The occupancy check of a running service sees every holder but the owner
\* who asks.
LEMMA HoldsAreHeld ==
    ASSUME TypeOK, MemoryMatches, LaunchesOnce, up, NEW cfg, NEW owner
    PROVE  /\ \A t \in Tasks : TaskHolds(t) \subseteq Held(cfg, owner)
           /\ \A r \in ReservationIDs : r # owner => ReservationHolds(r) \subseteq Held(cfg, owner)
           /\ \A c \in ContinuationIDs : c # owner => ContinuationHolds(c) \subseteq Held(cfg, owner)
  <1>1. \A t \in Tasks : TaskHolds(t) \subseteq Held(cfg, owner)
    BY LiveIsHeld DEF Held, TaskHolds
  <1>2. \A r \in ReservationIDs : r # owner => ReservationHolds(r) \subseteq Held(cfg, owner)
    BY DEF Held, HeldByReservations, ReservationHolds
  <1>3. \A c \in ContinuationIDs : c # owner => ContinuationHolds(c) \subseteq Held(cfg, owner)
    BY DEF Held, HeldByContinuations, ContinuationHolds
  <1> QED  BY <1>1, <1>2, <1>3

\* A write of reservation r that keeps what vouched for a live task, and takes
\* only machines that are apart from everything held.
LEMMA ReservationStep ==
    ASSUME IInv, NEW r \in ReservationIDs, NEW x \in Reservation,
           SaveReservation(r, x),
           x.coordinator \in x.allocations,
           \A t \in Tasks : Live(t) /\ disk[t].reservation = r => ReservationVouches(x, disk[t]),
           \/ ~IsUnreleased(x)
           \/ /\ \A t \in Tasks : Apart(x.allocations, TaskHolds(t))
              /\ \A s \in ReservationIDs \ {r} : Apart(x.allocations, ReservationHolds(s))
              /\ \A c \in ContinuationIDs : Apart(x.allocations, ContinuationHolds(c))
    PROVE  IInv'
  <1> USE DEF SaveReservation, worldVars
  <1>1. TypeOK'
    BY DEF IInv, TypeOK
  <1>2. AttemptsLeft' /\ MemoryMatches' /\ LaunchesOnce'
    BY DEF IInv, AttemptsLeft, AttemptLeft, MemoryMatches, LaunchesOnce, Live, Active, Known
  <1>3. \A s \in ReservationIDs : reservations'[s] = IF s = r THEN x ELSE reservations[s]
    BY DEF IInv, TypeOK
  <1>4. \A t \in Tasks : (Live(t)' <=> Live(t)) /\ TaskHolds(t)' = TaskHolds(t)
    BY DEF Live, TaskHolds
  <1>5. \A c \in ContinuationIDs : ContinuationHolds(c)' = ContinuationHolds(c)
    BY DEF ContinuationHolds
  <1>6. \A s \in ReservationIDs \ {r} : ReservationHolds(s)' = ReservationHolds(s)
    BY <1>3 DEF ReservationHolds
  <1>7. ReservationHolds(r)' = IF IsUnreleased(x) THEN x.allocations ELSE {}
    BY <1>3 DEF ReservationHolds
  <1>8. /\ \A t \in Tasks : Apart(ReservationHolds(r)', TaskHolds(t))
        /\ \A s \in ReservationIDs \ {r} : Apart(ReservationHolds(r)', ReservationHolds(s))
        /\ \A c \in ContinuationIDs : Apart(ReservationHolds(r)', ContinuationHolds(c))
    BY <1>7 DEF Apart
  <1>9. GrantsKept'
    <2>1. LiveTaskKeepsItsGrant'
      BY <1>3, <1>4 DEF IInv, GrantsKept, LiveTaskKeepsItsGrant, Live, Job
    <2> QED  BY <2>1, <1>3 DEF IInv, GrantsKept, Known
  <1>10. HoldersExclusive'
    <2>1. TasksApart' /\ ContinuationsApart' /\ TasksApartFromContinuations'
      BY <1>4, <1>5 DEF IInv, HoldersExclusive, TasksApart, ContinuationsApart,
                        TasksApartFromContinuations, Apart
    <2>2. ReservationsApart'
      BY <1>6, <1>8, ApartSymmetric DEF IInv, HoldersExclusive, ReservationsApart
    <2>3. ReservationsApartFromContinuations'
      BY <1>5, <1>6, <1>8 DEF IInv, HoldersExclusive, ReservationsApartFromContinuations
    <2>4. TasksApartFromReservations'
      BY <1>4, <1>6, <1>8, ApartSymmetric DEF IInv, HoldersExclusive, TasksApartFromReservations
    <2> QED  BY <2>1, <2>2, <2>3, <2>4 DEF HoldersExclusive
  <1> QED  BY <1>1, <1>2, <1>9, <1>10 DEF IInv

\* A write of continuation c that keeps what vouches for its live tasks, and
\* takes only machines that are apart from everything held.
LEMMA ContinuationStep ==
    ASSUME IInv, NEW c \in ContinuationIDs, NEW x \in Continuation,
           SaveContinuation(c, x),
           AttemptLeft(x),
           \A p \in x.allocations : p[1] \in Plan[c],
           \A t \in Tasks : Live(t) /\ disk[t].continuation = c => ContinuationVouches(x, t, disk[t]),
           \/ ~IsOccupied(x)
           \/ IsOccupied(continuations[c]) /\ x.allocations = continuations[c].allocations
           \/ /\ \A t \in Tasks : Apart(AllocationsOf(x), TaskHolds(t))
              /\ \A r \in ReservationIDs : Apart(AllocationsOf(x), ReservationHolds(r))
              /\ \A d \in ContinuationIDs \ {c} : Apart(AllocationsOf(x), ContinuationHolds(d))
    PROVE  IInv'
  <1> USE DEF SaveContinuation, worldVars
  <1>1. TypeOK'
    BY DEF IInv, TypeOK
  <1>2. MemoryMatches' /\ LaunchesOnce'
    BY DEF IInv, MemoryMatches, LaunchesOnce, Live, Active
  <1>3. \A d \in ContinuationIDs : continuations'[d] = IF d = c THEN x ELSE continuations[d]
    BY DEF IInv, TypeOK
  <1>4. AttemptsLeft'
    BY <1>3 DEF IInv, AttemptsLeft, Known, AttemptLeft
  <1>5. \A t \in Tasks : (Live(t)' <=> Live(t)) /\ TaskHolds(t)' = TaskHolds(t)
    BY DEF Live, TaskHolds
  <1>6. \A r \in ReservationIDs : ReservationHolds(r)' = ReservationHolds(r)
    BY DEF ReservationHolds
  <1>7. \A d \in ContinuationIDs \ {c} : ContinuationHolds(d)' = ContinuationHolds(d)
    BY <1>3 DEF ContinuationHolds
  <1>8. ContinuationHolds(c)' = IF IsOccupied(x) THEN AllocationsOf(x) ELSE {}
    BY <1>3 DEF ContinuationHolds
  <1>9. /\ \A t \in Tasks : Live(t) /\ disk[t].continuation # c
                            => Apart(ContinuationHolds(c)', TaskHolds(t))
        /\ \A r \in ReservationIDs : Apart(ContinuationHolds(c)', ReservationHolds(r))
        /\ \A d \in ContinuationIDs \ {c} : Apart(ContinuationHolds(c)', ContinuationHolds(d))
    <2>1. CASE ~IsOccupied(x)
      BY <1>8, <2>1 DEF Apart
    <2>2. CASE IsOccupied(continuations[c]) /\ x.allocations = continuations[c].allocations
      <3>1. ContinuationHolds(c)' \subseteq ContinuationHolds(c)
        BY <1>8, <2>2 DEF ContinuationHolds, AllocationsOf
      <3>2. /\ \A t \in Tasks : Live(t) /\ disk[t].continuation # c
                                 => Apart(ContinuationHolds(c), TaskHolds(t))
            /\ \A r \in ReservationIDs : Apart(ContinuationHolds(c), ReservationHolds(r))
            /\ \A d \in ContinuationIDs \ {c} : Apart(ContinuationHolds(c), ContinuationHolds(d))
        BY ApartSymmetric DEF IInv, HoldersExclusive, ContinuationsApart,
             ReservationsApartFromContinuations, TasksApartFromContinuations
      <3> QED  BY <3>1, <3>2 DEF Apart
    <2>3. CASE /\ \A t \in Tasks : Apart(AllocationsOf(x), TaskHolds(t))
               /\ \A r \in ReservationIDs : Apart(AllocationsOf(x), ReservationHolds(r))
               /\ \A d \in ContinuationIDs \ {c} : Apart(AllocationsOf(x), ContinuationHolds(d))
      BY <1>8, <2>3 DEF Apart
    <2> QED  BY <2>1, <2>2, <2>3
  <1>10. GrantsKept'
    <2>1. LiveTaskKeepsItsGrant'
      BY <1>3, <1>5 DEF IInv, GrantsKept, LiveTaskKeepsItsGrant, Live, Job
    <2> QED  BY <2>1, <1>3 DEF IInv, GrantsKept, Known
  <1>11. HoldersExclusive'
    <2>1. TasksApart' /\ ReservationsApart' /\ TasksApartFromReservations'
      BY <1>5, <1>6 DEF IInv, HoldersExclusive, TasksApart, ReservationsApart,
                        TasksApartFromReservations, Apart
    <2>2. ContinuationsApart'
      BY <1>7, <1>9, ApartSymmetric DEF IInv, HoldersExclusive, ContinuationsApart
    <2>3. ReservationsApartFromContinuations'
      BY <1>6, <1>7, <1>9, ApartSymmetric
      DEF IInv, HoldersExclusive, ReservationsApartFromContinuations
    <2>4. TasksApartFromContinuations'
      BY <1>5, <1>7, <1>9, ApartSymmetric DEF IInv, HoldersExclusive, TasksApartFromContinuations
    <2> QED  BY <2>1, <2>2, <2>3, <2>4 DEF HoldersExclusive
  <1> QED  BY <1>1, <1>2, <1>4, <1>10, <1>11 DEF IInv

----------------------------------------------------------------------------
(***************************************************************************)
(* Reservations                                                            *)
(***************************************************************************)

\* No live task was submitted under an ID that is new.
LEMMA NewReservation ==
    ASSUME IInv, NEW r \in ReservationIDs, reservations[r] = NoReservation,
           NEW t \in Tasks, Live(t)
    PROVE  disk[t].reservation # r
  <1>1. disk[t].reservation = r => ReservationVouches(NoReservation, disk[t])
    BY IdAssumption DEF IInv, GrantsKept, LiveTaskKeepsItsGrant
  <1> QED  BY <1>1 DEF ReservationVouches, IsUnreleased

\* A single reservation takes a free machine only (Reserve).
LEMMA ReserveStep ==
    ASSUME IInv, NEW r \in ReservationIDs, NEW m \in Machines, Reserve(r, m)
    PROVE  IInv'
  <1> DEFINE a == AllocationOf(config, m)
             x == [coordinator |-> a, allocations |-> {a}, task |-> None,
                   intent |-> FALSE, released |-> FALSE]
  <1>1. Configured(config, m) /\ Apart({a}, Held(config, None))
    BY FreeApart DEF Reserve
  <1>2. x \in Reservation
    BY <1>1, AllocationType DEF IInv, TypeOK, Reservation
  <1>3. /\ \A t \in Tasks : Apart({a}, TaskHolds(t))
        /\ \A s \in ReservationIDs : Apart({a}, ReservationHolds(s))
        /\ \A c \in ContinuationIDs : Apart({a}, ContinuationHolds(c))
    BY <1>1, HoldsAreHeld, IdAssumption DEF IInv, Reserve, Apart
  <1>4. SaveReservation(r, x) /\ reservations[r] = NoReservation
    BY DEF Reserve
  <1>5. \A t \in Tasks : Live(t) => disk[t].reservation # r
    BY <1>4, NewReservation
  <1>6. x.coordinator \in x.allocations /\ x.allocations = {a}
    OBVIOUS
  <1> HIDE DEF x, a
  <1> QED  BY <1>2, <1>3, <1>4, <1>5, <1>6, ReservationStep

\* A group takes free machines only (ReserveGroup).
LEMMA ReserveGroupStep ==
    ASSUME IInv, NEW r \in ReservationIDs, NEW ms \in SUBSET Machines, NEW m \in Machines,
           NEW u \in Tasks, ReserveGroup(r, ms, m, u)
    PROVE  IInv'
  <1> DEFINE A == {AllocationOf(config, n) : n \in ms}
             x == [coordinator |-> AllocationOf(config, m), allocations |-> A, task |-> u,
                   intent |-> FALSE, released |-> FALSE]
  <1>1. \A n \in ms : Configured(config, n) /\ Apart({AllocationOf(config, n)}, Held(config, None))
    BY FreeApart DEF ReserveGroup
  <1>2. A \in SUBSET Allocation /\ m \in ms
    <2>1. config \in Config  BY DEF IInv, TypeOK
    <2>2. \A n \in ms : AllocationOf(config, n) \in Allocation  BY <1>1, <2>1, AllocationType
    <2> QED  BY <2>2 DEF ReserveGroup
  <1>3. x \in Reservation
    BY <1>2 DEF Reservation
  <1>4. Apart(A, Held(config, None))
    BY <1>1 DEF Apart
  <1>5. /\ \A t \in Tasks : Apart(A, TaskHolds(t))
        /\ \A s \in ReservationIDs : Apart(A, ReservationHolds(s))
        /\ \A c \in ContinuationIDs : Apart(A, ContinuationHolds(c))
    <2> HIDE DEF A
    <2> QED  BY <1>4, HoldsAreHeld, IdAssumption DEF IInv, ReserveGroup, Apart
  <1>6. SaveReservation(r, x) /\ reservations[r] = NoReservation
    BY DEF ReserveGroup
  <1>7. \A t \in Tasks : Live(t) => disk[t].reservation # r
    BY <1>6, NewReservation
  <1>8. x.coordinator \in x.allocations /\ x.allocations = A
    BY <1>2
  <1> HIDE DEF x, A
  <1> QED  BY <1>3, <1>5, <1>6, <1>7, <1>8, ReservationStep

\* A reservation with a live task is not released (ReleaseReservation).
LEMMA ReleaseReservationStep ==
    ASSUME IInv, NEW r \in ReservationIDs, ReleaseReservation(r)
    PROVE  IInv'
  <1> DEFINE x == [reservations[r] EXCEPT !.released = TRUE]
  <1>1. reservations[r] \in Reservation
    BY DEF IInv, TypeOK, ReleaseReservation, IsUnreleased
  <1>2. x \in Reservation /\ x.coordinator \in x.allocations /\ x.released
    BY <1>1, IdAssumption DEF Reservation, IInv, GrantsKept
  <1>3. \A t \in Tasks : Live(t) => disk[t].reservation # r
    BY LiveIsHeld DEF IInv, ReleaseReservation, Quiet, SameTask
  <1>4. SaveReservation(r, x) /\ ~IsUnreleased(x)
    BY <1>2 DEF ReleaseReservation, IsUnreleased
  <1> HIDE DEF x
  <1> QED  BY <1>2, <1>3, <1>4, ReservationStep

----------------------------------------------------------------------------
(***************************************************************************)
(* Continuations                                                           *)
(***************************************************************************)

\* What the live tasks of a continuation say about it, before a step.
LEMMA LiveTaskVouched ==
    ASSUME IInv, NEW c \in ContinuationIDs, NEW t \in Tasks, Live(t), disk[t].continuation = c
    PROVE  /\ ContinuationVouches(continuations[c], t, disk[t])
           /\ t \in Plan[c]
           /\ continuations[c].state \in OccupiedStates \ {"offered"}
           /\ continuations[c].intents # {}
           /\ up => IsUnfinished(jobs[t])
  <1>1. ContinuationVouches(continuations[c], t, disk[t])
    BY IdAssumption DEF IInv, GrantsKept, LiveTaskKeepsItsGrant
  <1>2. t \in Plan[c]
    BY <1>1 DEF IInv, GrantsKept, ContinuationVouches, IsOccupied, Known
  <1> QED  BY <1>1, <1>2, LiveIsHeld DEF IInv, ContinuationVouches, IsOccupied

\* A write of continuation c that takes nothing.
LEMMA ContinuationKept ==
    ASSUME IInv, NEW c \in ContinuationIDs, Known(c), NEW x \in Continuation,
           SaveContinuation(c, x), AttemptLeft(x),
           x.allocations = continuations[c].allocations,
           x.state = continuations[c].state
             \/ (continuations[c].state \in OccupiedStates /\ x.state \in OccupiedStates \ {"offered"}),
           x.grant = continuations[c].grant, x.generation = continuations[c].generation,
           x.intents = continuations[c].intents
    PROVE  IInv'
  <1>1. \A p \in x.allocations : p[1] \in Plan[c]
    BY DEF IInv, GrantsKept
  <1>2. IsOccupied(x) => IsOccupied(continuations[c])
    BY DEF IsOccupied, Known
  <1>3. \A t \in Tasks : Live(t) /\ disk[t].continuation = c => ContinuationVouches(x, t, disk[t])
    BY LiveTaskVouched, IdAssumption DEF ContinuationVouches, IsOccupied
  <1> QED  BY <1>1, <1>2, <1>3, ContinuationStep

\* A write of continuation c that gives everything back, or holds nothing.
LEMMA ContinuationFreed ==
    ASSUME IInv, NEW c \in ContinuationIDs, NEW x \in Continuation,
           SaveContinuation(c, x), AttemptLeft(x),
           ~IsOccupied(x), x.allocations = {},
           \A t \in Tasks : ~(Live(t) /\ disk[t].continuation = c)
    PROVE  IInv'
  BY ContinuationStep

\* A continuation that is not occupied, or only offered, has no live task.
LEMMA NoLiveTask ==
    ASSUME IInv, NEW c \in ContinuationIDs,
           \/ ~Known(c)
           \/ continuations[c].state \notin OccupiedStates \ {"offered"}
           \/ continuations[c].intents = {}
    PROVE  \A t \in Tasks : ~(Live(t) /\ disk[t].continuation = c)
  BY LiveTaskVouched DEF Known, ContinuationVouches, IsOccupied

\* A new continuation holds nothing (RegisterContinuation).
LEMMA RegisterStep ==
    ASSUME IInv, NEW c \in ContinuationIDs, NEW mode \in {"bridge", "heartbeat"},
           RegisterContinuation(c, mode)
    PROVE  IInv'
  <1> DEFINE x == [state |-> "waiting_resources", generation |-> 0, grant |-> 0, mode |-> mode,
                   allocations |-> {}, offerUntil |-> "nil", expiresAt |-> "future",
                   wake |-> NoWake, intents |-> {}, stop |-> "none"]
  <1>1. x \in Continuation
    BY InputAssumption DEF Continuation, ContinuationStates
  <1>2. SaveContinuation(c, x) /\ ~Known(c)
    BY DEF RegisterContinuation
  <1>3. AttemptLeft(x) /\ ~IsOccupied(x) /\ x.allocations = {}
    BY DEF AttemptLeft, IsOccupied, OccupiedStates
  <1> HIDE DEF x
  <1> QED  BY <1>1, <1>2, <1>3, NoLiveTask, ContinuationFreed

\* An offer takes free machines only.
LEMMA OfferStep ==
    ASSUME IInv, up, NEW c \in ContinuationIDs, Known(c), NEW x \in Continuation,
           \A t \in Tasks : ~(Live(t) /\ disk[t].continuation = c),
           x.generation < MaxGeneration, NEW f \in Bundles(c),
           SaveContinuation(c, Offered(x, f))
    PROVE  IInv'
  <1> DEFINE y == Offered(x, f)
  <1>1. /\ y \in Continuation
        /\ DOMAIN f = Plan[c]
        /\ \A t \in Plan[c] : \E m \in Machines :
              Free(config, m, None) /\ f[t] = AllocationOf(config, m)
    BY OfferedType DEF IInv
  <1>2. y.allocations = {<<t, f[t]>> : t \in DOMAIN f} /\ AttemptLeft(y)
    <2>1. y.wake.attempts = 0 /\ y.allocations = {<<t, f[t]>> : t \in DOMAIN f}
      BY DEF Offered, Continuation
    <2> QED  BY <2>1 DEF AttemptLeft
  <1>3. Apart(AllocationsOf(y), Held(config, None))
    BY <1>1, <1>2, FreeApart DEF AllocationsOf, Apart
  <1>4. /\ \A t \in Tasks : Apart(AllocationsOf(y), TaskHolds(t))
        /\ \A r \in ReservationIDs : Apart(AllocationsOf(y), ReservationHolds(r))
        /\ \A d \in ContinuationIDs \ {c} : Apart(AllocationsOf(y), ContinuationHolds(d))
    BY <1>3, HoldsAreHeld, IdAssumption DEF IInv, Apart
  <1>5. \A p \in y.allocations : p[1] \in Plan[c]
    BY <1>1, <1>2
  <1> HIDE DEF y
  <1>6. SaveContinuation(c, y)
    BY DEF y
  <1> QED  BY <1>1, <1>2, <1>4, <1>5, <1>6, ContinuationStep

\* What a tick may do to a continuation x: keep its grant, or take back what
\* nobody claimed.
GrantKept(x, y) ==
    /\ y.allocations = x.allocations
    /\ y.grant = x.grant /\ y.intents = x.intents
    /\ \/ y.state = x.state
       \/ x.state \in OccupiedStates /\ y.state \in OccupiedStates \ {"offered"}

TakenBack(x, y) ==
    /\ x.state \in {"waiting_resources", "offered", "paused"}
    /\ y.state \in {"waiting_resources", "expired"}
    /\ y.allocations = {}

\* What giving machines back changes, and what it leaves.
LEMMA FreedFields ==
    ASSUME NEW x \in Continuation, NEW s \in ContinuationStates
    PROVE  /\ Freed(x, s).state = s /\ Freed(x, s).allocations = {}
           /\ Freed(x, s).generation = x.generation /\ Freed(x, s).wake = x.wake
  BY DEF Freed, Continuation

\* A tick keeps a claimed grant, and takes back only what nobody claimed.
LEMMA ObservedKeeps ==
    ASSUME TypeOK, AttemptsLeft, NEW c \in ContinuationIDs, Known(c)
    PROVE  /\ AttemptLeft(Observed(c))
           /\ Observed(c).generation = continuations[c].generation
           /\ GrantKept(continuations[c], Observed(c)) \/ TakenBack(continuations[c], Observed(c))
  <1> DEFINE x0 == continuations[c]
             x1 == ReceiptTimedOut(x0)
             x2 == OfferLapsed(x1)
             x3 == AuthorizationLapsed(x2)
             x4 == TasksObserved(c, x3)
  <1> USE DEF ContinuationStates, TerminalStates
  <1>0. x0 \in Continuation /\ AttemptLeft(x0)
    <2>1. continuations[c] \in Continuation \cup {Unregistered}  BY DEF TypeOK
    <2> QED  BY <2>1 DEF Known, AttemptsLeft
  <1>1. /\ x1 \in Continuation /\ AttemptLeft(x1) /\ x1.generation = x0.generation
        /\ GrantKept(x0, x1) /\ x1.state = x0.state
    <2> HIDE DEF x0
    <2>1. CASE x0.wake # NoWake /\ x0.wake.status = "sending" /\ x0.wake.overdue
      <3> DEFINE w == [x0.wake EXCEPT !.status = "delivery_uncertain"]
      <3>1. x0.wake \in Wake  BY <1>0, <2>1 DEF Continuation
      <3>2. w \in Wake /\ w.status = "delivery_uncertain"  BY <3>1 DEF Wake
      <3> HIDE DEF w
      <3>3. [x0 EXCEPT !.wake = w] \in Continuation  BY <1>0, <2>1, <3>2, WakeType
      <3>4. x1 = [x0 EXCEPT !.wake = w]  BY <2>1 DEF ReceiptTimedOut, x1, w
      <3>5. /\ x1.wake = w /\ x1.generation = x0.generation /\ x1.state = x0.state
            /\ x1.allocations = x0.allocations /\ x1.grant = x0.grant /\ x1.intents = x0.intents
        BY <1>0, <3>4 DEF Continuation
      <3> QED  BY <3>2, <3>3, <3>4, <3>5 DEF AttemptLeft, GrantKept
    <2>2. CASE ~(x0.wake # NoWake /\ x0.wake.status = "sending" /\ x0.wake.overdue)
      BY <1>0, <2>2 DEF ReceiptTimedOut, x1, GrantKept
    <2> QED  BY <2>1, <2>2
  <1>2. /\ x2 \in Continuation /\ AttemptLeft(x2) /\ x2.generation = x1.generation
        /\ \/ x2 = x1
           \/ x1.state = "offered" /\ x2.state = "waiting_resources" /\ x2.allocations = {}
    <2> HIDE DEF x1
    <2> QED  BY <1>1, FreedType, FreedFields DEF OfferLapsed, AttemptLeft, x2
  <1>3. /\ x3 \in Continuation /\ AttemptLeft(x3) /\ x3.generation = x2.generation
        /\ \/ x3 = x2
           \/ /\ x2.state \in {"waiting_resources", "offered", "paused"}
              /\ x3.state = "expired" /\ x3.allocations = {}
    <2> HIDE DEF x2
    <2> QED  BY <1>2, FreedType, FreedFields DEF AuthorizationLapsed, AttemptLeft, x3
  <1>4. /\ AttemptLeft(x4) /\ x4.generation = x3.generation
        /\ \/ x4 = x3
           \/ /\ x3.state \in {"claimed", "executing", "recovery_needed"}
              /\ GrantKept(x3, x4)
    <2> HIDE DEF x3
    <2> DEFINE w == [generation |-> x3.generation, kind |-> "tasks_finished", status |-> "pending",
                     sender |-> None, attempts |-> 0, overdue |-> FALSE]
    <2>1. \/ x4 = x3
          \/ x3.state \in {"claimed", "executing", "recovery_needed"}
             /\ \/ x4 = TasksFinished(x3)
                \/ x4 = [x3 EXCEPT !.state = "recovery_needed"]
                \/ x4 = [x3 EXCEPT !.state = "executing"]
      BY DEF TasksObserved, x4
    <2>2. w.attempts = 0 /\ TasksFinished(x3) = [x3 EXCEPT !.state = "awaiting_review", !.wake = w]
      BY DEF TasksFinished
    <2> HIDE DEF w, x4
    <2>3. CASE x4 = TasksFinished(x3)
      <3>1. /\ x4.state = "awaiting_review" /\ x4.wake = w /\ x4.generation = x3.generation
            /\ x4.allocations = x3.allocations /\ x4.grant = x3.grant /\ x4.intents = x3.intents
        BY <1>3, <2>2, <2>3 DEF Continuation
      <3>2. x3.state \in {"claimed", "executing", "recovery_needed"} \/ x4 = x3
        BY <2>1
      <3> QED  BY <2>2, <3>1, <3>2 DEF AttemptLeft, GrantKept, OccupiedStates
    <2>4. ASSUME NEW s \in {"recovery_needed", "executing"}, x4 = [x3 EXCEPT !.state = s],
                 x3.state \in {"claimed", "executing", "recovery_needed"}
          PROVE  AttemptLeft(x4) /\ x4.generation = x3.generation /\ GrantKept(x3, x4)
      <3>1. /\ x4.state = s /\ x4.wake = x3.wake /\ x4.generation = x3.generation
            /\ x4.allocations = x3.allocations /\ x4.grant = x3.grant /\ x4.intents = x3.intents
        BY <1>3, <2>4 DEF Continuation
      <3> QED  BY <1>3, <2>4, <3>1 DEF AttemptLeft, GrantKept, OccupiedStates
    <2> QED  BY <1>3, <2>1, <2>3, <2>4
  <1>5. x4 = Observed(c)
    BY DEF Observed
  <1> HIDE DEF x1, x2, x3, x4
  <1>6. GrantKept(x0, x4) \/ TakenBack(x0, x4)
    BY <1>1, <1>2, <1>3, <1>4 DEF GrantKept, TakenBack, OccupiedStates
  <1> QED  BY <1>1, <1>2, <1>3, <1>4, <1>5, <1>6

\* A tick, with or without an offer, preserves the invariant (CheckContinuations).
LEMMA CheckStep ==
    ASSUME IInv, NEW c \in ContinuationIDs, CheckContinuation(c)
    PROVE  IInv'
  <1> DEFINE x == Observed(c)
  <1>1. Known(c) /\ up
    BY DEF CheckContinuation
  <1>2. /\ x \in Continuation /\ AttemptLeft(x) /\ x.generation = continuations[c].generation
        /\ GrantKept(continuations[c], x) \/ TakenBack(continuations[c], x)
    BY <1>1, ObservedType, ObservedKeeps DEF IInv
  <1>3. CASE SaveContinuation(c, x)
    <2> HIDE DEF x
    <2>1. CASE GrantKept(continuations[c], x)
      BY <1>1, <1>2, <1>3, <2>1, ContinuationKept DEF GrantKept
    <2>2. CASE TakenBack(continuations[c], x)
      <3>1. \A t \in Tasks : ~(Live(t) /\ disk[t].continuation = c)
        BY <2>2, NoLiveTask DEF TakenBack, OccupiedStates
      <3>2. ~IsOccupied(x) /\ x.allocations = {}
        BY <2>2 DEF TakenBack, IsOccupied, OccupiedStates
      <3> QED  BY <1>2, <1>3, <3>1, <3>2, ContinuationFreed
    <2> QED  BY <1>2, <2>1, <2>2
  <1>4. CASE /\ x.state = "waiting_resources" /\ x.generation < MaxGeneration
             /\ \E f \in Bundles(c) : SaveContinuation(c, Offered(x, f))
    <2> HIDE DEF x
    <2>1. continuations[c].state \notin OccupiedStates \ {"offered"}
      BY <1>2, <1>4 DEF GrantKept, TakenBack, OccupiedStates
    <2>2. \A t \in Tasks : ~(Live(t) /\ disk[t].continuation = c)
      BY <2>1, NoLiveTask
    <2> QED  BY <1>1, <1>2, <1>4, <2>2, OfferStep
  <1> QED  BY <1>3, <1>4 DEF CheckContinuation

\* An offer that a heartbeat asks for does (EvaluateContinuation).
LEMMA EvaluateStep ==
    ASSUME IInv, NEW c \in ContinuationIDs, EvaluateContinuation(c)
    PROVE  IInv'
  <1> DEFINE x == continuations[c]
  <1>1. /\ x \in Continuation /\ Known(c) /\ up
        /\ x.state = "waiting_resources" /\ x.generation < MaxGeneration
    BY DEF EvaluateContinuation, IInv, TypeOK, Known
  <1>2. \A t \in Tasks : ~(Live(t) /\ disk[t].continuation = c)
    BY <1>1, NoLiveTask DEF OccupiedStates
  <1>3. \E f \in Bundles(c) : SaveContinuation(c, Offered(x, f))
    BY DEF EvaluateContinuation
  <1> HIDE DEF x
  <1> QED  BY <1>1, <1>2, <1>3, OfferStep

\* A claim keeps the grant (ClaimContinuation).
LEMMA ClaimStep ==
    ASSUME IInv, NEW c \in ContinuationIDs, NEW g, NEW kind, ClaimContinuation(c, g, kind)
    PROVE  IInv'
  <1> DEFINE x == continuations[c]
             w == [x.wake EXCEPT !.status = "delivered"]
             y == [x EXCEPT !.state = "claimed", !.offerUntil = "nil", !.wake = w]
  <1>1. x \in Continuation /\ Known(c) /\ x.wake # NoWake /\ x.state = "offered"
    BY DEF ClaimContinuation, IInv, TypeOK, Known, Fenced
  <1>2. SaveContinuation(c, y)
    BY DEF ClaimContinuation
  <1>3. w \in Wake /\ w.status = "delivered"
    BY <1>1 DEF Continuation, Wake
  <1> HIDE DEF w, x
  <1>4. /\ y \in Continuation /\ y.wake = w /\ y.state = "claimed"
        /\ y.allocations = x.allocations /\ y.grant = x.grant /\ y.generation = x.generation
        /\ y.intents = x.intents
    BY <1>1, <1>3 DEF Continuation, ContinuationStates, OccupiedStates
  <1>5. AttemptLeft(y)
    BY <1>3, <1>4 DEF AttemptLeft
  <1> HIDE DEF y
  <1> QED  BY <1>1, <1>2, <1>4, <1>5, ContinuationKept DEF OccupiedStates, x

\* A report frees a grant without live tasks only (ReportContinuation).
LEMMA ReportStep ==
    ASSUME IInv, NEW c \in ContinuationIDs, NEW g, NEW kind, ReportContinuation(c, g, kind)
    PROVE  IInv'
  <1> DEFINE x == continuations[c]
  <1>1. x \in Continuation /\ Known(c) /\ AttemptLeft(x) /\ up
    BY DEF ReportContinuation, IInv, TypeOK, AttemptsLeft, Known
  <1>2. \E s \in {"paused", "cancelled", "waiting_resources", "completed"} :
           SaveContinuation(c, Freed(x, s))
    BY DEF ReportContinuation, AfterRelease
  <1>3. \A t \in Tasks : ~(Live(t) /\ disk[t].continuation = c)
    <2>1. CASE Releasable(c, x)
      BY <2>1, NoLiveTask DEF Releasable
    <2>2. CASE Completable(c, x)
      BY <1>1, <2>2, LiveTaskVouched DEF Completable
    <2> QED  BY <2>1, <2>2 DEF ReportContinuation
  <1>4. PICK s \in {"paused", "cancelled", "waiting_resources", "completed"} :
           SaveContinuation(c, Freed(x, s))
    BY <1>2
  <1>5. s \in ContinuationStates /\ s \notin OccupiedStates
    BY DEF ContinuationStates, OccupiedStates, TerminalStates
  <1> HIDE DEF x
  <1> QED  BY <1>1, <1>3, <1>4, <1>5, FreedType, FreedFields, ContinuationFreed
           DEF AttemptLeft, IsOccupied

\* Changing the mode, stopping and resuming free what has no task only
\* (ControlContinuation).
LEMMA ControlStep ==
    ASSUME IInv, NEW c \in ContinuationIDs, NEW action, ControlContinuation(c, action)
    PROVE  IInv'
  <1> DEFINE x == continuations[c]
             idle == x.state \in {"waiting_resources", "offered", "paused"}
  <1>1. x \in Continuation /\ Known(c) /\ AttemptLeft(x) /\ up /\ x.state \notin TerminalStates
    BY DEF ControlContinuation, IInv, TypeOK, AttemptsLeft, Known
  <1>2. idle => \A t \in Tasks : ~(Live(t) /\ disk[t].continuation = c)
    BY NoLiveTask DEF OccupiedStates
  <1>3. CASE /\ action \in {"bridge", "heartbeat"} /\ idle /\ x.generation < MaxGeneration
             /\ SaveContinuation(c,
                  [Freed(x, IF x.state = "paused" THEN "paused" ELSE "waiting_resources")
                     EXCEPT !.mode = action, !.generation = @ + 1, !.wake = NoWake])
    <2> DEFINE s == IF x.state = "paused" THEN "paused" ELSE "waiting_resources"
               z == Freed(x, s)
               y == [z EXCEPT !.mode = action, !.generation = @ + 1, !.wake = NoWake]
    <2>1. s \in ContinuationStates /\ s \notin OccupiedStates
      BY DEF ContinuationStates, OccupiedStates
    <2> HIDE DEF s, x
    <2>2. z \in Continuation /\ z.state = s /\ z.allocations = {} /\ z.generation = x.generation
      BY <1>1, <2>1, FreedType, FreedFields
    <2> HIDE DEF z
    <2>3. z.generation + 1 \in 0..MaxGeneration
      BY <1>3, <2>2, InputAssumption DEF Continuation
    <2>4. y \in Continuation /\ y.state = s /\ y.allocations = {} /\ y.wake = NoWake
      BY <1>3, <2>2, <2>3 DEF Continuation
    <2>5. SaveContinuation(c, y)
      BY <1>3 DEF y, z, s
    <2> HIDE DEF y
    <2> QED  BY <1>2, <1>3, <2>1, <2>4, <2>5, ContinuationFreed DEF AttemptLeft, IsOccupied
  <1>4. CASE /\ action \in {"pause", "cancel"} /\ idle
             /\ SaveContinuation(c, Freed(x, IF action = "cancel" THEN "cancelled" ELSE "paused"))
    <2> DEFINE s == IF action = "cancel" THEN "cancelled" ELSE "paused"
    <2>1. s \in ContinuationStates /\ s \notin OccupiedStates
      BY DEF ContinuationStates, OccupiedStates, TerminalStates
    <2>2. SaveContinuation(c, Freed(x, s))
      BY <1>4
    <2> HIDE DEF s, x
    <2> QED  BY <1>1, <1>2, <1>4, <2>1, <2>2, FreedType, FreedFields, ContinuationFreed
             DEF AttemptLeft, IsOccupied
  <1>5. CASE /\ action \in {"pause", "cancel"} /\ ~idle
             /\ SaveContinuation(c, [x EXCEPT !.stop = action])
    <2> DEFINE y == [x EXCEPT !.stop = action]
    <2> HIDE DEF x
    <2>1. /\ y \in Continuation /\ y.wake = x.wake /\ y.state = x.state
          /\ y.allocations = x.allocations /\ y.grant = x.grant /\ y.generation = x.generation
          /\ y.intents = x.intents
      BY <1>1, <1>5 DEF Continuation
    <2>2. SaveContinuation(c, y)
      BY <1>5
    <2> HIDE DEF y
    <2> QED  BY <1>1, <2>1, <2>2, ContinuationKept DEF AttemptLeft, x
  <1>6. CASE /\ action = "resume"
             /\ SaveContinuation(c,
                  [x EXCEPT !.state = IF @ = "paused" THEN "waiting_resources" ELSE @,
                            !.stop = "none"])
    <2> DEFINE s == IF x.state = "paused" THEN "waiting_resources" ELSE x.state
               y == [x EXCEPT !.state = s, !.stop = "none"]
    <2>1. s \in ContinuationStates /\ (s # x.state => x.state = "paused" /\ s = "waiting_resources")
      BY <1>1 DEF Continuation, ContinuationStates
    <2>2. SaveContinuation(c, y)
      BY <1>1, <1>6 DEF Continuation
    <2> HIDE DEF s, x
    <2>3. /\ y \in Continuation /\ y.wake = x.wake /\ y.state = s
          /\ y.allocations = x.allocations /\ y.grant = x.grant /\ y.generation = x.generation
          /\ y.intents = x.intents
      BY <1>1, <2>1 DEF Continuation
    <2>4. AttemptLeft(y) /\ \A p \in y.allocations : p[1] \in Plan[c]
      BY <1>1, <2>3 DEF AttemptLeft, IInv, GrantsKept, x
    <2> HIDE DEF y
    <2>5. CASE s = x.state
      BY <1>1, <2>2, <2>3, <2>4, <2>5, ContinuationKept DEF x
    <2>6. CASE s # x.state
      <3>1. ~IsOccupied(y)
        BY <2>1, <2>3, <2>6 DEF IsOccupied, OccupiedStates
      <3> QED  BY <1>2, <2>1, <2>2, <2>3, <2>4, <2>6, <3>1, ContinuationStep
    <2> QED  BY <2>5, <2>6
  <1> QED  BY <1>3, <1>4, <1>5, <1>6 DEF ControlContinuation

\* A write of continuation c that changes the wake event alone.
LEMMA WakeStep ==
    ASSUME IInv, NEW c \in ContinuationIDs, Known(c), NEW w \in Wake,
           continuations[c].wake # NoWake,
           w.status = "pending" => w.attempts < 3,
           SaveContinuation(c, [continuations[c] EXCEPT !.wake = w])
    PROVE  IInv'
  <1> DEFINE x == continuations[c]
             y == [x EXCEPT !.wake = w]
  <1>1. x \in Continuation
    BY DEF IInv, TypeOK, Known
  <1>2. SaveContinuation(c, y)
    OBVIOUS
  <1> HIDE DEF x
  <1>3. /\ y \in Continuation /\ y.wake = w /\ y.state = x.state
        /\ y.allocations = x.allocations /\ y.grant = x.grant /\ y.generation = x.generation
        /\ y.intents = x.intents
    BY <1>1, WakeType DEF Continuation, x
  <1> HIDE DEF y
  <1> QED  BY <1>1, <1>2, <1>3, ContinuationKept DEF AttemptLeft, x

\* Deliveries change the wake event alone, and stop at the third attempt
\* (DeliveryContinuation).
LEMMA DeliveryStep ==
    ASSUME IInv, NEW c \in ContinuationIDs, NEW s \in Senders, NEW g, NEW kind, NEW action,
           DeliveryContinuation(c, s, g, kind, action)
    PROVE  IInv'
  <1> DEFINE x == continuations[c]
             w == x.wake
  <1>1. x \in Continuation /\ Known(c) /\ AttemptLeft(x) /\ w # NoWake /\ w \in Wake
    <2>1. x \in Continuation /\ Known(c) /\ AttemptLeft(x) /\ w # NoWake
      BY DEF DeliveryContinuation, IInv, TypeOK, AttemptsLeft, Known, Fenced
    <2> QED  BY <2>1 DEF Continuation
  <1>2. CASE /\ action = "begin" /\ Sendable(x)
             /\ SaveContinuation(c, [x EXCEPT !.wake.status = "sending", !.wake.sender = s,
                                              !.wake.attempts = @ + 1, !.wake.overdue = FALSE])
    <2> DEFINE v == [w EXCEPT !.status = "sending", !.sender = s, !.attempts = @ + 1,
                              !.overdue = FALSE]
    <2>1. SaveContinuation(c, [x EXCEPT !.wake = v])
      BY <1>1, <1>2 DEF Continuation, Wake
    <2>2. w.attempts + 1 \in 0..3
      BY <1>1, <1>2 DEF Sendable, AttemptLeft, Wake
    <2> HIDE DEF w
    <2>3. v \in Wake /\ v.status = "sending"
      BY <1>1, <2>2 DEF Wake
    <2> QED  BY <1>1, <2>1, <2>3, WakeStep DEF w
  <1>3. CASE \E st \in {"delivered", "delivery_uncertain", "failed"} :
               SaveContinuation(c, [x EXCEPT !.wake.status = st])
    <2>1. PICK st \in {"delivered", "delivery_uncertain", "failed"} :
               SaveContinuation(c, [x EXCEPT !.wake.status = st])
      BY <1>3
    <2> DEFINE v == [w EXCEPT !.status = st]
    <2>2. SaveContinuation(c, [x EXCEPT !.wake = v])
      BY <2>1
    <2> HIDE DEF w
    <2>3. v \in Wake /\ v.status = st
      BY <1>1 DEF Wake
    <2> QED  BY <1>1, <2>2, <2>3, WakeStep DEF w
  <1>4. CASE ~Exhausted(w) /\ SaveContinuation(c, [x EXCEPT !.wake.status = "pending"])
    <2> DEFINE v == [w EXCEPT !.status = "pending"]
    <2>1. SaveContinuation(c, [x EXCEPT !.wake = v])
      BY <1>4
    <2> HIDE DEF w
    <2>2. v \in Wake /\ v.status = "pending" /\ v.attempts < 3
      BY <1>1, <1>4 DEF Wake, Exhausted
    <2> QED  BY <1>1, <2>1, <2>2, WakeStep DEF w
  <1> QED  BY <1>2, <1>3, <1>4 DEF DeliveryContinuation

\* Deadlines that pass take nothing.
LEMMA DeadlineStep ==
    ASSUME IInv, NEW c \in ContinuationIDs,
           OfferDeadlinePasses(c) \/ AuthorizationEnds(c) \/ ReceiptOverdue(c)
    PROVE  IInv'
  <1> DEFINE x == continuations[c]
  <1>1. x \in Continuation /\ Known(c) /\ AttemptLeft(x)
    BY DEF OfferDeadlinePasses, AuthorizationEnds, ReceiptOverdue, IInv, TypeOK, AttemptsLeft, Known
  <1>2. CASE OfferDeadlinePasses(c)
    <2> DEFINE y == [x EXCEPT !.offerUntil = "past"]
    <2>1. SaveContinuation(c, y)
      BY <1>2 DEF OfferDeadlinePasses
    <2> HIDE DEF x
    <2>2. /\ y \in Continuation /\ y.wake = x.wake /\ y.state = x.state
          /\ y.allocations = x.allocations /\ y.grant = x.grant /\ y.generation = x.generation
          /\ y.intents = x.intents
      BY <1>1 DEF Continuation
    <2> HIDE DEF y
    <2> QED  BY <1>1, <2>1, <2>2, ContinuationKept DEF AttemptLeft, x
  <1>3. CASE AuthorizationEnds(c)
    <2> DEFINE y == [x EXCEPT !.expiresAt = "past"]
    <2>1. SaveContinuation(c, y)
      BY <1>3 DEF AuthorizationEnds
    <2> HIDE DEF x
    <2>2. /\ y \in Continuation /\ y.wake = x.wake /\ y.state = x.state
          /\ y.allocations = x.allocations /\ y.grant = x.grant /\ y.generation = x.generation
          /\ y.intents = x.intents
      BY <1>1 DEF Continuation
    <2> HIDE DEF y
    <2> QED  BY <1>1, <2>1, <2>2, ContinuationKept DEF AttemptLeft, x
  <1>4. CASE ReceiptOverdue(c)
    <2> DEFINE w == x.wake
               v == [w EXCEPT !.overdue = TRUE]
    <2>1. SaveContinuation(c, [x EXCEPT !.wake = v])
      BY <1>4 DEF ReceiptOverdue
    <2>2. w # NoWake /\ w \in Wake /\ w.status = "sending"
      BY <1>1, <1>4 DEF ReceiptOverdue, Continuation
    <2> HIDE DEF w
    <2>3. v \in Wake /\ v.status = "sending"
      BY <2>2 DEF Wake
    <2> QED  BY <1>1, <2>1, <2>2, <2>3, WakeStep DEF w
  <1> QED  BY <1>2, <1>3, <1>4

----------------------------------------------------------------------------
(***************************************************************************)
(* Tasks                                                                   *)
(***************************************************************************)

\* A change of the status of t in memory, written or not: t stays unfinished,
\* or ends while nothing of it is left running.
LEMMA StatusStep ==
    ASSUME IInv, up, NEW t \in Tasks, jobs[t] \in Job, NEW j \in Job,
           SameTask(j, jobs[t]), j.status # "dispatching",
           jobs' = [jobs EXCEPT ![t] = j],
           disk' = [disk EXCEPT ![t] = j] \/ disk' = disk,
           \/ settled' = settled \cup {t} /\ ~Active(t)
           \/ settled' = settled /\ (t \notin settled => j.status \in Unfinished),
           pc' = [pc EXCEPT ![t] = "idle"],
           probes' \in [Tasks -> SUBSET Answers],
           \A u \in Tasks : probes'[u] \subseteq probes[u],
           UNCHANGED <<config, reservations, continuations, up, seen, worldVars>>
    PROVE  IInv'
  <1> USE DEF worldVars
  <1>1. TypeOK'
    BY DEF IInv, TypeOK
  <1>2. AttemptsLeft'
    BY DEF IInv, AttemptsLeft, Known, AttemptLeft
  <1>3. /\ \A u \in Tasks \ {t} : jobs'[u] = jobs[u] /\ disk'[u] = disk[u] /\ pc'[u] = pc[u]
        /\ jobs'[t] = j /\ pc'[t] = "idle" /\ disk'[t] \in {j, disk[t]}
    BY DEF IInv, TypeOK
  <1>4. disk[t] \in Job /\ disk'[t] \in Job /\ SameTask(jobs[t], disk[t]) /\ SameTask(j, disk'[t])
        /\ SameTask(disk'[t], disk[t])
    BY <1>3 DEF IInv, MemoryMatches, SameTask
  <1>5. MemoryMatches'
    <2>1. \A u \in Tasks : /\ jobs'[u] \in Job <=> disk'[u] \in Job
                           /\ jobs'[u] \in Job => SameTask(jobs'[u], disk'[u])
      BY <1>3, <1>4 DEF IInv, MemoryMatches
    <2>2. \A u \in Tasks :
             /\ pc'[u] # "idle" => jobs'[u] \in Job /\ jobs'[u].status = "dispatching"
             /\ probes'[u] # {} => jobs'[u] \in Job /\ jobs'[u].status # "dispatching"
      BY <1>3 DEF IInv, MemoryMatches
    <2> QED  BY <2>1, <2>2 DEF MemoryMatches
  <1>6. \A u \in Tasks \ {t} : Live(u)' <=> Live(u)
    BY <1>3 DEF Live
  <1>7. Live(t)' => Live(t) /\ j.status \in Unfinished
    BY <1>4 DEF Live
  <1>8. LaunchesOnce'
    <2> SUFFICES ASSUME NEW u \in Tasks
                 PROVE  /\ launches[u] <= 1
                        /\ pc'[u] = "starting" => launches[u] = 0
                        /\ u \in wire \/ remote[u] # "absent" => launches[u] > 0
                        /\ u \in wire => remote[u] = "absent"
                        /\ launches[u] > 0 => disk'[u] \in Job
                        /\ \A a \in probes'[u] \cap {"exit0", "exit1"} : remote[u] = a
                        /\ u \in settled' => disk'[u] \in Job /\ ~Active(u) /\ pc'[u] # "starting"
                        /\ Live(u)' => disk'[u].status \in Unfinished /\ (up => jobs'[u].status \in Unfinished)
      BY DEF LaunchesOnce, Active
    <2>1. CASE u = t
      BY <1>3, <1>4, <1>7, <2>1 DEF IInv, LaunchesOnce
    <2>2. CASE u # t
      BY <1>3, <1>6, <2>2 DEF IInv, LaunchesOnce
    <2> QED  BY <2>1, <2>2
  <1>9. SameReservations /\ SameContinuations
    BY DEF SameReservations, SameContinuations
  <1>10. SameTasks(Tasks)
    BY <1>3, <1>4, <1>6, <1>7 DEF SameTasks, SameTask
  <1>11. GrantsKept' /\ HoldersExclusive'
    BY <1>9, <1>10, HoldingsKept DEF IInv
  <1> QED  BY <1>1, <1>2, <1>5, <1>8, <1>11 DEF IInv

\* A task that could not be launched ends (follow).
LEMMA LaunchRefusedStep ==
    ASSUME IInv, NEW t \in Tasks, LaunchRefused(t)
    PROVE  IInv'
  <1> DEFINE j == [jobs[t] EXCEPT !.status = "failed"]
  <1>1. up /\ jobs[t] \in Job /\ ~Active(t)
    BY DEF LaunchRefused, IInv, MemoryMatches, LaunchesOnce, Active
  <1>2. j \in Job /\ SameTask(j, jobs[t]) /\ j.status # "dispatching"
    BY <1>1 DEF Job, SameTask, Unfinished, Finished
  <1>3. /\ jobs' = [jobs EXCEPT ![t] = j]
        /\ disk' = [disk EXCEPT ![t] = j] \/ disk' = disk
    BY DEF LaunchRefused, Saved
  <1> HIDE DEF j
  <1> QED  BY <1>1, <1>2, <1>3, StatusStep DEF LaunchRefused, IInv, TypeOK

\* A launch that returned, whatever came of it, leaves the task unfinished
\* (follow).
LEMMA LaunchReturnsStep ==
    ASSUME IInv, NEW t \in Tasks, LaunchReturns(t)
    PROVE  IInv'
  <1>1. PICK s \in {"running", "unknown"} : Saved(t, [jobs[t] EXCEPT !.status = s])
    BY DEF LaunchReturns
  <1> DEFINE j == [jobs[t] EXCEPT !.status = s]
  <1>2. up /\ jobs[t] \in Job
    BY DEF LaunchReturns, IInv, MemoryMatches
  <1>3. j \in Job /\ SameTask(j, jobs[t]) /\ j.status # "dispatching" /\ j.status \in Unfinished
    BY <1>2 DEF Job, SameTask, Unfinished
  <1>4. /\ jobs' = [jobs EXCEPT ![t] = j]
        /\ disk' = [disk EXCEPT ![t] = j] \/ disk' = disk
    BY <1>1 DEF Saved
  <1> HIDE DEF j
  <1> QED  BY <1>2, <1>3, <1>4, StatusStep DEF LaunchReturns, IInv, TypeOK

\* Abandoning ends a task of which nothing runs (Abandon).
LEMMA AbandonStep ==
    ASSUME IInv, NEW t \in Tasks, Abandon(t)
    PROVE  IInv'
  <1> DEFINE j == [jobs[t] EXCEPT !.status = "abandoned"]
  <1>1. up /\ jobs[t] \in Job /\ jobs[t].status = "unknown" /\ ~Active(t)
    BY DEF Abandon, MayAbandon, IInv, TypeOK
  <1>2. j \in Job /\ SameTask(j, jobs[t]) /\ j.status # "dispatching"
    BY <1>1 DEF Job, SameTask, Unfinished, Finished
  <1>3. jobs' = [jobs EXCEPT ![t] = j] /\ disk' = [disk EXCEPT ![t] = j]
    BY DEF Abandon, IInv, TypeOK
  <1>4. pc' = [pc EXCEPT ![t] = "idle"]
    BY <1>1 DEF Abandon, IInv, TypeOK, MemoryMatches
  <1> HIDE DEF j
  <1> QED  BY <1>1, <1>2, <1>3, <1>4, StatusStep DEF Abandon, IInv, TypeOK

\* An answer ends a task only with the exit code that is there, and changes
\* nothing once the task has ended (probe, complete, observe).
LEMMA ProbeAppliesStep ==
    ASSUME IInv, NEW t \in Tasks, NEW a \in Answers, ProbeApplies(t, a)
    PROVE  IInv'
  <1>1. /\ up /\ jobs[t] \in Job /\ jobs[t].status # "dispatching" /\ a \in probes[t]
        /\ pc[t] = "idle"
    BY DEF ProbeApplies, IInv, MemoryMatches, TypeOK
  <1>2. /\ pc' = [pc EXCEPT ![t] = "idle"]
        /\ probes' \in [Tasks -> SUBSET Answers]
        /\ \A u \in Tasks : probes'[u] \subseteq probes[u]
    BY <1>1 DEF ProbeApplies, IInv, TypeOK
  <1>3. CASE StillOpen(t)
    <2> DEFINE j == AfterAnswer(jobs[t], a)
    <2>1. j \in Job /\ SameTask(j, jobs[t]) /\ j.status # "dispatching"
          /\ (a \notin {"exit0", "exit1"} => j.status \in Unfinished)
      BY <1>1 DEF AfterAnswer, Answers, Job, SameTask, Unfinished, Finished
    <2>2. /\ jobs' = [jobs EXCEPT ![t] = j]
          /\ disk' = [disk EXCEPT ![t] = j] \/ disk' = disk
      BY <1>3 DEF ProbeApplies, Saved
    <2>3. \/ settled' = settled \cup {t} /\ ~Active(t)
          \/ settled' = settled /\ (t \notin settled => j.status \in Unfinished)
      <3>1. CASE a \in {"exit0", "exit1"}
        <4>1. remote[t] = a /\ t \notin wire
          BY <1>1, <3>1 DEF IInv, LaunchesOnce
        <4> QED  BY <1>3, <3>1, <4>1 DEF ProbeApplies, Active
      <3>2. CASE a \notin {"exit0", "exit1"}
        BY <1>3, <2>1, <3>2 DEF ProbeApplies
      <3> QED  BY <3>1, <3>2
    <2> HIDE DEF j
    <2> QED  BY <1>1, <1>2, <2>1, <2>2, <2>3, StatusStep DEF ProbeApplies
  <1>4. CASE ~StillOpen(t)
    <2>1. t \in settled
      <3>1. jobs[t].status \notin Unfinished
        BY <1>1, <1>4, IdAssumption DEF StillOpen, IsUnfinished
      <3> QED  BY <1>1, <3>1, LiveIsHeld DEF IInv, MemoryMatches, LaunchesOnce, Live
    <2>2. jobs' = [jobs EXCEPT ![t] = jobs[t]] /\ disk' = disk /\ settled' = settled
      BY <1>4 DEF ProbeApplies, IInv, TypeOK
    <2>3. SameTask(jobs[t], jobs[t])
      BY DEF SameTask
    <2> QED  BY <1>1, <1>2, <2>1, <2>2, <2>3, StatusStep DEF ProbeApplies
  <1> QED  BY <1>3, <1>4

\* A probe that has been answered changes no record (probe).
LEMMA ProbeReadsStep ==
    ASSUME IInv, NEW t \in Tasks, ProbeReads(t)
    PROVE  IInv'
  <1> USE DEF worldVars
  <1>1. up /\ jobs[t] \in Job /\ jobs[t].status # "dispatching"
    BY DEF ProbeReads, IsUnfinished, IInv, TypeOK
  <1>2. PICK a \in IF Reachable(jobs[t], FALSE) THEN ProbeAnswers(remote[t]) ELSE {"unknown"} :
          probes' = [probes EXCEPT ![t] = @ \cup {a}]
    BY DEF ProbeReads
  <1>3. a \in Answers /\ (a \in {"exit0", "exit1"} => remote[t] = a)
    BY <1>2 DEF ProbeAnswers, Answers
  <1>4. \A u \in Tasks : probes'[u] = IF u = t THEN probes[t] \cup {a} ELSE probes[u]
    BY <1>2 DEF IInv, TypeOK
  <1>5. TypeOK'
    BY <1>2, <1>3 DEF ProbeReads, IInv, TypeOK
  <1>6. AttemptsLeft' /\ MemoryMatches'
    BY <1>1, <1>4 DEF ProbeReads, IInv, AttemptsLeft, Known, AttemptLeft, MemoryMatches
  <1>7. LaunchesOnce'
    BY <1>3, <1>4 DEF ProbeReads, IInv, LaunchesOnce, Live, Active
  <1>8. SameReservations /\ SameContinuations /\ SameTasks(Tasks)
    BY DEF ProbeReads, SameReservations, SameContinuations, SameTasks, SameTask, Live
  <1> QED  BY <1>5, <1>6, <1>7, <1>8, HoldingsKept DEF IInv

\* A launch is the first of its task (follow).
LEMMA LaunchStep ==
    ASSUME IInv, NEW t \in Tasks, Launch(t)
    PROVE  IInv'
  <1> USE DEF worldVars
  <1>1. /\ jobs[t] \in Job /\ jobs[t].status = "dispatching" /\ disk[t] \in Job
        /\ launches[t] = 0 /\ t \notin settled /\ remote[t] = "absent" /\ up
    BY DEF Launch, IInv, TypeOK, MemoryMatches, LaunchesOnce
  <1>2. /\ \A u \in Tasks : launches'[u] = IF u = t THEN 1 ELSE launches[u]
        /\ \A u \in Tasks : pc'[u] = IF u = t THEN "launching" ELSE pc[u]
        /\ wire' = wire \cup {t}
    BY <1>1 DEF Launch, IInv, TypeOK
  <1>3. TypeOK'
    BY DEF Launch, IInv, TypeOK
  <1>4. AttemptsLeft' /\ MemoryMatches'
    BY <1>1, <1>2 DEF Launch, IInv, AttemptsLeft, Known, AttemptLeft, MemoryMatches
  <1>5. LaunchesOnce'
    BY <1>1, <1>2 DEF Launch, IInv, LaunchesOnce, Live, Active
  <1>6. SameReservations /\ SameContinuations /\ SameTasks(Tasks)
    BY DEF Launch, SameReservations, SameContinuations, SameTasks, SameTask, Live
  <1> QED  BY <1>3, <1>4, <1>5, <1>6, HoldingsKept DEF IInv

----------------------------------------------------------------------------
(***************************************************************************)
(* Submission                                                              *)
(***************************************************************************)

\* Reading the configuration, or answering a known ID, changes no record (Submit).
LEMMA SubmitReadsStep ==
    ASSUME IInv, NEW t \in Tasks, SubmitReads(t) \/ SubmitAnswered(t)
    PROVE  IInv'
  <1> USE DEF worldVars, SubmitReads, SubmitAnswered
  <1>1. up
    BY DEF IInv, MemoryMatches
  <1>2. TypeOK'
    BY DEF IInv, TypeOK
  <1>3. AttemptsLeft' /\ MemoryMatches' /\ LaunchesOnce'
    BY <1>1 DEF IInv, AttemptsLeft, Known, AttemptLeft, MemoryMatches, LaunchesOnce, Live, Active
  <1>4. SameReservations /\ SameContinuations /\ SameTasks(Tasks)
    BY DEF SameReservations, SameContinuations, SameTasks, SameTask, Live
  <1> QED  BY <1>2, <1>3, <1>4, HoldingsKept DEF IInv

\* Recording a launch intent takes nothing and gives nothing back.
LEMMA IntentStep ==
    ASSUME IInv, NEW t \in Tasks, NEW q \in Request, NEW m \in Machines,
           Admitted(seen[t], t, q, m), RecordIntent(t, q)
    PROVE  /\ reservations' \in [ReservationIDs -> Reservation \cup {NoReservation}]
           /\ continuations' \in [ContinuationIDs -> Continuation \cup {Unregistered}]
           /\ SameReservations /\ SameContinuations /\ AttemptsLeft'
           /\ q.continuation # None =>
                 /\ q.continuation \in ContinuationIDs /\ Known(q.continuation)
                 /\ continuations'[q.continuation] =
                       WithLaunchIntent(continuations[q.continuation], t)
                 /\ continuations[q.continuation] \in Continuation
  <1>1. /\ continuations' \in [ContinuationIDs -> Continuation \cup {Unregistered}]
        /\ SameContinuations /\ AttemptsLeft'
        /\ q.continuation # None =>
              /\ q.continuation \in ContinuationIDs /\ Known(q.continuation)
              /\ continuations'[q.continuation] =
                    WithLaunchIntent(continuations[q.continuation], t)
              /\ continuations[q.continuation] \in Continuation
    <2>1. CASE q.continuation # None
      <3> DEFINE c == q.continuation
                 x == continuations[c]
                 y == WithLaunchIntent(x, t)
      <3>1. c \in ContinuationIDs /\ Known(c) /\ x \in Continuation /\ AttemptLeft(x)
            /\ x.state \in {"claimed", "executing"}
        BY <2>1 DEF Request, Admitted, ContinuationAdmits, Known, IInv, TypeOK, AttemptsLeft
      <3>2. continuations' = [continuations EXCEPT ![c] = y]
        BY <2>1 DEF RecordIntent
      <3>3. x = continuations[c] /\ c = q.continuation /\ y = WithLaunchIntent(x, t)
        OBVIOUS
      <3> HIDE DEF x, c
      <3>4. /\ y \in Continuation /\ y.state = "executing" /\ y.wake = x.wake
            /\ y.allocations = x.allocations /\ y.grant = x.grant /\ y.generation = x.generation
            /\ y.intents = x.intents \cup {t}
        BY <3>1 DEF WithLaunchIntent, Continuation, ContinuationStates, OccupiedStates
      <3> HIDE DEF y
      <3>5. continuations' \in [ContinuationIDs -> Continuation \cup {Unregistered}]
        BY <3>1, <3>2, <3>4 DEF IInv, TypeOK
      <3>6. \A d \in ContinuationIDs : continuations'[d] = IF d = c THEN y ELSE continuations[d]
        BY <3>2 DEF IInv, TypeOK
      <3>7. SameContinuations
        BY <3>1, <3>4, <3>3, <3>6, IdAssumption DEF SameContinuations, OccupiedStates, Known
      <3>8. AttemptsLeft'
        BY <3>1, <3>4, <3>6 DEF IInv, AttemptsLeft, Known, AttemptLeft
      <3> QED  BY <3>1, <3>3, <3>5, <3>6, <3>7, <3>8
    <2>2. CASE q.continuation = None
      BY <2>2 DEF RecordIntent, IInv, TypeOK, SameContinuations, AttemptsLeft, Known, AttemptLeft
    <2> QED  BY <2>1, <2>2
  <1>2. /\ reservations' \in [ReservationIDs -> Reservation \cup {NoReservation}]
        /\ SameReservations
    <2>1. CASE q.reservation # None
      <3> DEFINE r == q.reservation
                 x == reservations[r]
                 y == WithIntent(x)
      <3>1. r \in ReservationIDs /\ x \in Reservation
        BY <2>1 DEF Request, Admitted, ReservationAdmits, IsUnreleased, IInv, TypeOK
      <3>2. reservations' = [reservations EXCEPT ![r] = y]
        BY <2>1 DEF RecordIntent
      <3>3. x = reservations[r]
        OBVIOUS
      <3> HIDE DEF x, r
      <3>4. /\ y \in Reservation /\ y.coordinator = x.coordinator
            /\ y.allocations = x.allocations /\ y.released = x.released
        BY <3>1 DEF WithIntent, Reservation
      <3> HIDE DEF y
      <3>5. \A s \in ReservationIDs : reservations'[s] = IF s = r THEN y ELSE reservations[s]
        BY <3>2 DEF IInv, TypeOK
      <3> QED  BY <3>1, <3>2, <3>3, <3>4, <3>5, IdAssumption DEF SameReservations, IInv, TypeOK
    <2>2. CASE q.reservation = None
      BY <2>2 DEF RecordIntent, IInv, TypeOK, SameReservations
    <2> QED  BY <2>1, <2>2
  <1> QED  BY <1>1, <1>2

\* The machine a request is admitted to is one its owner holds, and apart
\* from everything anybody else holds.
LEMMA NewTaskApart ==
    ASSUME IInv, NEW t \in Tasks, NEW q \in Request, NEW m \in Machines,
           seen[t] # NoRequest, Free(seen[t], m, OwnerOf(q)),
           Admitted(seen[t], t, q, m)
    PROVE  LET a == AllocationOf(seen[t], m) IN
           /\ up /\ a \in Allocation
           /\ \A u \in Tasks : Apart({a}, TaskHolds(u))
           /\ \A r \in ReservationIDs \ {q.reservation} : Apart({a}, ReservationHolds(r))
           /\ \A c \in ContinuationIDs \ {q.continuation} : Apart({a}, ContinuationHolds(c))
  <1> DEFINE a == AllocationOf(seen[t], m)
             o == OwnerOf(q)
  <1>1. up /\ seen[t] \in Config
    BY DEF IInv, MemoryMatches, TypeOK
  <1>2. Configured(seen[t], m) /\ Apart({a}, Held(seen[t], o))
    BY FreeApart
  <1>3. a \in Allocation
    BY <1>1, <1>2, AllocationType
  <1>4. /\ \A r \in ReservationIDs : r # q.reservation => r # o
        /\ \A c \in ContinuationIDs : c # q.continuation => c # o
    BY IdAssumption DEF OwnerOf, Request
  <1> HIDE DEF a, o
  <1>5. /\ \A u \in Tasks : TaskHolds(u) \subseteq Held(seen[t], o)
        /\ \A r \in ReservationIDs : r # o => ReservationHolds(r) \subseteq Held(seen[t], o)
        /\ \A c \in ContinuationIDs : c # o => ContinuationHolds(c) \subseteq Held(seen[t], o)
    BY <1>1, HoldsAreHeld DEF IInv
  <1>6. /\ \A u \in Tasks : Apart({a}, TaskHolds(u))
        /\ \A r \in ReservationIDs \ {q.reservation} : Apart({a}, ReservationHolds(r))
        /\ \A c \in ContinuationIDs \ {q.continuation} : Apart({a}, ContinuationHolds(c))
    BY <1>2, <1>4, <1>5 DEF Apart
  <1> QED  BY <1>1, <1>3, <1>6 DEF a
\* The new record is vouched for by the reservation and the continuation that
\* the request names.
LEMMA NewTaskVouched ==
    ASSUME IInv, NEW t \in Tasks, NEW q \in Request, NEW m \in Machines,
           Admitted(seen[t], t, q, m), RecordIntent(t, q),
           NEW j, j = Dispatched(seen[t], q, m)
    PROVE  /\ j.reservation # None => ReservationVouches(reservations'[j.reservation], j)
           /\ j.continuation # None => ContinuationVouches(continuations'[j.continuation], t, j)
  <1> DEFINE a == AllocationOf(seen[t], m)
  <1>1. /\ j.reservation = q.reservation /\ j.continuation = q.continuation
        /\ j.generation = q.generation /\ j.alloc = a
    BY DEF Dispatched
  <1>2. ASSUME q.reservation # None
        PROVE  ReservationVouches(reservations'[q.reservation], j)
    <2> DEFINE x == reservations[q.reservation]
    <2>1. /\ q.reservation \in ReservationIDs /\ IsUnreleased(x)
          /\ x.coordinator.machineID = m
          /\ \A b \in x.allocations : Unchanged(seen[t], b)
      BY <1>2 DEF Request, Admitted, ReservationAdmits
    <2>2. x.coordinator \in x.allocations
      BY <2>1 DEF IInv, GrantsKept, IsUnreleased
    <2>3. a \in x.allocations
      BY <2>1, <2>2 DEF Unchanged
    <2> QED  BY <1>1, <2>1, <2>3, IntentStep DEF SameReservations, ReservationVouches, IsUnreleased
  <1>3. ASSUME q.continuation # None
        PROVE  ContinuationVouches(continuations'[q.continuation], t, j)
    <2> DEFINE x == continuations[q.continuation]
               y == WithLaunchIntent(x, t)
    <2>1. /\ x \in Continuation /\ continuations'[q.continuation] = y
      BY <1>3, IntentStep
    <2>2. /\ x.grant = q.generation /\ x.generation = q.generation
          /\ \E p \in x.allocations : p[1] = t /\ p[2].machineID = m /\ Unchanged(seen[t], p[2])
      BY <1>3 DEF Admitted, ContinuationAdmits
    <2> HIDE DEF x
    <2>3. <<t, a>> \in x.allocations
      <3>1. PICK p \in x.allocations : p[1] = t /\ p[2].machineID = m /\ Unchanged(seen[t], p[2])
        BY <2>2
      <3>2. p \in Tasks \X Allocation
        BY <2>1 DEF Continuation
      <3>3. p[2] = a
        BY <3>1 DEF Unchanged
      <3> QED  BY <3>1, <3>2, <3>3
    <2>4. /\ y.state = "executing" /\ y.allocations = x.allocations /\ y.grant = x.grant
          /\ y.generation = x.generation /\ t \in y.intents
      BY <2>1 DEF WithLaunchIntent, Continuation
    <2>5. y # Unregistered
      BY <1>3, <2>1, IntentStep DEF SameContinuations, Known
    <2> HIDE DEF y
    <2> QED  BY <1>1, <2>1, <2>2, <2>3, <2>4, <2>5
             DEF ContinuationVouches, IsOccupied, OccupiedStates
  <1> QED  BY <1>1, <1>2, <1>3

\* The memory of a stopped service is consistent with any records.
LEMMA StoppedStep ==
    ASSUME IInv, Stopped,
           UNCHANGED <<config, worldVars, settled>>,
           reservations' \in [ReservationIDs -> Reservation \cup {NoReservation}],
           continuations' \in [ContinuationIDs -> Continuation \cup {Unregistered}],
           AttemptsLeft', SameReservations, SameContinuations,
           disk' \in [Tasks -> Job \cup {NoDir, EmptyDir}],
           \A t \in Tasks : disk'[t] = disk[t] \/ (disk[t] \notin Job /\ disk'[t] \notin Job)
    PROVE  IInv'
  <1> USE DEF worldVars, Stopped
  <1>1. TypeOK'
    BY DEF IInv, TypeOK
  <1>2. MemoryMatches'
    BY DEF MemoryMatches
  <1>3. \A t \in Tasks : Live(t)' => Live(t) /\ disk'[t] = disk[t]
    BY DEF Live
  <1>4. LaunchesOnce'
    BY <1>3 DEF IInv, LaunchesOnce, Active
  <1>5. SameTasks(Tasks)
    BY <1>3 DEF SameTasks, SameTask
  <1> QED  BY <1>1, <1>2, <1>4, <1>5, HoldingsKept DEF IInv

\* Submission preserves the invariant: the record is written, or the write
\* fails, or the service stops between its writes (Submit).
LEMMA SubmitStep ==
    ASSUME IInv, NEW t \in Tasks, NEW q \in Request, NEW m \in Machines, Submit(t, q, m)
    PROVE  IInv'
  <1> USE DEF worldVars
  <1> DEFINE j == Dispatched(seen[t], q, m)
             a == AllocationOf(seen[t], m)
  <1>1. /\ seen[t] # NoRequest /\ jobs[t] = NoJob /\ Admitted(seen[t], t, q, m)
        /\ Free(seen[t], m, OwnerOf(q)) /\ RecordIntent(t, q)
        /\ UNCHANGED <<config, worldVars, settled>>
    BY DEF Submit
  <1>2. /\ reservations' \in [ReservationIDs -> Reservation \cup {NoReservation}]
        /\ continuations' \in [ContinuationIDs -> Continuation \cup {Unregistered}]
        /\ SameReservations /\ SameContinuations /\ AttemptsLeft'
    BY <1>1, IntentStep
  <1>3. up
    BY <1>1 DEF IInv, MemoryMatches
  <1>4. CASE /\ disk[t] = NoDir
             /\ jobs' = [jobs EXCEPT ![t] = j]
             /\ disk' = [disk EXCEPT ![t] = j]
             /\ pc' = [pc EXCEPT ![t] = "starting"]
             /\ seen' = [seen EXCEPT ![t] = NoRequest]
             /\ UNCHANGED <<up, probes>>
    <2>1. /\ a \in Allocation
          /\ \A u \in Tasks : Apart({a}, TaskHolds(u))
          /\ \A r \in ReservationIDs \ {q.reservation} : Apart({a}, ReservationHolds(r))
          /\ \A c \in ContinuationIDs \ {q.continuation} : Apart({a}, ContinuationHolds(c))
      BY <1>1, NewTaskApart
    <2>2. /\ j.reservation # None => ReservationVouches(reservations'[j.reservation], j)
          /\ j.continuation # None => ContinuationVouches(continuations'[j.continuation], t, j)
      BY <1>1, NewTaskVouched
    <2>3. /\ j.reservation = q.reservation /\ j.continuation = q.continuation
          /\ j.alloc = a /\ j.status = "dispatching"
      BY DEF Dispatched
    <2>4. j \in Job
      BY <2>1 DEF Dispatched, Request, Job, Unfinished
    <2> HIDE DEF a, j
    <2>5. /\ \A u \in Tasks \ {t} : /\ jobs'[u] = jobs[u] /\ disk'[u] = disk[u]
                                    /\ pc'[u] = pc[u] /\ probes'[u] = probes[u]
          /\ jobs'[t] = j /\ disk'[t] = j /\ pc'[t] = "starting"
      BY <1>4 DEF IInv, TypeOK
    <2>6. ~Live(t) /\ disk[t] \notin Job /\ probes'[t] = {}
      BY <1>1, <1>4, IdAssumption DEF IInv, MemoryMatches, Live
    <2>7. SameTasks(Tasks \ {t})
      BY <1>1, <2>5 DEF SameTasks, SameTask, Live
    <2>8. NewTask(t)
      BY <2>1, <2>2, <2>3, <2>4, <2>5 DEF NewTask
    <2>9. GrantsKept' /\ HoldersExclusive'
      BY <1>2, <2>6, <2>7, <2>8, TaskAdded DEF IInv
    <2>10. TypeOK'
      BY <1>1, <1>2, <1>4, <2>4 DEF IInv, TypeOK
    <2>11. MemoryMatches'
      <3>1. \A u \in Tasks : /\ jobs'[u] \in Job <=> disk'[u] \in Job
                             /\ jobs'[u] \in Job => SameTask(jobs'[u], disk'[u])
        BY <1>3, <2>4, <2>5 DEF IInv, MemoryMatches, SameTask
      <3>2. \A u \in Tasks :
              /\ pc'[u] # "idle" => jobs'[u] \in Job /\ jobs'[u].status = "dispatching"
              /\ probes'[u] # {} => jobs'[u] \in Job /\ jobs'[u].status # "dispatching"
        BY <2>3, <2>4, <2>5, <2>6 DEF IInv, MemoryMatches
      <3> QED  BY <1>3, <1>4, <3>1, <3>2 DEF MemoryMatches
    <2>12. LaunchesOnce'
      <3>1. /\ launches[t] = 0 /\ t \notin settled /\ t \notin wire /\ remote[t] = "absent"
        BY <2>6 DEF IInv, TypeOK, LaunchesOnce
      <3>2. j.status \in Unfinished
        BY <2>3 DEF Unfinished
      <3> QED  BY <1>1, <1>3, <1>4, <2>4, <2>5, <2>6, <3>1, <3>2 DEF IInv, LaunchesOnce, Live, Active
    <2> QED  BY <1>2, <2>9, <2>10, <2>11, <2>12 DEF IInv
  <1>5. CASE seen' = [seen EXCEPT ![t] = NoRequest] /\ UNCHANGED <<jobs, disk, pc, up, probes>>
    <2>1. TypeOK'
      BY <1>1, <1>2, <1>5 DEF IInv, TypeOK
    <2>2. MemoryMatches' /\ LaunchesOnce'
      BY <1>1, <1>3, <1>5 DEF IInv, MemoryMatches, LaunchesOnce, Live, Active
    <2>3. SameTasks(Tasks)
      BY <1>1, <1>5 DEF SameTasks, SameTask, Live
    <2> QED  BY <1>2, <2>1, <2>2, <2>3, HoldingsKept DEF IInv
  <1>6. CASE /\ \/ UNCHANGED disk
                \/ disk[t] = NoDir /\ disk' = [disk EXCEPT ![t] = EmptyDir]
             /\ Stopped
    <2>1. \A u \in Tasks : disk'[u] = disk[u] \/ (disk[u] \notin Job /\ disk'[u] \notin Job)
      BY <1>6, IdAssumption DEF IInv, TypeOK
    <2>2. disk' \in [Tasks -> Job \cup {NoDir, EmptyDir}]
      BY <1>6 DEF IInv, TypeOK
    <2> QED  BY <1>1, <1>2, <1>6, <2>1, <2>2, StoppedStep
  <1> QED  BY <1>4, <1>5, <1>6 DEF Submit

----------------------------------------------------------------------------
(***************************************************************************)
(* The world and the restart                                               *)
(***************************************************************************)

\* Edits of the configuration move no holder.
LEMMA EditConfigStep ==
    ASSUME IInv, NEW x \in Edits, EditConfig(x[1], x[2])
    PROVE  IInv'
  <1> USE DEF worldVars, EditConfig
  <1>1. TypeOK'
    <2>1. x[1] \in Machines /\ x[2] \in Entry \cup {Removed}
      BY InputAssumption
    <2> QED  BY <2>1 DEF IInv, TypeOK, Config
  <1>2. AttemptsLeft' /\ MemoryMatches' /\ LaunchesOnce'
    BY DEF IInv, AttemptsLeft, Known, AttemptLeft, MemoryMatches, LaunchesOnce, Live, Active
  <1>3. SameReservations /\ SameContinuations /\ SameTasks(Tasks)
    BY DEF SameReservations, SameContinuations, SameTasks, SameTask, Live
  <1> QED  BY <1>1, <1>2, <1>3, HoldingsKept DEF IInv

\* A command starts and ends only for a task that is recorded and unfinished.
LEMMA RemoteStep ==
    ASSUME IInv, NEW t \in Tasks,
           RemoteStart(t) \/ RequestLost(t) \/ \E s \in RemoteStates : RemoteEnd(t, s)
    PROVE  IInv'
  <1> USE DEF worldVars, serviceVars, RemoteStart, RequestLost, RemoteEnd
  <1>1. TypeOK'
    BY DEF IInv, TypeOK, RemoteStates
  <1>2. AttemptsLeft' /\ MemoryMatches'
    BY DEF IInv, AttemptsLeft, Known, AttemptLeft, MemoryMatches
  <1>3. /\ \A u \in Tasks \ {t} : remote'[u] = remote[u] /\ (u \in wire' <=> u \in wire)
        /\ Active(t) /\ t \notin wire'
        /\ remote'[t] # remote[t] => remote[t] \notin {"exit0", "exit1"}
    BY DEF IInv, TypeOK, Active, LaunchesOnce
  <1>4. LaunchesOnce'
    <2>1. /\ t \notin settled /\ launches[t] > 0
          /\ \A a \in probes[t] \cap {"exit0", "exit1"} : remote'[t] = a
      BY <1>3 DEF IInv, LaunchesOnce, Active
    <2> QED  BY <1>3, <2>1 DEF IInv, LaunchesOnce, Live, Active
  <1>5. SameReservations /\ SameContinuations /\ SameTasks(Tasks)
    BY DEF SameReservations, SameContinuations, SameTasks, SameTask, Live
  <1> QED  BY <1>1, <1>2, <1>4, <1>5, HoldingsKept DEF IInv

\* A crash loses the memory only.
LEMMA CrashStep ==
    ASSUME IInv, Crash
    PROVE  IInv'
  <1>1. SameReservations /\ SameContinuations /\ AttemptsLeft'
    BY DEF Crash, SameReservations, SameContinuations, IInv, AttemptsLeft, Known, AttemptLeft
  <1> QED  BY <1>1, StoppedStep DEF Crash, IInv, TypeOK

\* A restored record is the same task, unfinished if it was.
LEMMA RecoveredKeeps ==
    ASSUME NEW j \in Job
    PROVE  /\ Recovered(j) \in Job /\ SameTask(Recovered(j), j)
           /\ j.status \in Unfinished => Recovered(j).status \in Unfinished
  BY DEF Recovered, Job, SameTask, Unfinished

\* A restart finds every holder and launches nothing (newTaskManager).
LEMMA RestartStep ==
    ASSUME IInv, Restart
    PROVE  IInv'
  <1> USE DEF worldVars
  <1>1. \A t \in Tasks : /\ disk[t] \in Job => disk'[t] \in Job /\ jobs'[t] = disk'[t]
                                               /\ disk'[t] = Recovered(disk[t])
                         /\ disk[t] \notin Job => disk'[t] = disk[t] /\ jobs'[t] = NoJob
    BY RecoveredKeeps DEF Restart, Recovered
  <1>2. \A c \in ContinuationIDs : continuations'[c] = Reloaded(continuations[c])
    BY DEF Restart
  <1>3. \A c \in ContinuationIDs : continuations[c] \in Continuation \cup {Unregistered}
    BY DEF IInv, TypeOK
  <1>4. continuations' \in [ContinuationIDs -> Continuation \cup {Unregistered}]
    BY <1>3, ReloadedKeeps DEF Restart
  <1>5. SameContinuations /\ AttemptsLeft'
    BY <1>2, <1>3, ReloadedKeeps DEF SameContinuations, IInv, AttemptsLeft, Known
  <1>6. TypeOK'
    <2>1. disk' \in [Tasks -> Job \cup {NoDir, EmptyDir}]
      BY <1>1 DEF Restart, IInv, TypeOK
    <2>2. jobs' \in [Tasks -> Job \cup {NoJob}]
      BY <1>1 DEF Restart, IInv, TypeOK
    <2>3. pc' \in [Tasks -> {"idle", "starting", "launching"}] /\ up' \in BOOLEAN
      BY DEF Restart, Resumed
    <2> QED  BY <1>4, <2>1, <2>2, <2>3 DEF Restart, IInv, TypeOK
  <1>7. MemoryMatches'
    <2>1. \A t \in Tasks : pc'[t] = "idle" /\ probes'[t] = {} /\ seen'[t] = NoRequest /\ up'
      BY DEF Restart, Resumed, IInv, MemoryMatches
    <2>2. \A t \in Tasks : /\ jobs'[t] \in Job <=> disk'[t] \in Job
                           /\ jobs'[t] \in Job => SameTask(jobs'[t], disk'[t])
      BY <1>1, IdAssumption DEF SameTask
    <2> QED  BY <2>1, <2>2 DEF MemoryMatches, Restart
  <1>8. LaunchesOnce'
    <2>1. \A t \in Tasks : disk'[t] \in Job <=> disk[t] \in Job
      BY <1>1
    <2>2. \A t \in Tasks : Live(t)' <=> Live(t)
      BY <2>1 DEF Live, Restart
    <2>3. \A t \in Tasks : Live(t)' => disk'[t].status \in Unfinished /\ jobs'[t].status \in Unfinished
      BY <1>1, <2>2, RecoveredKeeps DEF IInv, LaunchesOnce, Live
    <2>4. \A t \in Tasks : pc'[t] = "idle"
      BY DEF Restart, Resumed
    <2> QED  BY <2>1, <2>3, <2>4 DEF IInv, LaunchesOnce, Active, Restart
  <1>9. SameReservations
    BY DEF Restart, SameReservations
  <1>10. SameTasks(Tasks)
    BY <1>1, RecoveredKeeps DEF SameTasks, Live, Restart
  <1> QED  BY <1>5, <1>6, <1>7, <1>8, <1>9, <1>10, HoldingsKept DEF IInv

----------------------------------------------------------------------------
(***************************************************************************)
(* The theorems                                                            *)
(***************************************************************************)

\* The invariant holds before the first request,
LEMMA InitIInv == Init => IInv
  <1> SUFFICES ASSUME Init PROVE IInv
    OBVIOUS
  <1> USE DEF Init
  <1>1. TypeOK
    BY InputAssumption DEF TypeOK, RemoteStates
  <1>2. \A t \in Tasks : ~Live(t) /\ disk[t] \notin Job /\ jobs[t] \notin Job
    BY IdAssumption DEF Live
  <1>3. AttemptsLeft
    BY DEF AttemptsLeft, Known
  <1>4. MemoryMatches
    BY <1>2 DEF MemoryMatches
  <1>5. LaunchesOnce
    BY <1>2 DEF LaunchesOnce, Active
  <1>6. GrantsKept
    BY <1>2 DEF GrantsKept, LiveTaskKeepsItsGrant, Known
  <1>7. /\ \A t \in Tasks : TaskHolds(t) = {}
        /\ \A r \in ReservationIDs : ReservationHolds(r) = {}
        /\ \A c \in ContinuationIDs : ContinuationHolds(c) = {}
    BY <1>2 DEF TaskHolds, ReservationHolds, IsUnreleased, ContinuationHolds, IsOccupied
  <1>8. HoldersExclusive
    BY <1>2, <1>7 DEF HoldersExclusive, TasksApart, ReservationsApart, ContinuationsApart,
       ReservationsApartFromContinuations, TasksApartFromReservations,
       TasksApartFromContinuations, Apart
  <1> QED  BY <1>1, <1>3, <1>4, <1>5, <1>6, <1>8 DEF IInv

\* while nothing happens,
LEMMA StutterStep ==
    ASSUME IInv, UNCHANGED vars
    PROVE  IInv'
  <1> USE DEF vars, serviceVars, worldVars
  <1>1. TypeOK'
    BY DEF IInv, TypeOK
  <1>2. AttemptsLeft' /\ MemoryMatches' /\ LaunchesOnce'
    BY DEF IInv, AttemptsLeft, Known, AttemptLeft, MemoryMatches, LaunchesOnce, Live, Active
  <1>3. SameReservations /\ SameContinuations /\ SameTasks(Tasks)
    BY DEF SameReservations, SameContinuations, SameTasks, SameTask, Live
  <1> QED  BY <1>1, <1>2, <1>3, HoldingsKept DEF IInv

\* and after every step.
LEMMA NextIInv == IInv /\ [Next]_vars => IInv'
  <1> SUFFICES ASSUME IInv, [Next]_vars PROVE IInv'
    OBVIOUS
  <1>1. CASE ClientNext
    BY <1>1, ReserveStep, ReserveGroupStep, ReleaseReservationStep, SubmitReadsStep, SubmitStep,
       AbandonStep DEF ClientNext
  <1>2. CASE AgentNext
    BY <1>2, RegisterStep, EvaluateStep, ControlStep, ClaimStep, ReportStep, DeliveryStep
       DEF AgentNext
  <1>3. CASE ServiceNext
    BY <1>3, LaunchStep, LaunchRefusedStep, LaunchReturnsStep, ProbeReadsStep, ProbeAppliesStep,
       CheckStep DEF ServiceNext, Follow
  <1>4. CASE WorldNext
    BY <1>4, EditConfigStep, RemoteStep, DeadlineStep, CrashStep, RestartStep DEF WorldNext
  <1>5. CASE UNCHANGED vars
    BY <1>5, StutterStep
  <1> QED  BY <1>1, <1>2, <1>3, <1>4, <1>5 DEF Next

\* Everything below follows from the inductive invariant: records, memory,
\* launches, grants and holdings fit together in every reachable state,
\* whatever clients, AI threads, bridges, administrators and failures do.
THEOREM Invariance == Spec => []IInv
  BY InitIInv, NextIInv, PTL DEF Spec

\* Every variable keeps its type; in particular no wake event is sent more
\* than three times and no generation passes its bound.
THEOREM TypeCorrect == Spec => []TypeOK
  <1>1. IInv => TypeOK  BY DEF IInv
  <1> QED  BY Invariance, <1>1, PTL

\* A physical machine has one holder, and a task shares a machine only with
\* the reservation or continuation it was submitted under.
THEOREM Exclusion == Spec => []HoldersExclusive
  <1>1. IInv => HoldersExclusive  BY DEF IInv
  <1> QED  BY Invariance, <1>1, PTL

\* While a command may be running, its durable record is unfinished.
THEOREM RunningRecorded == Spec => []RunningIsRecorded
  <1>1. IInv => RunningIsRecorded
    <2> SUFFICES ASSUME IInv, NEW t \in Tasks, Active(t)
                 PROVE  /\ Live(t)
                        /\ disk[t].status \in Unfinished
                        /\ up => IsUnfinished(jobs[t])
      BY DEF RunningIsRecorded
    <2>1. Live(t) /\ disk[t].status \in Unfinished
      BY DEF IInv, LaunchesOnce, Live, Active
    <2> QED  BY <2>1, LiveIsHeld DEF IInv
  <1> QED  BY Invariance, <1>1, PTL

\* Two commands that may be running never share a physical machine.
THEOREM RunningApart == Spec => []RunningExclusive
  <1>1. HoldersExclusive /\ RunningIsRecorded => RunningExclusive
    <2> SUFFICES ASSUME HoldersExclusive, RunningIsRecorded, NEW t \in Tasks, NEW u \in Tasks,
                        t # u, Active(t), Active(u)
                 PROVE  ~resourcesConflict(disk[t].alloc, disk[u].alloc)
      BY DEF RunningExclusive
    <2>1. TaskHolds(t) = {disk[t].alloc} /\ TaskHolds(u) = {disk[u].alloc}
      BY DEF RunningIsRecorded, TaskHolds
    <2> QED  BY <2>1 DEF HoldersExclusive, TasksApart, Apart
  <1> QED  BY Exclusion, RunningRecorded, <1>1, PTL

\* The launch command of a task is sent at most once, over crashes, restarts,
\* failed writes and late answers.
THEOREM LaunchedOnce == Spec => []NeverRelaunched
  <1>1. IInv => NeverRelaunched  BY DEF IInv, LaunchesOnce, NeverRelaunched
  <1> QED  BY Invariance, <1>1, PTL

\* No release, report, expiry or edit takes the machine of a live task out of
\* what its reservation or continuation holds.
THEOREM GrantsVouch == Spec => []LiveTaskKeepsItsGrant
  <1>1. IInv => LiveTaskKeepsItsGrant  BY DEF IInv, GrantsKept
  <1> QED  BY Invariance, <1>1, PTL
=============================================================================
