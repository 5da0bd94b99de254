--------------------------- MODULE TaskController ---------------------------
(***************************************************************************)
(* The task controller: the handlers of TaskManager, called by clients, AI *)
(* threads, bridges, operators and its own goroutines, with the remote     *)
(* machines and the failures around it, and what it promises.              *)
(***************************************************************************)
EXTENDS TaskManager

Init ==
    /\ config = InitialConfig
    /\ jobs = [t \in Tasks |-> NoJob]
    /\ disk = [t \in Tasks |-> NoDir]
    /\ reservations = [r \in ReservationIDs |-> NoReservation]
    /\ continuations = [c \in ContinuationIDs |-> Unregistered]
    /\ up = TRUE
    /\ seen = [t \in Tasks |-> NoRequest]
    /\ pc = [t \in Tasks |-> "idle"]
    /\ probes = [t \in Tasks |-> {}]
    /\ wire = {}
    /\ remote = [t \in Tasks |-> "absent"]
    /\ launches = [t \in Tasks |-> 0]
    /\ settled = {}

ClientNext ==
    \/ \E r \in ReservationIDs, m \in Machines : Reserve(r, m)
    \/ \E r \in ReservationIDs, ms \in SUBSET Machines, m \in Machines, t \in Tasks :
          ReserveGroup(r, ms, m, t)
    \/ \E r \in ReservationIDs : ReleaseReservation(r)
    \/ \E t \in Tasks : SubmitReads(t) \/ SubmitAnswered(t)
    \/ \E t \in Tasks, q \in Request, m \in Machines : Submit(t, q, m)
    \/ \E t \in Tasks : Abandon(t)

AgentNext ==
    \E c \in ContinuationIDs :
       \/ \E mode \in {"bridge", "heartbeat"} : RegisterContinuation(c, mode)
       \/ EvaluateContinuation(c)
       \/ \E a \in {"bridge", "heartbeat", "pause", "cancel", "resume"} : ControlContinuation(c, a)
       \/ \E g \in 0..MaxGeneration, k \in {"resources_ready", "tasks_finished"} :
             \/ ClaimContinuation(c, g, k)
             \/ ReportContinuation(c, g, k)
             \/ \E s \in Senders, a \in {"begin", "delivered", "uncertain", "not-sent"} :
                   DeliveryContinuation(c, s, g, k, a)

Follow(t) ==
    Launch(t) \/ LaunchRefused(t) \/ LaunchReturns(t) \/ ProbeReads(t)
      \/ \E a \in Answers : ProbeApplies(t, a)

ServiceNext ==
    \/ \E t \in Tasks : Follow(t)
    \/ \E c \in ContinuationIDs : CheckContinuation(c)

WorldNext ==
    \/ \E x \in Edits : EditConfig(x[1], x[2])
    \/ \E t \in Tasks : RemoteStart(t) \/ RequestLost(t) \/ \E s \in RemoteStates : RemoteEnd(t, s)
    \/ \E c \in ContinuationIDs :
          OfferDeadlinePasses(c) \/ AuthorizationEnds(c) \/ ReceiptOverdue(c)
    \/ Crash
    \/ Restart

Next == ClientNext \/ AgentNext \/ ServiceNext \/ WorldNext

Spec == Init /\ [][Next]_vars

\* The goroutines of the service run, deadlines pass, and a launch request
\* arrives or is lost.  Clients, AI threads, bridges and commands owe nothing.
Fairness ==
    /\ \A t \in Tasks : /\ WF_vars(Launch(t) \/ LaunchRefused(t))
                        /\ WF_vars(LaunchReturns(t))
                        /\ WF_vars(RemoteStart(t) \/ RequestLost(t))
    /\ \A c \in ContinuationIDs : /\ WF_vars(CheckContinuation(c))
                                  /\ WF_vars(OfferDeadlinePasses(c))
                                  /\ WF_vars(ReceiptOverdue(c))

FairSpec == Spec /\ Fairness

----------------------------------------------------------------------------
(***************************************************************************)
(* Exclusion                                                               *)
(***************************************************************************)

\* A task whose record is durable and whose end was never recorded.
Live(t) == disk[t] \in Job /\ t \notin settled

\* Two remote commands, or launch requests on their way, never share a
\* physical machine, whatever crashed, was resent or was edited in between
\* (the occupancy check of readyForReservationLocked, tasks.go).
RunningExclusive ==
    \A t, u \in Tasks :
        t # u /\ Active(t) /\ Active(u) => ~resourcesConflict(disk[t].alloc, disk[u].alloc)

\* What each kind of holder holds.
TaskHolds(t) == IF Live(t) THEN {disk[t].alloc} ELSE {}
ReservationHolds(r) == IF IsUnreleased(reservations[r]) THEN reservations[r].allocations ELSE {}
ContinuationHolds(c) ==
    IF IsOccupied(continuations[c]) THEN AllocationsOf(continuations[c]) ELSE {}

Apart(A, B) == \A a \in A, b \in B : ~resourcesConflict(a, b)

\* A physical machine has one holder: a task shares it only with the
\* reservation or the continuation it was submitted under, and no two
\* reservations, continuations or tasks share any (resource_identity.go,
\* docs/task-controller.md).
TasksApart == \A t, u \in Tasks : t # u => Apart(TaskHolds(t), TaskHolds(u))
ReservationsApart ==
    \A r, s \in ReservationIDs : r # s => Apart(ReservationHolds(r), ReservationHolds(s))
ContinuationsApart ==
    \A c, d \in ContinuationIDs : c # d => Apart(ContinuationHolds(c), ContinuationHolds(d))
ReservationsApartFromContinuations ==
    \A r \in ReservationIDs, c \in ContinuationIDs :
        Apart(ReservationHolds(r), ContinuationHolds(c))
TasksApartFromReservations ==
    \A t \in Tasks, r \in ReservationIDs :
        Live(t) /\ disk[t].reservation # r => Apart(TaskHolds(t), ReservationHolds(r))
TasksApartFromContinuations ==
    \A t \in Tasks, c \in ContinuationIDs :
        Live(t) /\ disk[t].continuation # c => Apart(TaskHolds(t), ContinuationHolds(c))

HoldersExclusive ==
    /\ TasksApart
    /\ ReservationsApart
    /\ ContinuationsApart
    /\ ReservationsApartFromContinuations
    /\ TasksApartFromReservations
    /\ TasksApartFromContinuations

\* The reservation or continuation a task j was submitted under vouches for it.
ReservationVouches(r, j) == IsUnreleased(r) /\ j.alloc \in r.allocations

ContinuationVouches(x, t, j) ==
    /\ IsOccupied(x) /\ x.state # "offered"
    /\ x.grant = j.generation /\ x.generation = j.generation
    /\ t \in x.intents
    /\ <<t, j.alloc>> \in x.allocations

\* A live task's machine stays part of what its reservation or continuation
\* holds, under the grant it was started with, so releasing either cannot
\* pull the machine from under it (ReleaseReservation, ReportContinuation,
\* the expiry of CheckContinuations).
LiveTaskKeepsItsGrant ==
    \A t \in Tasks : Live(t) =>
        LET j == disk[t] IN
        /\ j.reservation # None => ReservationVouches(reservations[j.reservation], j)
        /\ j.continuation # None => ContinuationVouches(continuations[j.continuation], t, j)

----------------------------------------------------------------------------
(***************************************************************************)
(* Launching at most once                                                  *)
(***************************************************************************)

\* The launch command of a task ID is sent at most once, ever, over
\* retries, restarts and failed writes (follow, newTaskManager: an
\* interrupted launch is only queried).
NeverRelaunched == \A t \in Tasks : launches[t] <= 1

\* While a command may be running, its durable record is unfinished, so a
\* restart finds it and keeps the machine occupied (Submit writes the record
\* before follow starts).
RunningIsRecorded ==
    \A t \in Tasks : Active(t) => /\ Live(t)
                                  /\ disk[t].status \in Unfinished
                                  /\ up => IsUnfinished(jobs[t])

----------------------------------------------------------------------------
(***************************************************************************)
(* Outcomes                                                                *)
(***************************************************************************)

\* A recorded exit code is the remote command's own (probe: never invents
\* an exit code).
OutcomeFaithful ==
    \A t \in Tasks : \A j \in {jobs[t], disk[t]} \cap Job :
        /\ j.status = "succeeded" => j.exited /\ remote[t] = "exit0"
        /\ j.status = "failed" => IF j.exited THEN remote[t] = "exit1" ELSE launches[t] = 0

\* While the service runs, a finished task keeps its outcome: late answers
\* and a second probe do not change it (observe and complete look at
\* FinishedAt again).
FinishedIsFinal ==
    \A t \in Tasks :
        jobs[t] # NoJob /\ jobs[t].status \in Finished /\ up' => jobs'[t] = jobs[t]

OutcomesAreFinal == [][FinishedIsFinal]_vars

----------------------------------------------------------------------------
(***************************************************************************)
(* Continuations                                                           *)
(***************************************************************************)

\* A claimed grant, or one whose tasks have started, is given back only when
\* no task of it was ever launched, or when all of them are known to have
\* ended (ReportContinuation; nothing else frees a claimed grant).
GrantHeldUntilQuiet ==
    \A c \in ContinuationIDs :
        /\ IsOccupied(continuations[c]) /\ continuations[c].state # "offered"
        /\ ~IsOccupied(continuations'[c])
        => \/ \A t \in Plan[c] : launches[t] = 0
           \/ \A t \in Plan[c] : remote[t] \in {"exit0", "exit1"}

GrantsHeldUntilQuiet == [][GrantHeldUntilQuiet]_vars

\* A new generation is never opened over a wake event whose delivery is in
\* doubt: the bridge must find out first (CheckContinuations and set-mode
\* look for a delivery in progress; a heartbeat continuation has none).
GenerationAfterReceipt ==
    \A c \in ContinuationIDs :
        /\ Known(c) /\ continuations'[c].generation # continuations[c].generation
        => ~(continuations[c].wake # NoWake
               /\ continuations[c].wake.status \in {"sending", "delivery_uncertain"})

GenerationsAfterReceipt == [][GenerationAfterReceipt]_vars

\* An experiment whose stop was requested is not offered machines, and once
\* paused or cancelled it holds none (ControlContinuation, ReportContinuation).
StopsAreHonoured ==
    \A c \in ContinuationIDs : Known(c) =>
        /\ continuations[c].stop # "none" =>
              continuations[c].state \notin {"waiting_resources", "offered"}
        /\ ~IsOccupied(continuations[c]) =>
              continuations[c].allocations = {} /\ continuations[c].grant = 0

----------------------------------------------------------------------------
(***************************************************************************)
(* Restarting                                                              *)
(***************************************************************************)

\* Whatever the service has written, newTaskManager accepts it: no sequence
\* of steps, failed writes included, leaves a store that stops the next start.
StoreAlwaysLoads == Loads

\* "A recovered intent without a job is uncertain, never a licence to
\* relaunch" (continuations.go): the launch intent of a continuation without a
\* record is recovered by the next start.
RecoveredIntentLoads ==
    \A c \in ContinuationIDs : Known(c) =>
        \A t \in continuations[c].intents : disk[t] \notin Job => DirectoryLoads(t)

\* docs/atomic-group-reservations.md: a group whose launch intent is durable
\* and whose task record is missing is kept, never released.
GroupIntentKept ==
    \A r \in ReservationIDs :
        /\ IsUnreleased(reservations[r]) /\ reservations[r].intent
        /\ \A t \in Tasks : jobs[t] = NoJob \/ jobs[t].reservation # r
        => IsUnreleased(reservations'[r])

GroupIntentsKept == [][GroupIntentKept]_vars

\* docs/task-controller.md: a machine has at most one unfinished task.
OneUnfinishedPerMachine ==
    \A t, u \in Tasks :
        t # u /\ IsUnfinished(jobs[t]) /\ IsUnfinished(jobs[u])
        => jobs[t].alloc.machineID # jobs[u].alloc.machineID

----------------------------------------------------------------------------
(***************************************************************************)
(* The inductive invariant                                                 *)
(***************************************************************************)

\* A pending wake event has an attempt left.
AttemptLeft(x) == x.wake # NoWake /\ x.wake.status = "pending" => x.wake.attempts < 3
AttemptsLeft == \A c \in ContinuationIDs : Known(c) => AttemptLeft(continuations[c])

\* The same task, whatever its status.
SameTask(j, k) ==
    /\ j.reservation = k.reservation
    /\ j.continuation = k.continuation
    /\ j.generation = k.generation
    /\ j.alloc = k.alloc

\* The memory has exactly the durable records; a stopped service has none.
MemoryMatches ==
    /\ ~up => \A t \in Tasks : /\ jobs[t] = NoJob /\ pc[t] = "idle"
                               /\ probes[t] = {} /\ seen[t] = NoRequest
    /\ up => \A t \in Tasks : /\ jobs[t] \in Job <=> disk[t] \in Job
                              /\ jobs[t] \in Job => SameTask(jobs[t], disk[t])
    /\ \A t \in Tasks :
          /\ pc[t] # "idle" => jobs[t] \in Job /\ jobs[t].status = "dispatching"
          /\ probes[t] # {} => jobs[t] \in Job /\ jobs[t].status # "dispatching"

\* A launch is preceded by a record, and not repeated; the exit codes that
\* probes carry are there; what the service believes ended has ended.
LaunchesOnce ==
    \A t \in Tasks :
        /\ launches[t] <= 1
        /\ pc[t] = "starting" => launches[t] = 0
        /\ t \in wire \/ remote[t] # "absent" => launches[t] > 0
        /\ t \in wire => remote[t] = "absent"
        /\ launches[t] > 0 => disk[t] \in Job
        /\ \A a \in probes[t] \cap {"exit0", "exit1"} : remote[t] = a
        /\ t \in settled => disk[t] \in Job /\ ~Active(t) /\ pc[t] # "starting"
        /\ Live(t) => disk[t].status \in Unfinished /\ (up => jobs[t].status \in Unfinished)

\* What a reservation and a continuation vouch for.
GrantsKept ==
    /\ LiveTaskKeepsItsGrant
    /\ \A r \in ReservationIDs : reservations[r] # NoReservation =>
          reservations[r].coordinator \in reservations[r].allocations
    /\ \A c \in ContinuationIDs : Known(c) =>
          \A p \in continuations[c].allocations : p[1] \in Plan[c]

IInv ==
    /\ TypeOK
    /\ AttemptsLeft
    /\ MemoryMatches
    /\ LaunchesOnce
    /\ GrantsKept
    /\ HoldersExclusive

\* An exit code in a record is the machine's own, and a task fails without
\* one only if it was never launched.
OutcomeKnown(t, j) ==
    /\ j.exited => \/ j.status = "succeeded" /\ remote[t] = "exit0"
                   \/ j.status = "failed" /\ remote[t] = "exit1"
    /\ j.status = "succeeded" => j.exited
    /\ j.status = "failed" /\ ~j.exited => launches[t] = 0

OutcomesKnown == \A t \in Tasks : \A j \in {jobs[t], disk[t]} \cap Job : OutcomeKnown(t, j)

\* One machine for each planned task, and no two of them the same.
WholeBundle(c, x) ==
    /\ {p[1] : p \in x.allocations} = Plan[c]
    /\ \A p, o \in x.allocations : p # o => ~resourcesConflict(p[2], o[2])

\* A continuation has its whole bundle under a grant of this generation, or
\* nothing; a launch intent keeps it from being offered again; a heartbeat
\* continuation has no delivery in doubt.
Orderly(c, x) ==
    /\ IF IsOccupied(x)
       THEN WholeBundle(c, x) /\ x.grant > 0 /\ x.grant = x.generation /\ x.wake # NoWake
       ELSE x.allocations = {} /\ x.grant = 0
    /\ x.state = "offered" => x.offerUntil # "nil"
    /\ x.intents # {} => x.state \in (OccupiedStates \ {"offered"}) \cup {"completed"}
    /\ x.stop # "none" => x.state \notin {"waiting_resources", "offered"}
    /\ x.mode = "heartbeat" => ~DeliveryOpen(x)

ContinuationsOrderly == \A c \in ContinuationIDs : Known(c) => Orderly(c, continuations[c])

\* What is written: only a stop inside Submit leaves a directory without a
\* record, and every record fits its reservation and its continuation.
StoreInv ==
    /\ OutcomesKnown
    /\ ContinuationsOrderly
    /\ \A t \in Tasks : RecordLoads(t)
    /\ "torn" \notin Faults => \A t \in Tasks : disk[t] # EmptyDir

Inductive == IInv /\ StoreInv

----------------------------------------------------------------------------
(***************************************************************************)
(* Progress                                                                *)
(***************************************************************************)

StateOf(c) == IF Known(c) THEN continuations[c].state ELSE "unregistered"

\* An offer does not hold its machines for ever: it is claimed, withdrawn,
\* or lapses (CheckContinuations).
OffersEnd == \A c \in ContinuationIDs : StateOf(c) = "offered" ~> StateOf(c) # "offered"

\* Once all tasks of a grant have finished, the experiment is put up for
\* review (CheckContinuations).
FinishedTasksAreReviewed ==
    \A c \in ContinuationIDs :
        /\ StateOf(c) \in {"executing", "recovery_needed"}
        /\ \A t \in Plan[c] : jobs[t] # NoJob /\ ~IsUnfinished(jobs[t])
        ~> StateOf(c) \notin {"executing", "recovery_needed"}

\* A submitted task does not stay dispatching: the follow goroutine records
\* what came of the launch (follow).
DispatchEnds ==
    \A t \in Tasks : (jobs[t] # NoJob /\ jobs[t].status = "dispatching")
                     ~> ~(jobs[t] # NoJob /\ jobs[t].status = "dispatching")

\* A wake event is not left sending: without a receipt it becomes uncertain
\* (CheckContinuations).
SendingEnds ==
    \A c \in ContinuationIDs :
        (Known(c) /\ DeliverySending(continuations[c]))
        ~> ~(Known(c) /\ DeliverySending(continuations[c]))
=============================================================================
