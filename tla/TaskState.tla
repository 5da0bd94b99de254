----------------------------- MODULE TaskState -----------------------------
(***************************************************************************)
(* The state of TaskManager (tasks.go): what the service holds in memory,  *)
(* what it has written below its data directory, and the remote machines.  *)
(*                                                                         *)
(* Every handler of TaskManager runs under one mutex, so a handler is one  *)
(* step.  The reservation and the continuation stores are replaced by one  *)
(* atomic file write before the memory changes, so one variable is both    *)
(* the memory and the file.  A task record is changed in memory first and  *)
(* written afterwards, and the write may fail: jobs is the memory, disk    *)
(* the durable record.                                                     *)
(***************************************************************************)
EXTENDS ResourceIdentity, FiniteSets

CONSTANTS
    Tasks,            \* task IDs clients use
    ReservationIDs,   \* reservation IDs clients use
    ContinuationIDs,  \* continuation IDs clients use
    Senders,          \* bridge processes that deliver wake events
    Plan,             \* Plan[c]: the task IDs continuation c registers
    PriorTasks,       \* PriorTasks[c]: its existingTaskIds
    InitialConfig,    \* the configuration the service starts with
    Edits,            \* the edits <<machine, entry or Removed>> an administrator may make
    Faults,           \* which failures occur, out of FaultKinds
    MaxGeneration,    \* bound on the generation of a continuation
    MaxProbes,        \* bound on the probes of a task whose answers differ and are in flight
    NoJob, NoDir, EmptyDir, NoReservation, Unregistered, NoWake, Removed, NoRequest

\* crash: the service stops between two handlers.  torn: it stops inside
\* Submit, between its writes.  save: a task directory or record cannot be
\* written.
FaultKinds == {"crash", "torn", "save"}

VARIABLES
    config,         \* config[m]: the stored entry of machine m, or Removed
    jobs,           \* jobs[t]: the record in memory, or NoJob
    disk,           \* disk[t]: the durable record, EmptyDir or NoDir
    reservations,   \* reservations[r], or NoReservation
    continuations,  \* continuations[c], or Unregistered
    up,             \* the service is running
    seen,           \* seen[t]: the configuration a waiting Submit of t has read
    pc,             \* pc[t]: how far follow(t, launch) has got
    probes,         \* probes[t]: answers of remote probes not applied yet
    wire,           \* tasks whose launch request may still reach the machine
    remote,         \* remote[t]: the task directory and processes of t
    launches,       \* history: how often Launch was called for t
    settled         \* history: tasks whose end the service has recorded

serviceVars == <<config, jobs, disk, reservations, continuations, up, seen, pc, probes>>
worldVars == <<wire, remote, launches>>
vars == <<serviceVars, worldVars, settled>>

Config == [Machines -> Entry \cup {Removed}]

Unfinished == {"dispatching", "running", "unknown"}
Finished == {"succeeded", "failed", "abandoned"}

Job == [status: Unfinished \cup Finished,
        exited: BOOLEAN,                       \* ExitCode is set
        reservation: ReservationIDs \cup {None},
        continuation: ContinuationIDs \cup {None},
        generation: 0..MaxGeneration,          \* of the grant it was started with
        alloc: Allocation]

\* A single reservation has no task; a group names the one task it may launch.
Reservation == [coordinator: Allocation,
                allocations: SUBSET Allocation,
                task: Tasks \cup {None},
                intent: BOOLEAN,
                released: BOOLEAN]

OccupiedStates == {"offered", "claimed", "executing", "awaiting_review", "recovery_needed"}
TerminalStates == {"completed", "cancelled", "expired"}
ContinuationStates == OccupiedStates \cup TerminalStates \cup {"waiting_resources", "paused"}

\* Wake IDs are random; one generation makes at most one wake of each kind,
\* so <<generation, kind>> identifies it.
Wake == [generation: 0..MaxGeneration,
         kind: {"resources_ready", "tasks_finished"},
         status: {"pending", "sending", "delivered", "delivery_uncertain", "failed"},
         sender: Senders \cup {None},
         attempts: 0..3,
         overdue: BOOLEAN]                     \* sending for more than 60 seconds

\* A grant ID is made afresh with each new generation and is named by it.
Continuation == [state: ContinuationStates,
                 generation: 0..MaxGeneration,
                 grant: 0..MaxGeneration,      \* 0: no grant
                 mode: {"bridge", "heartbeat"},
                 allocations: SUBSET (Tasks \X Allocation),
                 offerUntil: {"nil", "future", "past"},
                 expiresAt: {"future", "past"},
                 wake: Wake \cup {NoWake},
                 intents: SUBSET Tasks,
                 stop: {"none", "pause", "cancel"}]

Answers == {"running", "unknown", "exit0", "exit1"}
RemoteStates == {"absent", "running", "orphan", "dead", "exit0", "exit1"}

ASSUME IdAssumption ==
    /\ None \notin Tasks \cup ReservationIDs \cup ContinuationIDs
    /\ ReservationIDs \cap ContinuationIDs = {}
    /\ NoJob \notin Job /\ {NoDir, EmptyDir} \cap Job = {} /\ NoDir # EmptyDir
    /\ NoReservation \notin Reservation
    /\ Unregistered \notin Continuation /\ NoWake \notin Wake
    /\ Removed \notin Entry /\ NoRequest \notin Config

ASSUME InputAssumption ==
    /\ Plan \in [ContinuationIDs -> SUBSET Tasks]
    /\ \A c \in ContinuationIDs : Plan[c] # {}
    /\ PriorTasks \in [ContinuationIDs -> SUBSET Tasks]
    /\ InitialConfig \in Config
    /\ Edits \subseteq Machines \X (Entry \cup {Removed})
    /\ Faults \subseteq FaultKinds
    /\ MaxGeneration \in Nat /\ MaxProbes \in Nat

TypeOK ==
    /\ config \in Config
    /\ jobs \in [Tasks -> Job \cup {NoJob}]
    /\ disk \in [Tasks -> Job \cup {NoDir, EmptyDir}]
    /\ reservations \in [ReservationIDs -> Reservation \cup {NoReservation}]
    /\ continuations \in [ContinuationIDs -> Continuation \cup {Unregistered}]
    /\ up \in BOOLEAN
    /\ seen \in [Tasks -> Config \cup {NoRequest}]
    /\ pc \in [Tasks -> {"idle", "starting", "launching"}]
    /\ probes \in [Tasks -> SUBSET Answers]
    /\ wire \in SUBSET Tasks
    /\ remote \in [Tasks -> RemoteStates]
    /\ launches \in [Tasks -> Nat]
    /\ settled \in SUBSET Tasks

----------------------------------------------------------------------------
(***************************************************************************)
(* Occupancy                                                               *)
(***************************************************************************)

Configured(cfg, m) == cfg[m] # Removed
AllocationOf(cfg, m) == machineAllocation(m, cfg[m])

IsUnfinished(j) == j # NoJob /\ j.status \in Unfinished
IsOccupied(x) == x # Unregistered /\ x.state \in OccupiedStates
IsUnreleased(r) == r # NoReservation /\ ~r.released

AllocationsOf(x) == {p[2] : p \in x.allocations}

\* A form of HeldByContinuations that counts only what has been claimed.
HeldByClaims(owner) ==
    UNION {AllocationsOf(continuations[c]) :
              c \in {d \in ContinuationIDs \ {owner} : /\ IsOccupied(continuations[d])
                                                      /\ continuations[d].state # "offered"}}

HeldByContinuations(owner) ==
    UNION {AllocationsOf(continuations[c]) :
              c \in {d \in ContinuationIDs \ {owner} : IsOccupied(continuations[d])}}

\* A form of HeldByReservations that knows single reservations only.
HeldByCoordinators(owner) ==
    {reservations[r].coordinator :
        r \in {s \in ReservationIDs \ {owner} : IsUnreleased(reservations[s])}}

HeldByReservations(owner) ==
    UNION {reservations[r].allocations :
              r \in {s \in ReservationIDs \ {owner} : IsUnreleased(reservations[s])}}

\* An unfinished task holds what it recorded and what its machine is now.
HeldByTasks(cfg) ==
    LET live == {t \in Tasks : IsUnfinished(jobs[t])}
    IN {jobs[t].alloc : t \in live}
         \cup {AllocationOf(cfg, m) : m \in {n \in Machines :
                    Configured(cfg, n) /\ \E t \in live : jobs[t].alloc.machineID = n}}

Held(cfg, owner) ==
    HeldByContinuations(owner) \cup HeldByReservations(owner) \cup HeldByTasks(cfg)

\* readyForReservationLocked without the monitor: a machine it returns is
\* Free, and whether a Free machine also has a fresh sample and is not being
\* cleaned up is left open, so callers choose among the Free machines.
Free(cfg, m, owner) ==
    /\ Configured(cfg, m) /\ cfg[m].enabled
    /\ ~conflictsWithAny(AllocationOf(cfg, m), Held(cfg, owner))

\* The recorded allocation is what the configuration says.
Unchanged(cfg, a) == Configured(cfg, a.machineID) /\ AllocationOf(cfg, a.machineID) = a

----------------------------------------------------------------------------
(***************************************************************************)
(* The remote machines (the scripts of tasks_ssh.go)                       *)
(***************************************************************************)

\* A launch request, or the command it started, can still use the machine.
\* An orphan is a command whose runner died without leaving an exit code.
Active(t) == t \in wire \/ remote[t] \in {"running", "orphan"}

\* mkdir "$dir" lets only the first request start the command.
RemoteStart(t) ==
    /\ t \in wire
    /\ wire' = wire \ {t}
    /\ remote' = [remote EXCEPT ![t] = IF @ = "absent" THEN "running" ELSE @]
    /\ UNCHANGED <<serviceVars, launches, settled>>

RequestLost(t) ==
    /\ t \in wire
    /\ wire' = wire \ {t}
    /\ UNCHANGED <<serviceVars, remote, launches, settled>>

\* The command ends with its exit code, or the runner or both die first.
RemoteEnd(t, s) ==
    /\ \/ remote[t] = "running" /\ s \in {"exit0", "exit1", "orphan", "dead"}
       \/ remote[t] = "orphan" /\ s = "dead"
    /\ remote' = [remote EXCEPT ![t] = s]
    /\ UNCHANGED <<serviceVars, wire, launches, settled>>

\* What a probe script can print now; a failed query is answered "unknown".
\* The PID of a dead runner may be in use again.
ProbeAnswers(s) ==
    CASE s = "absent" -> {"unknown"}
      [] s = "exit0" -> {"exit0", "unknown"}
      [] s = "exit1" -> {"exit1", "unknown"}
      [] OTHER -> {"running", "unknown"}
============================================================================
