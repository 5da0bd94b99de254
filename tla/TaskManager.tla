---------------------------- MODULE TaskManager ----------------------------
(***************************************************************************)
(* Durable remote tasks (tasks.go): submission, the follow goroutine that  *)
(* launches and polls a task, probes, manual resolution, and the restart   *)
(* of the service from what it had written.                                *)
(***************************************************************************)
EXTENDS Reservations, Continuations

\* Who asks: nobody (None), a reservation, or a continuation with the
\* generation of its grant.
Request == [reservation: ReservationIDs \cup {None},
            continuation: ContinuationIDs \cup {None},
            generation: 0..MaxGeneration]

OwnerOf(q) == IF q.continuation # None THEN q.continuation ELSE q.reservation

Admitted(cfg, t, q, m) ==
    /\ NotPlannedElsewhere(t, q.continuation)
    /\ IF q.continuation # None
       THEN q.reservation = None /\ ContinuationAdmits(cfg, q.continuation, q.generation, t, m)
       ELSE q.generation = 0
    /\ q.reservation # None => ReservationAdmits(cfg, q.reservation, t, m)

\* The launch intent is durable before the task record exists.
RecordIntent(t, q) ==
    /\ continuations' = IF q.continuation = None THEN continuations
                        ELSE [continuations EXCEPT ![q.continuation] = WithLaunchIntent(@, t)]
    /\ reservations' = IF q.reservation = None THEN reservations
                       ELSE [reservations EXCEPT ![q.reservation] = WithIntent(@)]

\* The memory of a service that has stopped.
Stopped ==
    /\ up' = FALSE
    /\ jobs' = [t \in Tasks |-> NoJob]
    /\ seen' = [t \in Tasks |-> NoRequest]
    /\ pc' = [t \in Tasks |-> "idle"]
    /\ probes' = [t \in Tasks |-> {}]

Dispatched(cfg, q, m) ==
    [status |-> "dispatching", exited |-> FALSE, reservation |-> q.reservation,
     continuation |-> q.continuation, generation |-> q.generation,
     alloc |-> AllocationOf(cfg, m)]

\* Submit reads the configuration before it waits for the mutex.
SubmitReads(t) ==
    /\ up
    /\ seen[t] = NoRequest
    /\ seen' = [seen EXCEPT ![t] = config]
    /\ UNCHANGED <<config, jobs, disk, reservations, continuations, up, pc, probes, worldVars, settled>>

\* Known IDs are answered from the record and never submitted again.
\* Compaction of old records keeps their ID, request hash and status, so a
\* compacted record is still jobs[t] and disk[t] here.
SubmitAnswered(t) ==
    /\ seen[t] # NoRequest
    /\ seen' = [seen EXCEPT ![t] = NoRequest]
    /\ UNCHANGED <<config, jobs, disk, reservations, continuations, up, pc, probes, worldVars, settled>>

Submit(t, q, m) ==
    /\ seen[t] # NoRequest
    /\ jobs[t] = NoJob
    /\ Admitted(seen[t], t, q, m)
    /\ Free(seen[t], m, OwnerOf(q))
    /\ RecordIntent(t, q)
    /\ \/ /\ disk[t] = NoDir
          /\ jobs' = [jobs EXCEPT ![t] = Dispatched(seen[t], q, m)]
          /\ disk' = [disk EXCEPT ![t] = Dispatched(seen[t], q, m)]
          /\ pc' = [pc EXCEPT ![t] = "starting"]
          /\ seen' = [seen EXCEPT ![t] = NoRequest]
          /\ UNCHANGED <<up, probes>>
       \/ /\ disk[t] = EmptyDir \/ "save" \in Faults   \* Mkdir or the record fails
          /\ seen' = [seen EXCEPT ![t] = NoRequest]
          /\ UNCHANGED <<jobs, disk, pc, up, probes>>
       \/ /\ "torn" \in Faults                         \* stopped before or after Mkdir
          /\ \/ UNCHANGED disk
             \/ disk[t] = NoDir /\ disk' = [disk EXCEPT ![t] = EmptyDir]
          /\ Stopped
    /\ UNCHANGED <<config, worldVars, settled>>

----------------------------------------------------------------------------

\* The memory takes the new record; its write may fail.
Saved(t, j) ==
    /\ jobs' = [jobs EXCEPT ![t] = j]
    /\ \/ disk' = [disk EXCEPT ![t] = j]
       \/ "save" \in Faults /\ UNCHANGED disk

\* profile: the machine still has the address the task was sent to.
Reachable(j, requireEnabled) ==
    \E m \in Machines : /\ m = j.alloc.machineID /\ Configured(config, m)
                        /\ requireEnabled => config[m].enabled
                        /\ config[m].host = j.alloc.host /\ config[m].port = j.alloc.port

\* follow(t, true), first part: call Launch, or record that it cannot be called.
Launch(t) ==
    /\ pc[t] = "starting"
    /\ Reachable(jobs[t], TRUE)
    /\ pc' = [pc EXCEPT ![t] = "launching"]
    /\ wire' = wire \cup {t}
    /\ launches' = [launches EXCEPT ![t] = @ + 1]
    /\ UNCHANGED <<config, jobs, disk, reservations, continuations, up, seen, probes, remote, settled>>

LaunchRefused(t) ==
    /\ pc[t] = "starting"
    /\ ~Reachable(jobs[t], TRUE)
    /\ pc' = [pc EXCEPT ![t] = "idle"]
    /\ Saved(t, [jobs[t] EXCEPT !.status = "failed"])
    /\ settled' = settled \cup {t}
    /\ UNCHANGED <<config, reservations, continuations, up, seen, probes, worldVars>>

\* A form of LaunchReturns that waits for the confirmation of the machine.
LaunchReturnsConfirmed(t) ==
    /\ pc[t] = "launching"
    /\ pc' = [pc EXCEPT ![t] = "idle"]
    /\ t \notin wire /\ remote[t] # "absent" /\ Saved(t, [jobs[t] EXCEPT !.status = "running"])
    /\ UNCHANGED <<config, reservations, continuations, up, seen, probes, worldVars, settled>>

\* Launch returns: "started" was read, or anything else went wrong.
LaunchReturns(t) ==
    /\ pc[t] = "launching"
    /\ pc' = [pc EXCEPT ![t] = "idle"]
    /\ \/ t \notin wire /\ remote[t] # "absent" /\ Saved(t, [jobs[t] EXCEPT !.status = "running"])
       \/ Saved(t, [jobs[t] EXCEPT !.status = "unknown"])
    /\ UNCHANGED <<config, reservations, continuations, up, seen, probes, worldVars, settled>>

\* probe, first part: the poll loop or the probe API asks the machine.
ProbeReads(t) ==
    /\ up
    /\ IsUnfinished(jobs[t]) /\ jobs[t].status # "dispatching"
    /\ Cardinality(probes[t]) < MaxProbes
    /\ \E a \in IF Reachable(jobs[t], FALSE) THEN ProbeAnswers(remote[t]) ELSE {"unknown"} :
          probes' = [probes EXCEPT ![t] = @ \cup {a}]
    /\ UNCHANGED <<config, jobs, disk, reservations, continuations, up, seen, pc, worldVars, settled>>

\* A form of AfterAnswer that takes a lost task for a failed one.
AfterAnswerInvented(j, a) ==
    CASE a = "exit0" -> [j EXCEPT !.status = "succeeded", !.exited = TRUE]
      [] a \in {"exit1", "unknown"} -> [j EXCEPT !.status = "failed", !.exited = TRUE]
      [] OTHER -> [j EXCEPT !.status = a]

\* complete and observe, whatever was answered in the meantime.
AfterAnswer(j, a) ==
    CASE a = "exit0" -> [j EXCEPT !.status = "succeeded", !.exited = TRUE]
      [] a = "exit1" -> [j EXCEPT !.status = "failed", !.exited = TRUE]
      [] OTHER -> [j EXCEPT !.status = a]

\* A form of StillOpen without the second look at FinishedAt.
StillOpenUnchecked(t) == TRUE

\* FinishedAt is looked at again: the answer may be older than the record.
StillOpen(t) == IsUnfinished(jobs[t])

\* probe, second part: the answer is applied under the mutex.
ProbeApplies(t, a) ==
    /\ a \in probes[t]
    /\ probes' = [probes EXCEPT ![t] = @ \ {a}]
    /\ IF StillOpen(t)
       THEN /\ Saved(t, AfterAnswer(jobs[t], a))
            /\ settled' = IF a \in {"exit0", "exit1"} THEN settled \cup {t} ELSE settled
       ELSE UNCHANGED <<jobs, disk, settled>>
    /\ UNCHANGED <<config, reservations, continuations, up, seen, pc, worldVars>>

MayAbandon(t) == jobs[t] # NoJob /\ jobs[t].status = "unknown"

\* The operator has verified that nothing of the task is left running, and
\* says so (confirm = remote-stopped).  A failed write undoes the step.
Abandon(t) ==
    /\ up
    /\ MayAbandon(t)
    /\ ~Active(t)
    /\ jobs' = [jobs EXCEPT ![t].status = "abandoned"]
    /\ disk' = [disk EXCEPT ![t] = jobs'[t]]
    /\ settled' = settled \cup {t}
    /\ UNCHANGED <<config, reservations, continuations, up, seen, pc, probes, worldVars>>

----------------------------------------------------------------------------

\* The administrator edits or removes a machine, whoever holds it.
EditConfig(m, e) ==
    /\ up
    /\ config' = [config EXCEPT ![m] = e]
    /\ UNCHANGED <<jobs, disk, reservations, continuations, up, seen, pc, probes, worldVars, settled>>

Crash ==
    /\ up /\ "crash" \in Faults
    /\ Stopped
    /\ UNCHANGED <<config, disk, reservations, continuations, worldVars, settled>>

\* A directory without a record is accepted only for a group launch intent.
DirectoryLoads(t) ==
    disk[t] = EmptyDir =>
        \E r \in ReservationIDs : /\ reservations[r] # NoReservation
                                  /\ reservations[r].task = t /\ reservations[r].intent

\* The record's reservation and continuation still vouch for it.
RecordLoads(t) ==
    LET j == disk[t] IN
    j \in Job =>
      /\ j.reservation # None =>
            LET r == reservations[j.reservation] IN
            r # NoReservation /\ (IsGroup(r) => r.intent /\ r.task = t)
      /\ j.continuation # None =>
            LET x == continuations[j.continuation] IN
            /\ x # Unregistered /\ t \in x.intents /\ t \in Plan[j.continuation]
            /\ \/ x.state = "completed"
               \/ IsOccupied(x) /\ x.grant = j.generation /\ x.generation = j.generation

\* An occupied continuation has its whole bundle, apart from every other
\* occupied continuation and every reservation.
ContinuationLoads(c) ==
    IsOccupied(continuations[c]) =>
        LET x == continuations[c] IN
        /\ {p[1] : p \in x.allocations} = Plan[c]
        /\ x.grant > 0 /\ x.generation > 0 /\ x.wake # NoWake
        /\ x.state = "offered" => x.offerUntil # "nil"
        /\ \A p, o \in x.allocations : p # o => ~resourcesConflict(p[2], o[2])
        /\ \A a \in AllocationsOf(x) :
              ~conflictsWithAny(a, HeldByContinuations(c) \cup HeldByReservations(None))

Loads == /\ \A t \in Tasks : DirectoryLoads(t) /\ RecordLoads(t)
         /\ \A c \in ContinuationIDs : ContinuationLoads(c)

\* A task interrupted while dispatching may or may not have been launched.
Recovered(j) ==
    CASE j \notin Job -> NoJob
      [] j \in Job /\ j.status = "dispatching" -> [j EXCEPT !.status = "unknown"]
      [] OTHER -> j

\* A form of Resumed that follows a restored task with launch set.
ResumedWithLaunch(t) == IF disk[t] \in Job /\ disk[t].status = "dispatching" THEN "starting" ELSE "idle"

\* follow(t, false): a restored task is polled, never launched.
Resumed(t) == "idle"

Restart ==
    /\ ~up
    /\ Loads
    /\ up' = TRUE
    /\ jobs' = [t \in Tasks |-> Recovered(disk[t])]
    /\ disk' = [t \in Tasks |-> IF disk[t] \in Job THEN Recovered(disk[t]) ELSE disk[t]]
    /\ pc' = [t \in Tasks |-> Resumed(t)]
    /\ continuations' = [c \in ContinuationIDs |-> Reloaded(continuations[c])]
    /\ UNCHANGED <<config, reservations, seen, probes, worldVars, settled>>
============================================================================
