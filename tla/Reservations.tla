--------------------------- MODULE Reservations ---------------------------
(***************************************************************************)
(* Single and group reservations (reservations.go, group_reservations.go). *)
(* A reservation has no TTL, and its ID is never used again.               *)
(***************************************************************************)
EXTENDS TaskState

IsGroup(r) == r.task # None

SaveReservation(r, x) ==
    /\ reservations' = [reservations EXCEPT ![r] = x]
    /\ UNCHANGED <<config, jobs, disk, continuations, up, seen, pc, probes, worldVars, settled>>

Reserve(r, m) ==
    /\ up
    /\ reservations[r] = NoReservation
    /\ Free(config, m, None)
    /\ SaveReservation(r, [coordinator |-> AllocationOf(config, m), allocations |-> {AllocationOf(config, m)},
                           task |-> None, intent |-> FALSE, released |-> FALSE])

\* All members in one write, or none.  Members that alias each other are refused.
ReserveGroup(r, ms, m, t) ==
    /\ up
    /\ reservations[r] = NoReservation
    /\ Cardinality(ms) \in 2..12 /\ m \in ms
    /\ jobs[t] = NoJob
    /\ \A n \in ms : Free(config, n, None)
    /\ \A n, o \in ms : n # o => ~resourcesConflict(AllocationOf(config, n), AllocationOf(config, o))
    /\ SaveReservation(r, [coordinator |-> AllocationOf(config, m),
                           allocations |-> {AllocationOf(config, n) : n \in ms},
                           task |-> t, intent |-> FALSE, released |-> FALSE])

\* A form of Quiet that only looks at the group's own launch intent.
QuietGroupOnly(r) ==
    reservations[r].intent => jobs[reservations[r].task] # NoJob
                              /\ ~IsUnfinished(jobs[reservations[r].task])

\* No unfinished task was submitted under the reservation, and the task of a
\* launch intent has a record that is finished.
Quiet(r) ==
    /\ \A t \in Tasks : IsUnfinished(jobs[t]) => jobs[t].reservation # r
    /\ reservations[r].intent => jobs[reservations[r].task] # NoJob
                                 /\ ~IsUnfinished(jobs[reservations[r].task])

ReleaseReservation(r) ==
    /\ up
    /\ IsUnreleased(reservations[r])
    /\ Quiet(r)
    /\ SaveReservation(r, [reservations[r] EXCEPT !.released = TRUE])

\* validateReservationRequestLocked, with the checks Submit makes before it:
\* may a task t on machine m be submitted under reservation r?
ReservationAdmits(cfg, r, t, m) ==
    LET x == reservations[r] IN
    /\ IsUnreleased(x)
    /\ x.coordinator.machineID = m
    /\ \A a \in x.allocations : Unchanged(cfg, a)
    /\ IsGroup(x) => /\ x.task = t
                     /\ ~x.intent
                     /\ \A a \in x.allocations : Free(cfg, a.machineID, r)

\* A form of WithIntent that leaves the launch intent of a group unrecorded.
WithIntentForgotten(x) == x

\* reservationIntentLocked: only a group records its launch intent.
WithIntent(x) == IF IsGroup(x) THEN [x EXCEPT !.intent = TRUE] ELSE x
===========================================================================
