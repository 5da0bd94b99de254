--------------------------- MODULE Continuations ---------------------------
(***************************************************************************)
(* Experiments waiting for machines (continuations.go and                  *)
(* continuation_scheduler.go): a waiting experiment is offered machines,   *)
(* an AI thread claims the offer, submits the planned tasks under the      *)
(* grant, and reports.                                                     *)
(*                                                                         *)
(* Deadlines are passed by environment steps, not by a clock.  The scope,  *)
(* the sample of a machine and the stability period only ever refuse a     *)
(* step; they are left to the choice of the machines.                      *)
(***************************************************************************)
EXTENDS TaskState

Known(c) == continuations[c] # Unregistered

SaveContinuation(c, x) ==
    /\ continuations' = [continuations EXCEPT ![c] = x]
    /\ UNCHANGED <<config, jobs, disk, reservations, up, seen, pc, probes, worldVars, settled>>

\* Every way back to holding nothing.
Freed(x, s) ==
    [x EXCEPT !.state = s, !.allocations = {}, !.grant = 0, !.offerUntil = "nil"]

----------------------------------------------------------------------------

\* Planned task IDs are new and belong to no other continuation.
RegisterContinuation(c, mode) ==
    /\ up
    /\ ~Known(c)
    /\ \A t \in Plan[c] : jobs[t] = NoJob
    /\ \A d \in ContinuationIDs : Known(d) => Plan[d] \cap Plan[c] = {}
    /\ SaveContinuation(c,
         [state |-> "waiting_resources", generation |-> 0, grant |-> 0, mode |-> mode,
          allocations |-> {}, offerUntil |-> "nil", expiresAt |-> "future",
          wake |-> NoWake, intents |-> {}, stop |-> "none"])

\* A form of Bundles that does not compare the selected machines.
BundlesUnchecked(c) ==
    LET free == {AllocationOf(config, m) : m \in {n \in Machines : Free(config, n, None)}}
    IN {f \in [Plan[c] -> free] : \A t, u \in Plan[c] : t # u => f[t] # f[u]}

\* continuationCandidatesLocked: the bundles an offer may hand to c, one
\* machine for each planned task.  An offer that lapsed in the same tick
\* still holds its machines here.
Bundles(c) ==
    LET free == {AllocationOf(config, m) : m \in {n \in Machines : Free(config, n, None)}}
    IN {f \in [Plan[c] -> free] :
          \A t, u \in Plan[c] : t # u => ~resourcesConflict(f[t], f[u])}

PriorTasksDone(c) ==
    \A t \in PriorTasks[c] : jobs[t] # NoJob /\ ~IsUnfinished(jobs[t])

\* offerContinuation: a new generation with a grant and a wake event of its own.
Offered(x, f) ==
    [x EXCEPT !.state = "offered", !.generation = @ + 1, !.grant = x.generation + 1,
              !.offerUntil = "future",
              !.allocations = {<<t, f[t]>> : t \in DOMAIN f},
              !.wake = [generation |-> x.generation + 1, kind |-> "resources_ready",
                        status |-> "pending", sender |-> None, attempts |-> 0,
                        overdue |-> FALSE]]

\* A form of DeliveryOpen that forgets a delivery whose receipt timed out.
DeliverySending(x) == x.wake # NoWake /\ x.wake.status = "sending"

DeliveryOpen(x) ==
    x.wake # NoWake /\ x.wake.status \in {"sending", "delivery_uncertain"}

\* A form of ReceiptTimedOut that watches the delivery of an open offer only.
ReceiptTimedOutInOffer(x) ==
    IF x.state = "offered" /\ x.wake # NoWake /\ x.wake.status = "sending" /\ x.wake.overdue
    THEN [x EXCEPT !.wake.status = "delivery_uncertain"] ELSE x

ReceiptTimedOut(x) ==
    IF x.wake # NoWake /\ x.wake.status = "sending" /\ x.wake.overdue
    THEN [x EXCEPT !.wake.status = "delivery_uncertain"] ELSE x

\* A form of OfferLapsed that leaves heartbeat offers to their thread.
OfferLapsedInBridgeMode(x) ==
    IF x.mode = "bridge" /\ x.state = "offered" /\ x.offerUntil # "future"
    THEN Freed(x, "waiting_resources") ELSE x

OfferLapsed(x) ==
    IF x.state = "offered" /\ x.offerUntil # "future" THEN Freed(x, "waiting_resources") ELSE x

\* A form of AuthorizationLapsed that also frees what has been claimed.
AuthorizationLapsedAlways(x) ==
    IF x.state \notin TerminalStates /\ x.expiresAt = "past" THEN Freed(x, "expired") ELSE x

AuthorizationLapsed(x) ==
    IF x.state \in {"waiting_resources", "offered", "paused"} /\ x.expiresAt = "past"
    THEN Freed(x, "expired") ELSE x

\* A form of AllFinished that waits for every exit code.
AllExited(c, x) ==
    /\ x.intents # {}
    /\ \A t \in Plan[c] : jobs[t] # NoJob /\ ~IsUnfinished(jobs[t]) /\ jobs[t].exited

AllFinished(c, x) ==
    /\ x.intents # {}
    /\ \A t \in Plan[c] : jobs[t] # NoJob /\ ~IsUnfinished(jobs[t])

\* An intent without a record, or a task whose state is unknown.
Uncertain(c, x) ==
    \E t \in Plan[c] : \/ jobs[t] = NoJob /\ t \in x.intents
                       \/ IsUnfinished(jobs[t]) /\ jobs[t].status = "unknown"

TasksFinished(x) ==
    [x EXCEPT !.state = "awaiting_review",
              !.wake = [generation |-> x.generation, kind |-> "tasks_finished",
                        status |-> "pending", sender |-> None, attempts |-> 0,
                        overdue |-> FALSE]]

TasksObserved(c, x) ==
    IF x.state \notin {"claimed", "executing", "recovery_needed"} THEN x
    ELSE IF AllFinished(c, x) THEN TasksFinished(x)
    ELSE IF Uncertain(c, x) THEN [x EXCEPT !.state = "recovery_needed"]
    ELSE IF x.state = "recovery_needed" THEN [x EXCEPT !.state = "executing"]
    ELSE x

Observed(c) ==
    TasksObserved(c, AuthorizationLapsed(OfferLapsed(ReceiptTimedOut(continuations[c]))))

\* One continuation's share of a tick of CheckContinuations.  The tick
\* handles them in turn, each on what the ones before it left; nothing is
\* lost by making each share a step.  A check that is not due, or finds too
\* few machines, changes nothing the model keeps.
CheckContinuation(c) ==
    /\ up /\ Known(c)
    /\ LET x == Observed(c) IN
       \/ x # continuations[c] /\ SaveContinuation(c, x)
       \/ /\ x.state = "waiting_resources" /\ x.stop = "none" /\ x.mode = "bridge"
          /\ ~DeliveryOpen(x)
          /\ PriorTasksDone(c)
          /\ x.generation < MaxGeneration
          /\ \E f \in Bundles(c) : SaveContinuation(c, Offered(x, f))

\* The heartbeat of an AI thread asks for an offer itself.
EvaluateContinuation(c) ==
    /\ up /\ Known(c)
    /\ LET x == continuations[c] IN
       /\ x.mode = "heartbeat" /\ x.state = "waiting_resources" /\ x.expiresAt = "future"
       /\ PriorTasksDone(c)
       /\ x.generation < MaxGeneration
       /\ \E f \in Bundles(c) : SaveContinuation(c, Offered(x, f))

----------------------------------------------------------------------------
(***************************************************************************)
(* The AI thread.  Requests carry the generation and the wake event they   *)
(* were woken for; both may be out of date.                                *)
(***************************************************************************)

Fenced(x, g, kind) ==
    x.wake = NoWake \/ g # x.generation \/ <<g, kind>> # <<x.wake.generation, x.wake.kind>>

\* Claims of what is claimed already are answered without a change.
ClaimContinuation(c, g, kind) ==
    /\ up /\ Known(c)
    /\ LET x == continuations[c] IN
       /\ ~Fenced(x, g, kind)
       /\ x.stop = "none"
       /\ x.state = "offered" /\ x.offerUntil = "future" /\ x.expiresAt = "future"
       /\ \A a \in AllocationsOf(x) : Unchanged(config, a) /\ Free(config, a.machineID, c)
       /\ SaveContinuation(c, [x EXCEPT !.state = "claimed", !.offerUntil = "nil",
                                        !.wake.status = "delivered"])

Releasable(c, x) == x.intents = {} /\ \A t \in Plan[c] : jobs[t] = NoJob

\* A form of Completable that takes the AI thread's word for it.
CompletableUnchecked(c, x) ==
    \A t \in Plan[c] : /\ jobs[t] # NoJob
                       /\ jobs[t].continuation = c /\ jobs[t].generation = x.grant

\* A form of Completable that is content with one finished task.
CompletableInPart(c, x) ==
    \E t \in Plan[c] : /\ jobs[t] # NoJob
                       /\ jobs[t].continuation = c /\ jobs[t].generation = x.grant
                       /\ ~IsUnfinished(jobs[t]) /\ jobs[t].exited

Completable(c, x) ==
    \A t \in Plan[c] : /\ jobs[t] # NoJob
                       /\ jobs[t].continuation = c /\ jobs[t].generation = x.grant
                       /\ ~IsUnfinished(jobs[t]) /\ jobs[t].exited

\* A form of AfterRelease that forgets the stop that was asked for.
AfterReleaseWaiting(x) == "waiting_resources"

\* Where an unused grant goes back to.
AfterRelease(x) ==
    CASE x.stop = "pause" -> "paused"
      [] x.stop = "cancel" -> "cancelled"
      [] OTHER -> "waiting_resources"

ReportContinuation(c, g, kind) ==
    /\ up /\ Known(c)
    /\ LET x == continuations[c] IN
       /\ ~Fenced(x, g, kind)
       /\ x.state \in OccupiedStates \ {"offered"}
       /\ \/ /\ Releasable(c, x)
             /\ SaveContinuation(c, Freed(x, AfterRelease(x)))
          \/ /\ Completable(c, x)
             /\ SaveContinuation(c, Freed(x, "completed"))

ControlContinuation(c, action) ==
    /\ up /\ Known(c)
    /\ LET x == continuations[c]
           idle == x.state \in {"waiting_resources", "offered", "paused"} IN
       /\ x.state \notin TerminalStates
       /\ \/ /\ action \in {"bridge", "heartbeat"}               \* set-mode
             /\ idle /\ x.intents = {} /\ ~DeliveryOpen(x)
             /\ x.generation < MaxGeneration
             /\ SaveContinuation(c,
                  [Freed(x, IF x.state = "paused" THEN "paused" ELSE "waiting_resources")
                     EXCEPT !.mode = action, !.generation = @ + 1, !.wake = NoWake])
          \/ /\ action \in {"pause", "cancel"}
             /\ SaveContinuation(c,
                  IF idle THEN Freed(x, IF action = "cancel" THEN "cancelled" ELSE "paused")
                  ELSE [x EXCEPT !.stop = action])
          \/ /\ action = "resume"
             /\ SaveContinuation(c,
                  [x EXCEPT !.state = IF @ = "paused" THEN "waiting_resources" ELSE @,
                            !.stop = "none"])

----------------------------------------------------------------------------
(***************************************************************************)
(* Delivery of wake events by bridges (DeliveryContinuation).  The retry   *)
(* delay is time only: a deferred event may be begun at any later moment.  *)
(***************************************************************************)

Sendable(x) ==
    /\ x.mode = "bridge" /\ x.stop = "none"
    /\ x.state = "awaiting_review" \/ (x.state = "offered" /\ x.offerUntil = "future")
    /\ x.wake.status = "pending"

\* A form of Exhausted that allows one attempt too many.
ExhaustedLate(w) == w.attempts > 3

Exhausted(w) == w.attempts >= 3

DeliveryContinuation(c, s, g, kind, action) ==
    /\ up /\ Known(c)
    /\ LET x == continuations[c]
           w == x.wake IN
       /\ ~Fenced(x, g, kind)
       /\ \/ /\ action = "begin" /\ Sendable(x)
             /\ SaveContinuation(c, [x EXCEPT !.wake.status = "sending", !.wake.sender = s,
                                              !.wake.attempts = @ + 1, !.wake.overdue = FALSE])
          \/ /\ action = "delivered"
             /\ w.status \in {"sending", "delivery_uncertain", "delivered"}
             /\ SaveContinuation(c, [x EXCEPT !.wake.status = "delivered"])
          \/ /\ action = "uncertain"
             /\ w.sender = s /\ w.status \in {"sending", "delivery_uncertain"}
             /\ SaveContinuation(c, [x EXCEPT !.wake.status = "delivery_uncertain"])
          \/ /\ action = "not-sent"
             /\ w.sender = s /\ w.status = "sending"
             /\ SaveContinuation(c, [x EXCEPT !.wake.status =
                                        IF Exhausted(w) THEN "failed" ELSE "pending"])

----------------------------------------------------------------------------
(***************************************************************************)
(* Time passes a deadline.                                                 *)
(***************************************************************************)

OfferDeadlinePasses(c) ==
    /\ Known(c) /\ continuations[c].offerUntil = "future"
    /\ SaveContinuation(c, [continuations[c] EXCEPT !.offerUntil = "past"])

AuthorizationEnds(c) ==
    /\ Known(c) /\ continuations[c].expiresAt = "future"
    /\ SaveContinuation(c, [continuations[c] EXCEPT !.expiresAt = "past"])

ReceiptOverdue(c) ==
    /\ Known(c) /\ continuations[c].wake # NoWake
    /\ continuations[c].wake.status = "sending" /\ ~continuations[c].wake.overdue
    /\ SaveContinuation(c, [continuations[c] EXCEPT !.wake.overdue = TRUE])

----------------------------------------------------------------------------
(***************************************************************************)
(* What Submit asks of a continuation                                      *)
(***************************************************************************)

\* The task ID is not planned by any continuation but c.
NotPlannedElsewhere(t, c) == \A d \in ContinuationIDs \ {c} : Known(d) => t \notin Plan[d]

\* continuationSubmitLocked for a request that names continuation c and its
\* generation g.
ContinuationAdmits(cfg, c, g, t, m) ==
    /\ Known(c)
    /\ LET x == continuations[c] IN
       /\ x.grant = g /\ x.generation = g /\ x.stop = "none"
       /\ x.state \in {"claimed", "executing"} /\ x.expiresAt = "future"
       /\ \E p \in x.allocations : p[1] = t /\ p[2].machineID = m /\ Unchanged(cfg, p[2])
       /\ t \notin x.intents

\* continuationIntentLocked
WithLaunchIntent(x, t) == [x EXCEPT !.intents = @ \cup {t}, !.state = "executing"]

\* loadContinuations: a delivery in progress at the last stop is uncertain.
Reloaded(x) ==
    IF x # Unregistered /\ x.wake # NoWake /\ x.wake.status = "sending"
    THEN [x EXCEPT !.wake.status = "delivery_uncertain"] ELSE x
============================================================================
