--------------------------- MODULE UtilizationPanel ---------------------------
(***************************************************************************)
(* The dialog of hourly NPU utilization (src/web/utilization.js).  Opening  *)
(* it reads the configuration first, and neither closing nor opening again  *)
(* stops the rest of an earlier opening.  A new request aborts the one      *)
(* before it, so one is in flight at most.                                  *)
(***************************************************************************)
EXTENDS Naturals

CONSTANTS
    Groups,         \* machine groups; NoGroup chooses all of them
    NoGroup,
    MaxOpenings,    \* bound: openings that still read the configuration
    MaxNow,         \* bound: versions of the service's history
    None,
    Faults          \* requests may fail

UtilizationAssumption ==
    /\ NoGroup \in Groups /\ MaxOpenings \in Nat /\ MaxNow \in Nat /\ Faults \in BOOLEAN

VARIABLES
    now, demo,
    dialog,     \* "open", "closing" (the close event is queued) or "closed"
    openings,   \* openings that still read the configuration
    period, group, day,
    request,    \* None, or the request in flight
    snapshot,
    since       \* version when the reader asked last; observed only

inputs == <<period, group, day>>
vars == <<now, demo, dialog, openings, inputs, request, snapshot, since>>

Periods == {"yesterday", "week"}
Choices == [period: Periods, group: Groups]
Query == [period |-> period, group |-> group]
\* The days a period offers, counted back from today; Pattern stands for all
\* the days of a week and is offered first.
Pattern == 0
Days(p) == IF p = "week" THEN {Pattern} \cup 1 .. 7 ELSE {1}
First(p) == IF p = "week" THEN Pattern ELSE 1

Init ==
    /\ now = 0 /\ since = 0 /\ demo = FALSE
    /\ dialog = "closed" /\ openings = 0
    /\ period = "yesterday" /\ group = NoGroup /\ day = 1
    /\ request = None /\ snapshot = None

\* A form of load that leaves the table until the answer comes.
loadKeeping ==
    /\ request' = IF demo THEN None ELSE [query |-> Query', at |-> None]
    /\ UNCHANGED snapshot /\ since' = now

\* load(), for the choices as they are after the handler.
load ==
    /\ snapshot' = None
    /\ request' = IF demo THEN None ELSE [query |-> Query', at |-> None]
    /\ since' = now

-----------------------------------------------------------------------------
HistoryGrows ==
    /\ now < MaxNow /\ now' = now + 1
    /\ UNCHANGED <<demo, dialog, openings, inputs, request, snapshot, since>>

SwitchDemo ==
    /\ dialog = "closed" /\ demo' = ~demo
    /\ UNCHANGED <<now, dialog, openings, inputs, request, snapshot, since>>

Serve ==
    /\ request # None /\ request.at = None
    /\ request' = [request EXCEPT !.at = now]
    /\ UNCHANGED <<now, demo, dialog, openings, inputs, snapshot, since>>

\* The dialog may have been opened again since, or not be open.
Answered ==
    /\ request # None /\ request.at # None
    /\ request' = None
    /\ IF dialog = "open"
       THEN /\ snapshot' = request
            /\ day' = IF day \in Days(request.query.period) THEN day
                      ELSE First(request.query.period)
       ELSE UNCHANGED <<snapshot, day>>
    /\ UNCHANGED <<now, demo, dialog, openings, period, group, since>>

Fail ==
    /\ Faults
    /\ \/ request # None /\ request' = None /\ snapshot' = None /\ UNCHANGED openings
       \/ openings > 0 /\ openings' = openings - 1 /\ UNCHANGED <<request, snapshot>>
    /\ UNCHANGED <<now, demo, dialog, inputs, since>>

Open ==
    /\ dialog = "closed" /\ openings < MaxOpenings
    /\ dialog' = "open" /\ openings' = openings + 1
    /\ UNCHANGED <<now, demo, inputs, request, snapshot, since>>

\* The rest of an opening, whether or not its dialog is still the one open:
\* the list of groups starts again at all groups.
Opened ==
    /\ openings > 0 /\ openings' = openings - 1
    /\ group' = NoGroup /\ UNCHANGED <<now, demo, dialog, period, day>>
    /\ load

Choose ==
    /\ dialog = "open"
    /\ \/ period' \in Periods /\ UNCHANGED group
       \/ group' \in Groups /\ UNCHANGED period
    /\ UNCHANGED <<now, demo, dialog, openings, day>>
    /\ load

ChooseDay ==
    /\ dialog = "open" /\ snapshot # None
    /\ day' \in Days(snapshot.query.period)
    /\ UNCHANGED <<now, demo, dialog, openings, period, group, request, snapshot, since>>

Close ==
    /\ dialog = "open" /\ dialog' = "closing"
    /\ UNCHANGED <<now, demo, openings, inputs, request, snapshot, since>>

Closed ==
    /\ dialog = "closing" /\ dialog' = "closed"
    /\ request' = None /\ snapshot' = None
    /\ UNCHANGED <<now, demo, openings, inputs, since>>

Next == \/ HistoryGrows \/ SwitchDemo \/ Serve \/ Answered \/ Fail
        \/ Open \/ Opened \/ Choose \/ ChooseDay \/ Close \/ Closed

Spec == Init /\ [][Next]_vars

-----------------------------------------------------------------------------
\* Every variable has a value of its kind.
TypeOK ==
    /\ now \in 0 .. MaxNow /\ since \in 0 .. MaxNow /\ demo \in BOOLEAN
    /\ dialog \in {"open", "closing", "closed"} /\ openings \in 0 .. MaxOpenings
    /\ period \in Periods /\ group \in Groups /\ day \in Days("week")
    /\ request \in {None} \cup [query: Choices, at: 0 .. MaxNow \cup {None}]
    /\ snapshot \in {None} \cup [query: Choices, at: 0 .. MaxNow]

\* The dialog keeps the promise of a panel: its table answers the period and
\* the group beside it, also when an earlier opening goes on in a later one.
Shown == IF dialog = "open" THEN snapshot ELSE None
Panel == INSTANCE LatestAnswer WITH asked <- Query, shown <- Shown, Choices <- Choices
Implements == Panel!Spec

\* The day whose hours are drawn is one the answer covers: a day chosen for a
\* week does not remain chosen for a period without it.
DayIsCovered == snapshot # None => day \in Days(snapshot.query.period)
=============================================================================
