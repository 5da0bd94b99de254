----------------------------- MODULE IdleRanking -----------------------------
(***************************************************************************)
(* The dialog of idle machines (src/web/idle-ranking.js): an opening reads  *)
(* the configuration, loads the ranking and then starts a ten-second timer; *)
(* the ranking is loaded again after every choice.  Epochs of openings and  *)
(* generations of requests are only compared for equality, so the next one  *)
(* is any name that is not in use.                                          *)
(***************************************************************************)
EXTENDS Naturals

CONSTANTS
    Filters,        \* group, model, devices and HBM a reader may ask for
    NoFilter,       \* none of them
    Broken,         \* filters whose inputs are not valid
    Names,          \* names for epochs and for generations
    MaxNow,         \* bound: versions of the service's ranking
    None,
    Faults          \* requests may fail

IdleRankingAssumption ==
    /\ NoFilter \in Filters \ Broken /\ MaxNow \in Nat /\ Faults \in BOOLEAN
    /\ None \notin Names \cup [gen: Names, query: Filters, at: 0 .. MaxNow \cup {None}]

VARIABLES
    now, demo, dialog, filter,
    openEpoch, openings,    \* what is left of openings: [epoch, stage, load]
    generation, request,    \* at most one: a new request aborts the last
    timer, running,         \* the timer the page knows, and those that run
    snapshot, exportable,   \* the export button is not disabled
    since, boxed            \* version when the reader asked last; whether the box drew the
                            \* ranking while another was asked for; observed only

timers == <<timer, running>>
observed == <<since, boxed>>
vars == <<now, demo, dialog, filter, openEpoch, openings, generation, request, timers,
          snapshot, exportable, observed>>

Query == filter
Epochs == {o.epoch : o \in openings}
Loads == {o.load : o \in openings}

Init ==
    /\ now = 0 /\ since = 0 /\ demo = FALSE /\ dialog = "closed" /\ filter = NoFilter
    /\ openEpoch \in Names /\ openings = {} /\ generation \in Names /\ request = None
    /\ timer = None /\ running = {} /\ snapshot = None /\ exportable = FALSE
    /\ boxed = FALSE

\* load(): a ranking stays in sight while it is loaded again, but cannot be
\* exported then.
load ==
    /\ generation' \in Names \ ({generation} \cup Loads)
    /\ exportable' = FALSE
    /\ IF demo \/ filter' \in Broken
       THEN request' = None /\ snapshot' = None
       ELSE /\ request' = [gen |-> generation', query |-> filter', at |-> None]
            /\ UNCHANGED snapshot
    /\ since' = now /\ boxed' = FALSE

clearInterval == timer' = None /\ running' = running \ {timer}
newEpoch == openEpoch' \in Names \ ({openEpoch} \cup Epochs \cup running)

-----------------------------------------------------------------------------
RankingChanges ==
    /\ now < MaxNow /\ now' = now + 1
    /\ UNCHANGED <<demo, dialog, filter, openEpoch, openings, generation, request, timers,
                   snapshot, exportable, observed>>

SwitchDemo ==
    /\ dialog = "closed" /\ openings = {} /\ demo' = ~demo
    /\ UNCHANGED <<now, dialog, filter, openEpoch, openings, generation, request, timers,
                   snapshot, exportable, observed>>

Serve ==
    /\ request # None /\ request.at = None
    /\ request' = [request EXCEPT !.at = now]
    /\ UNCHANGED <<now, demo, dialog, filter, openEpoch, openings, generation, timers,
                   snapshot, exportable, observed>>

Answered ==
    /\ request # None /\ request.at # None
    /\ request' = None /\ boxed' = FALSE
    /\ IF dialog = "open"
       THEN snapshot' = [query |-> request.query, at |-> request.at] /\ exportable' = TRUE
       ELSE UNCHANGED <<snapshot, exportable>>
    /\ UNCHANGED <<now, demo, dialog, filter, openEpoch, openings, generation, timers, since>>

\* A failed request clears the old ranking.
Fail ==
    /\ Faults /\ request # None
    /\ request' = None /\ snapshot' = None /\ exportable' = FALSE
    /\ UNCHANGED <<now, demo, dialog, filter, openEpoch, openings, generation, timers, observed>>

-----------------------------------------------------------------------------
Open ==
    /\ dialog = "closed" /\ dialog' = "open"
    /\ newEpoch /\ clearInterval
    /\ openings' = openings \cup {[epoch |-> openEpoch', stage |-> "config", load |-> None]}
    /\ snapshot' = None /\ exportable' = FALSE
    /\ UNCHANGED <<now, demo, filter, generation, request, observed>>

\* The next part of an opening: only in its own dialog.
Mine(o) == dialog = "open" /\ o.epoch = openEpoch

ConfigRead(o) ==
    /\ o.stage = "config"
    /\ IF Mine(o)
       THEN /\ filter' \in {f \in Filters : filter \in Broken <=> f \in Broken} \* the group is reset
            /\ load
            /\ openings' = (openings \ {o}) \cup
                           {[epoch |-> o.epoch, stage |-> "loading", load |-> generation']}
       ELSE /\ openings' = openings \ {o}
            /\ UNCHANGED <<filter, generation, request, snapshot, exportable, observed>>
    /\ UNCHANGED <<now, demo, dialog, openEpoch, timers>>

ConfigFails(o) ==
    /\ Faults /\ o.stage = "config"
    /\ openings' = openings \ {o}
    /\ UNCHANGED <<now, demo, dialog, filter, openEpoch, generation, request, timers,
                   snapshot, exportable, observed>>

\* Its load is over when it was answered, failed or was aborted by another.
Loaded(o) ==
    /\ o.stage = "loading" /\ (request # None => request.gen # o.load)
    /\ openings' = openings \ {o}
    /\ IF Mine(o)
       THEN timer' = o.epoch /\ running' = running \cup {o.epoch}
       ELSE UNCHANGED timers
    /\ UNCHANGED <<now, demo, dialog, filter, openEpoch, generation, request,
                   snapshot, exportable, observed>>

Choose ==
    /\ dialog = "open"
    /\ filter' \in Filters
    /\ load
    /\ UNCHANGED <<now, demo, dialog, openEpoch, openings, timers>>

Refresh ==
    /\ dialog = "open"
    /\ UNCHANGED <<now, demo, dialog, filter, openEpoch, openings, timers>>
    /\ load

\* Every timer that runs loads, whether or not the dialog is open.
Tick ==
    /\ running # {}
    /\ UNCHANGED <<now, demo, dialog, filter, openEpoch, openings, timers>>
    /\ load

\* The box draws the ranking again, and with it the export button.
ToggleAvailable ==
    /\ dialog = "open" /\ snapshot # None
    /\ exportable' = TRUE /\ boxed' = (request # None)
    /\ UNCHANGED <<now, demo, dialog, filter, openEpoch, openings, generation, request, timers,
                   snapshot, since>>

Close ==
    /\ dialog = "open" /\ dialog' = "closing"
    /\ UNCHANGED <<now, demo, filter, openEpoch, openings, generation, request, timers,
                   snapshot, exportable, observed>>

Closed ==
    /\ dialog = "closing" /\ dialog' = "closed"
    /\ newEpoch /\ clearInterval
    /\ request' = None /\ snapshot' = None /\ exportable' = FALSE
    /\ UNCHANGED <<now, demo, filter, openings, generation, observed>>

Next == \/ RankingChanges \/ SwitchDemo \/ Serve \/ Answered \/ Fail \/ Open
        \/ \E o \in openings : ConfigRead(o) \/ ConfigFails(o) \/ Loaded(o)
        \/ Choose \/ Refresh \/ Tick \/ ToggleAvailable \/ Close \/ Closed

Spec == Init /\ [][Next]_vars

-----------------------------------------------------------------------------
\* Every variable has a value of its kind.
TypeOK ==
    /\ now \in 0 .. MaxNow /\ since \in 0 .. MaxNow /\ demo \in BOOLEAN
    /\ dialog \in {"open", "closing", "closed"} /\ filter \in Filters
    /\ openEpoch \in Names /\ generation \in Names
    /\ openings \subseteq [epoch: Names, stage: {"config", "loading"}, load: Names \cup {None}]
    /\ request \in {None} \cup [gen: Names, query: Filters, at: 0 .. MaxNow \cup {None}]
    /\ timer \in Names \cup {None} /\ running \subseteq Names
    /\ snapshot \in {None} \cup [query: Filters, at: 0 .. MaxNow] /\ exportable \in BOOLEAN
    /\ boxed \in BOOLEAN

\* No timer is lost: one runs at most, and none when the dialog is closed,
\* however openings and closings overlap with requests.
NoTimerIsLost ==
    /\ running = {timer} \ {None}
    /\ dialog = "closed" => running = {}

\* What can be exported answers the filter beside it, and not an old one,
\* unless the box drew the old ranking again under a new choice.
Exported == IF dialog = "open" /\ exportable /\ ~boxed THEN snapshot ELSE None
Panel == INSTANCE LatestAnswer WITH asked <- Query, shown <- Exported, Choices <- Filters
Implements == Panel!Spec

=============================================================================
