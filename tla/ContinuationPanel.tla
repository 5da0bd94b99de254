-------------------------- MODULE ContinuationPanel --------------------------
(***************************************************************************)
(* The list of waiting experiments (src/web/continuations.js): read every   *)
(* five seconds, with buttons that pause, resume or cancel what follows.    *)
(* A change of an experiment, by the scheduler or by a button, gives the    *)
(* list a new version.                                                      *)
(***************************************************************************)
EXTENDS Naturals

CONSTANTS
    MaxVersion,     \* bound: changes of the experiments
    MaxClicks,      \* bound: clicks on a button
    None

ContinuationPanelAssumption ==
    /\ MaxVersion \in Nat /\ MaxClicks \in Nat
    /\ None \notin Nat \cup {"operation", "read"} /\ None \notin [answer: Nat \cup {None}]

VARIABLES
    version, controls,          \* the service: its list, and the controls carried out
    busy, capable, message,     \* the page; message is operationMessage
    shown, told,                \* version on show, and what stands above it
    reads, control,             \* requests in flight
    clicks, confirmed, doubt    \* clicks, the version of the last confirmed control, and
                                \* whether a later one is in doubt; observed only

service == <<version, controls>>
page == <<busy, capable, message, shown, told>>
seen == <<clicks, confirmed, doubt>>
vars == <<service, page, reads, control, seen>>

Unanswered == [answer |-> None]

Init ==
    /\ version = 0 /\ controls = 0
    /\ busy = FALSE /\ capable = FALSE /\ message = FALSE /\ shown = None /\ told = None
    /\ reads = {} /\ control = None /\ clicks = 0 /\ confirmed = 0 /\ doubt = FALSE

\* The scheduler moves an experiment on.
Scheduler ==
    /\ version < MaxVersion /\ version' = version + 1
    /\ UNCHANGED <<controls, page, reads, control, seen>>

ServeRead(r) ==
    /\ r \in reads /\ r.answer = None
    /\ reads' = (reads \ {r}) \cup {[answer |-> version]}
    /\ UNCHANGED <<service, page, control, seen>>
ServeControl ==
    /\ control # None /\ control.answer = None /\ version < MaxVersion
    /\ version' = version + 1 /\ controls' = controls + 1
    /\ control' = [answer |-> version']
    /\ UNCHANGED <<page, reads, seen>>

Begin == ~busy /\ busy' = TRUE

\* refresh(), by the timer, the button, or after a control.
refresh ==
    /\ Begin /\ reads' = reads \cup {Unanswered}
    /\ UNCHANGED <<service, capable, message, shown, told, control, seen>>
Refreshed(r) ==
    /\ r \in reads /\ r.answer # None
    /\ reads' = reads \ {r} /\ busy' = FALSE /\ capable' = TRUE
    /\ shown' = r.answer /\ told' = IF message THEN "operation" ELSE None
    /\ UNCHANGED <<service, message, control, seen>>

\* The list stays, under the message; the service may be without the list.
RefreshFails(r) ==
    /\ r \in reads /\ reads' = reads \ {r} /\ busy' = FALSE /\ told' = "read"
    /\ capable' \in BOOLEAN
    /\ UNCHANGED <<service, message, shown, control, seen>>

Click ==
    /\ shown # None /\ capable /\ Begin /\ clicks < MaxClicks /\ clicks' = clicks + 1
    /\ control' = Unanswered
    /\ UNCHANGED <<service, capable, message, shown, told, reads, confirmed, doubt>>

\* Either way the list is read again.
ThenRefresh == busy' = TRUE /\ reads' = reads \cup {Unanswered}
Controlled ==
    /\ control # None /\ control.answer # None
    /\ control' = None /\ message' = FALSE /\ confirmed' = control.answer /\ doubt' = FALSE /\ ThenRefresh
    /\ UNCHANGED <<service, capable, shown, told, clicks>>

\* A form of ControlFails that leaves no trace of it.
ControlForgotten ==
    /\ control # None /\ control' = None
    /\ told' = "operation" /\ doubt' = TRUE /\ ThenRefresh
    /\ UNCHANGED <<service, capable, message, shown, clicks, confirmed>>
\* It may have been carried out all the same: it is not repeated.
ControlFails ==
    /\ control # None /\ control' = None
    /\ message' = TRUE /\ told' = "operation" /\ doubt' = TRUE /\ ThenRefresh
    /\ UNCHANGED <<service, capable, shown, clicks, confirmed>>

Next ==
    \/ Scheduler \/ ServeControl \/ refresh \/ Click \/ Controlled \/ ControlFails
    \/ \E r \in reads : ServeRead(r) \/ Refreshed(r) \/ RefreshFails(r)

Spec == Init /\ [][Next]_vars

-----------------------------------------------------------------------------
\* Every variable has a value of its kind.
TypeOK ==
    /\ version \in 0 .. MaxVersion /\ shown \in 0 .. version \cup {None}
    /\ {busy, capable, message} \subseteq BOOLEAN /\ told \in {None, "operation", "read"}
    /\ busy = (reads # {} \/ control # None)

\* What follows an experiment is stopped or resumed at most once per click,
\* through lost requests and answers.
ControlsAreClicks ==
    controls + (IF control # None /\ control.answer = None THEN 1 ELSE 0) <= clicks

\* The list on show, unless its reading failed, is not from before the last
\* control that was confirmed: the button that was pressed is not offered
\* again by an older answer.
ListFollowsControl == ~busy /\ shown # None /\ told # "read" => shown >= confirmed

\* While it is open whether a control was carried out, the page says so, also
\* after the list was read again (continuations.js:64).
DoubtIsTold == doubt /\ ~busy => told # None

\* The list comes to show the experiments as they are.
CaughtUp == shown = version
=============================================================================
