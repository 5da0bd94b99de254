----------------------------- MODULE TaskTimeline -----------------------------
(***************************************************************************)
(* The time axis of the task page: extent, clamp, zoom and pan of           *)
(* src/web/task-timeline.js, and the view that src/web/tasks.js keeps while *)
(* the clock runs and the list of tasks changes under it.                   *)
(* Time is in whole units, and what the code divides is rounded down; an    *)
(* anchor is counted in halves of the view.                                 *)
(***************************************************************************)
EXTENDS Integers

CONSTANTS
    Jobs,       \* identifiers of tasks
    Second,     \* the shortest view, and how the clock advances
    Hour,       \* what is shown when there is no task
    MaxTime,    \* bound of the clock
    None

TimelineAssumption ==
    /\ Second \in Nat \ {0} /\ Hour \in Nat /\ Hour >= Second /\ MaxTime \in Nat
    /\ None \notin Int /\ None \notin [start: Int, end: Int]

VARIABLES
    now,
    jobs,       \* state.jobs: [created, finished, events], or None
    view,       \* state.view: None shows everything
    drawn,      \* the view the board was drawn with
    bounds,     \* the extent it was drawn with
    pointed     \* twice the time under the mouse of a zoom; observed only

vars == <<now, jobs, view, drawn, bounds, pointed>>

Smaller(a, b) == IF a < b THEN a ELSE b
Larger(a, b) == IF a > b THEN a ELSE b
Span(v) == v.end - v.start

Present == {j \in Jobs : jobs[j] # None}
\* Old records without events have the times of their creation and their end.
eventsFor(job) == job.events \cup {job.created} \cup ({job.finished} \ {None})

\* extent(): from the first event of any task to the last, or to the present.
Marks(js, at) ==
    UNION {eventsFor(js[j]) \cup (IF js[j].finished = None THEN {at} ELSE {})
             : j \in {k \in Jobs : js[k] # None}}
First(times) == CHOOSE t \in times : \A u \in times : t <= u
Last(times) == CHOOSE t \in times : \A u \in times : u <= t
extent(js, at) ==
    LET marks == Marks(js, at) IN
    IF marks = {} THEN [start |-> at - Hour, end |-> at]
    ELSE [start |-> First(marks), end |-> Larger(Last(marks), First(marks) + Second)]

clamp(v, b) ==
    LET span == Smaller(Span(b), Larger(Second, Span(v)))
        from == Larger(b.start, Smaller(b.end - span, v.start))
    IN [start |-> from, end |-> from + span]

\* The anchor, twice its time, so that it stays whole.
Anchor(v, a) == 2 * v.start + Span(v) * a
zoom(v, b, n, d, a) ==
    LET span == Larger(Second, Smaller(Span(b), (Span(v) * n) \div d))
        from == (Anchor(v, a) - span * a) \div 2
    IN clamp([start |-> from, end |-> from + span], b)

pan(v, b, sign) ==
    LET shift == sign * (Span(v) \div 2)
    IN clamp([start |-> v.start + shift, end |-> v.end + shift], b)

\* renderBoard(): with the view and the tasks as the handler left them.
renderBoard(v, js, at) ==
    /\ bounds' = extent(js, at)
    /\ view' = IF v = None THEN None ELSE clamp(v, bounds')
    /\ drawn' = IF v = None THEN bounds' ELSE view'

Init ==
    /\ now = Hour /\ jobs = [j \in Jobs |-> None]
    /\ view = None /\ bounds = extent(jobs, now) /\ drawn = bounds /\ pointed = None

-----------------------------------------------------------------------------
Clock == now < MaxTime /\ now' = now + Second /\ UNCHANGED <<jobs, view, drawn, bounds, pointed>>

\* refresh(): the list may have a new task, a new event, an ended task, or
\* one task less after the service has compacted its records.
Refresh ==
    /\ \/ \E j \in Jobs \ Present :
             jobs' = [jobs EXCEPT ![j] = [created |-> now, finished |-> None, events |-> {}]]
       \/ \E j \in Present :
             \/ jobs' = [jobs EXCEPT ![j].events = @ \cup {now}]
             \/ jobs[j].finished = None /\ jobs' = [jobs EXCEPT ![j].finished = now]
             \/ jobs[j].finished # None /\ jobs' = [jobs EXCEPT ![j] = None]
    /\ renderBoard(view, jobs', now)
    /\ pointed' = None
    /\ UNCHANGED now


\* changeView(): from the view as it is, or from everything.
Range == extent(jobs, now)
Viewed == IF view = None THEN Range ELSE view
Show(v, at) == renderBoard(v, jobs, now) /\ pointed' = at /\ UNCHANGED <<now, jobs>>
Redraw == Show(view, None)
Fit == Show(None, None)
Earliest == Show(clamp([start |-> Range.start, end |-> Range.start + Span(Viewed)], Range), None)
Latest == Show(clamp([start |-> Range.end - Span(Viewed), end |-> Range.end], Range), None)
Pan(sign) == Show(pan(Viewed, Range, sign), None)
\* The buttons zoom at the middle; the wheel at the mouse, if there are tasks.
Zoom(n, d, a) == Show(zoom(Viewed, Range, n, d, a), None) /\ a = 1
Wheel(n, d, a) == /\ Present # {}
                  /\ Show(zoom(Viewed, Range, n, d, a), Anchor(Viewed, a))
Factors == {<<1, 2>>, <<2, 1>>}

Next == \/ Clock \/ Refresh \/ Redraw \/ Fit \/ Earliest \/ Latest
        \/ \E sign \in {-1, 1} : Pan(sign)
        \/ \E f \in Factors, a \in 0 .. 2 : Zoom(f[1], f[2], a) \/ Wheel(f[1], f[2], a)

Spec == Init /\ [][Next]_vars

-----------------------------------------------------------------------------
\* Every variable has a value of its kind.
Views == [start: Int, end: Int]
TypeOK ==
    /\ now \in Int
    /\ \A j \in Present : /\ jobs[j].created \in Int /\ jobs[j].finished \in Int \cup {None}
                          /\ jobs[j].events \subseteq Int
    /\ pointed \in Int \cup {None}
    /\ view \in Views \cup {None} /\ drawn \in Views /\ bounds \in Views

\* The board never shows time before the first event or after the last, and
\* at least a second of it, although the extent grows with the clock and
\* shrinks when records are compacted (task-timeline.test.cjs).
ViewInside ==
    /\ bounds.start <= drawn.start /\ drawn.end <= bounds.end
    /\ Span(drawn) >= Second
    /\ view # None => view = drawn

\* The full range holds every event of every task.
FitShowsEverything ==
    view = None => \A j \in Present : \A t \in eventsFor(jobs[j]) :
                        bounds.start <= t /\ t <= bounds.end

\* The time under the mouse stays in sight when the board is zoomed, also
\* where the zoomed view would leave the extent (docs/task-controller.md:76).
ZoomKeepsTime ==
    pointed # None => 2 * drawn.start <= pointed /\ pointed <= 2 * drawn.end
=============================================================================
