------------------------------- MODULE Paging -------------------------------
(***************************************************************************)
(* The pages of the monitoring grid and their automatic rotation:           *)
(* src/web/page-rotation.js and the parts of src/web/app.js that call it.   *)
(* The deadline of the rotation is kept as the seconds left to it, and the  *)
(* one-second timer (Tick) may come any number of seconds late.             *)
(***************************************************************************)
EXTENDS Naturals, FiniteSets

CONSTANTS
    Machines,       \* identifiers of machines, in the order they are listed
    MachineLists,   \* the sets of machines that may be configured
    Queries,        \* the sets of machines a search and a group may match
    Sizes,          \* layouts: machines on a page
    Rates,          \* rotation intervals in seconds
    Blockers        \* what suspends the rotation

PagingAssumption ==
    /\ Machines \subseteq Nat /\ IsFiniteSet(Machines)
    /\ \A s \in MachineLists \cup Queries : s \subseteq Machines
    /\ Sizes \subseteq Nat \ {0} /\ Rates \subseteq Nat \ {0}
    /\ Blockers \subseteq {"paused", "busy", "hidden", "dialog", "typing"}

VARIABLES
    machines, query, size,
    page, pageCount,
    paginationKey,      \* the layout and the machines of the last render
    seconds,            \* the interval of the rotation, 0 when it is off
    left,               \* seconds to the deadline
    blockers,
    quiet               \* seconds since the reader last did something; observed only

vars == <<machines, query, size, page, pageCount, paginationKey, seconds, left, blockers, quiet>>
rendered == <<page, pageCount, paginationKey>>

rotationBlocked == blockers # {}

filtered(ms, q) == ms \cap q
Pages(ms, q, n) == (Cardinality(filtered(ms, q)) + n - 1) \div n
\* A form of Clamp that trusts the page it is given.
Unclamped(p, count) == p
Clamp(p, count) == IF p < count THEN p ELSE IF count = 0 THEN 0 ELSE count - 1
Key(ms, q, n) == <<n, filtered(ms, q)>>

\* A form of render in which every render starts a new dwell.
renderRestarts(ms, q, n, p, then) ==
    /\ pageCount' = Pages(ms, q, n)
    /\ page' = Clamp(p, pageCount')
    /\ paginationKey' = Key(ms, q, n)
    /\ left' = seconds

\* render(): pages of the list as it is now; a different list starts a new dwell.
render(ms, q, n, p, then) ==
    /\ pageCount' = Pages(ms, q, n)
    /\ page' = Clamp(p, pageCount')
    /\ paginationKey' = Key(ms, q, n)
    /\ left' = IF paginationKey' # paginationKey THEN seconds ELSE then

\* The machines on the page that was rendered last.
Position(m) == Cardinality({k \in paginationKey[2] : k < m})
Visible == {m \in paginationKey[2] : Position(m) \div paginationKey[1] = page}

Init ==
    /\ machines \in MachineLists /\ query \in Queries /\ size \in Sizes
    /\ page = 0 /\ pageCount = Pages(machines, query, size)
    /\ paginationKey = Key(machines, query, size)
    /\ seconds \in Rates \cup {0} /\ left = seconds
    /\ blockers = {} /\ quiet = 0

Second ==
    /\ left' = IF left = 0 THEN 0 ELSE left - 1
    /\ quiet' = IF quiet < seconds THEN quiet + 1 ELSE quiet
    /\ UNCHANGED <<machines, query, size, rendered, seconds, blockers>>

\* PageRotation.advance, called by the timer, and the render that follows.
Suspended == seconds = 0 \/ pageCount <= 1 \/ rotationBlocked
TickSuspended ==
    /\ Suspended
    /\ left' = seconds
    /\ UNCHANGED rendered
TickWaits ==
    /\ ~Suspended /\ left > 0
    /\ UNCHANGED <<rendered, left>>
TickTurns ==
    /\ ~Suspended /\ left = 0
    /\ render(machines, query, size, (page + 1) % pageCount, seconds)
Tick ==
    /\ TickSuspended \/ TickWaits \/ TickTurns
    /\ UNCHANGED <<machines, query, size, seconds, blockers, quiet>>

\* A sample, a save or the demonstration renders; the configuration may have
\* been replaced earlier, without a render, by the load of a dialog.
Render ==
    /\ render(machines, query, size, page, left)
    /\ UNCHANGED <<machines, query, size, seconds, blockers, quiet>>
Reconfigure ==
    /\ machines' \in MachineLists
    /\ UNCHANGED <<query, size, rendered, seconds, left, blockers, quiet>>

\* Everything below is done by the reader and starts the dwell again.
Filter ==
    /\ query' \in Queries /\ size' \in Sizes
    /\ <<query', size'>> # <<query, size>>
    /\ render(machines, query', size', 0, seconds)
    /\ quiet' = 0
    /\ UNCHANGED <<machines, seconds, blockers>>

Previous ==
    /\ page > 0
    /\ render(machines, query, size, page - 1, seconds)
    /\ quiet' = 0
    /\ UNCHANGED <<machines, query, size, seconds, blockers>>
Following ==
    /\ page + 1 < pageCount
    /\ render(machines, query, size, page + 1, seconds)
    /\ quiet' = 0
    /\ UNCHANGED <<machines, query, size, seconds, blockers>>

\* A form of setSeconds that lets the old deadline run out first.
setSecondsLater ==
    /\ seconds' \in Rates \cup {0}
    /\ quiet' = 0
    /\ UNCHANGED <<machines, query, size, rendered, left, blockers>>
setSeconds ==
    /\ seconds' \in Rates \cup {0}
    /\ left' = seconds' /\ quiet' = 0
    /\ UNCHANGED <<machines, query, size, rendered, blockers>>

\* Pausing, hiding and focusing reset the clock at both ends; a dialog only
\* when it closes, and the end of a save not at all.
ResetsAtStart(b) == b \in {"paused", "hidden", "typing"}
\* A form of ResetsAtEnd that forgets the dialogs.
ResetsAtEndOfPause(b) == b \in {"paused", "hidden", "typing"}
ResetsAtEnd(b) == b \in {"paused", "hidden", "typing", "dialog"}
Block(b) ==
    /\ b \notin blockers
    /\ blockers' = blockers \cup {b}
    /\ left' = IF ResetsAtStart(b) THEN seconds ELSE left
    /\ UNCHANGED <<machines, query, size, rendered, seconds, quiet>>
Unblock(b) ==
    /\ b \in blockers
    /\ blockers' = blockers \ {b}
    /\ left' = IF ResetsAtEnd(b) THEN seconds ELSE left
    /\ quiet' = IF b = "busy" THEN quiet ELSE 0
    /\ UNCHANGED <<machines, query, size, rendered, seconds>>

Next ==
    \/ Second \/ Tick \/ Render \/ Reconfigure
    \/ Filter \/ Previous \/ Following \/ setSeconds
    \/ \E b \in Blockers : Block(b) \/ Unblock(b)

Spec == Init /\ [][Next]_vars

-----------------------------------------------------------------------------
\* Every variable has a value of its kind.
TypeOK ==
    /\ machines \in MachineLists /\ query \in Queries /\ size \in Sizes
    /\ page \in Nat /\ pageCount \in Nat
    /\ paginationKey \in Sizes \X SUBSET Machines
    /\ seconds \in Rates \cup {0} /\ left \in 0..seconds
    /\ blockers \subseteq Blockers /\ quiet \in Nat

\* The page on the screen exists in the list it was drawn from, and is not
\* empty unless the list is, although lists shrink under it (render's clamp).
PageExists ==
    /\ page = 0 \/ page < pageCount
    /\ paginationKey[2] # {} => Visible # {}

\* README: after a pause, a dialog, a hidden page, typing, paging by hand or a
\* new filter the clock starts again: a page turns by itself only when the
\* reader has left it alone for the whole interval, however late timers are.
TurnsAfterDwell == TickTurns /\ page' # page => quiet >= seconds

\* README: the rotation goes round all the machines that match, as long as
\* nothing suspends it: each of them is on the screen again and again.
Undisturbed(m) ==
    /\ seconds # 0 /\ quiet >= seconds /\ blockers = {}
    /\ Key(machines, query, size) = paginationKey /\ m \in filtered(machines, query)
=============================================================================
