----------------------------- MODULE MetricsPanel -----------------------------
(***************************************************************************)
(* The dialog of system metrics (src/web/metrics.js): it reads the list of  *)
(* machines, then asks for the metrics of a machine or of a task over a     *)
(* range of time, again after every choice and every ten seconds while it   *)
(* follows the present.                                                     *)
(* The generation counter is only compared for equality, so the next        *)
(* generation is any name that no request in flight carries.  Curves are    *)
(* told apart by the choices they answer and the version of the agent's     *)
(* data.                                                                    *)
(***************************************************************************)
EXTENDS Naturals, FiniteSets

CONSTANTS
    Machines,       \* configured machines
    Enabled,        \* those with metrics enabled
    Tasks,          \* tasks a reader may open the dialog for
    Ranges,         \* ranges of time a reader may choose
    Generations,    \* names for generations
    MaxNow,         \* bound: versions of the agent's data
    None,
    Faults          \* requests may fail

MetricsPanelAssumption ==
    /\ Enabled \subseteq Machines /\ Machines # {}
    /\ None \notin Machines \cup Tasks \cup Ranges
    /\ MaxNow \in Nat /\ Faults \in BOOLEAN

VARIABLES
    now,            \* version of the agent's data
    dialog,         \* "open", "closing" (the close event is queued) or "closed"
    demo,           \* isDemo
    machines,       \* the list read by this opening
    machineId, taskId, follow, manualRange,
    generation, net,    \* requests in flight
    snapshot,
    since           \* version when the reader asked last; observed only

choices == <<machineId, taskId, follow, manualRange>>
vars == <<now, dialog, demo, machines, choices, generation, net, snapshot, since>>

\* What load() asks for: a task or a machine; following ignores the range.
Choice(m, t, f, r) == [machine |-> m, task |-> t, range |-> IF f THEN "now" ELSE r]
Choices == [machine: Machines \cup {None}, task: Tasks \cup {None},
            range: Ranges \cup {None, "now"}]
Query == Choice(machineId, taskId, follow, manualRange)

Reads(kind) == {r \in net : r.kind = kind}
request == Reads("metrics")     \* at most one; empty is null
Config(g) == [kind |-> "config", gen |-> g]
Ask(g, q) == [kind |-> "metrics", gen |-> g, query |-> q, at |-> None]
Answer(q, at) == [query |-> q, at |-> at]

\* cancel(): aborts the request for metrics; the request for the list of
\* machines is not aborted and its answer is told apart by its generation.
cancel == generation' \in Generations \ ({generation} \cup {r.gen : r \in Reads("config")})

Available(m, list) == m \in list /\ (demo \/ m \in Enabled)

\* load(), for the choices as they are after the handler, beside the requests
\* for the list of machines that are left.
load(configs, list) ==
    /\ cancel
    /\ net' = configs \cup (IF Available(machineId', list) /\ ~demo
                            THEN {Ask(generation', Query')} ELSE {})
    /\ snapshot' = IF Available(machineId', list) /\ demo THEN Answer(Query', now) ELSE None
    /\ since' = now

Init ==
    /\ now = 0 /\ since = 0
    /\ dialog = "closed" /\ demo = FALSE /\ machines = {}
    /\ machineId = None /\ taskId = None /\ follow = TRUE /\ manualRange = None
    /\ generation \in Generations /\ net = {} /\ snapshot = None

-----------------------------------------------------------------------------
AgentSamples ==
    /\ now < MaxNow
    /\ now' = now + 1
    /\ UNCHANGED <<dialog, demo, machines, choices, generation, net, snapshot, since>>

Serve(r) ==
    /\ r.kind = "metrics" /\ r.at = None
    /\ net' = (net \ {r}) \cup {[r EXCEPT !.at = now]}
    /\ UNCHANGED <<now, dialog, demo, machines, choices, generation, snapshot, since>>

\* draw(): the answer replaces the curves and its range fills the inputs.
Draw(r) ==
    /\ r.kind = "metrics" /\ r.at # None
    /\ net' = net \ {r}
    /\ snapshot' = IF r.gen = generation /\ dialog = "open"
                   THEN Answer(r.query, r.at) ELSE snapshot
    /\ UNCHANGED <<now, dialog, demo, machines, choices, generation, since>>

Fail(r) ==
    /\ Faults
    /\ net' = net \ {r}
    /\ snapshot' = IF r.kind = "metrics" /\ r.gen = generation THEN None ELSE snapshot
    /\ UNCHANGED <<now, dialog, demo, machines, choices, generation, since>>

-----------------------------------------------------------------------------
\* open(): for a machine, a task, or the first machine that has metrics.
Default == IF Enabled # {} THEN Enabled ELSE Machines
Open(m, t) ==
    /\ dialog = "closed"
    /\ dialog' = "open" /\ demo' = FALSE
    /\ machineId' = m /\ taskId' = t /\ follow' = (t = None) /\ manualRange' = None
    /\ cancel /\ net' = Reads("config") \cup {Config(generation')}
    /\ snapshot' = None /\ since' = now
    /\ UNCHANGED <<now, machines>>

OpenInDemo ==
    /\ dialog = "closed"
    /\ dialog' = "open" /\ demo' = TRUE /\ machines' = Machines
    /\ machineId' \in Default /\ taskId' = None /\ follow' = TRUE /\ manualRange' = None
    /\ cancel /\ net' = Reads("config")
    /\ snapshot' = Answer(Query', now) /\ since' = now
    /\ UNCHANGED now

MachinesRead(r) ==
    /\ r.kind = "config"
    /\ UNCHANGED <<now, dialog, demo, taskId, follow, manualRange>>
    /\ IF r.gen = generation /\ dialog = "open"
       THEN /\ machines' = Machines
            /\ IF machineId = None THEN machineId' \in Default ELSE UNCHANGED machineId
            /\ load(Reads("config") \ {r}, Machines)
       ELSE /\ net' = net \ {r}
            /\ UNCHANGED <<machines, machineId, generation, snapshot, since>>

\* The reader's choices; each of them loads.
Chooses == /\ dialog = "open"
           /\ load(Reads("config"), machines)
           /\ UNCHANGED <<now, dialog, demo, machines>>
Select == /\ machineId' \in machines
          /\ taskId' = None /\ follow' = TRUE /\ manualRange' = None
          /\ Chooses
\* setRange(), for presets, the range inputs and the gestures on a curve.
setRange == /\ manualRange' \in Ranges /\ follow' = FALSE
            /\ UNCHANGED <<machineId, taskId>>
            /\ Chooses
WholeTask == /\ taskId # None
             /\ manualRange' = None /\ follow' = FALSE
             /\ UNCHANGED <<machineId, taskId>>
             /\ Chooses
Live == /\ follow' = ~follow
        /\ IF follow /\ snapshot # None THEN manualRange' \in Ranges ELSE UNCHANGED manualRange
        /\ UNCHANGED <<machineId, taskId>>
        /\ Chooses
Refresh == UNCHANGED choices /\ Chooses

Close == /\ dialog = "open" /\ dialog' = "closing"
         /\ UNCHANGED <<now, demo, machines, choices, generation, net, snapshot, since>>
Closed == /\ dialog = "closing" /\ dialog' = "closed"
          /\ cancel /\ net' = Reads("config")
          /\ snapshot' = None /\ machines' = {}
          /\ UNCHANGED <<now, demo, choices, since>>

\* The timer, in a page that is visible.
Tick == /\ follow /\ request = {}
        /\ Refresh

Reader == \/ \E m \in Machines \cup {None} : Open(m, None)
          \/ \E m \in Machines, t \in Tasks : Open(m, t)
          \/ OpenInDemo \/ Select \/ setRange \/ WholeTask \/ Live \/ Refresh \/ Close
Answers == \E r \in net : Draw(r) \/ MachinesRead(r)
Next == \/ AgentSamples \/ Reader \/ Tick \/ Answers \/ Closed
        \/ \E r \in net : Serve(r) \/ Fail(r)

Spec == Init /\ [][Next]_vars

-----------------------------------------------------------------------------
\* Every variable has a value of its kind.
Requests == [kind: {"config"}, gen: Generations]
            \cup [kind: {"metrics"}, gen: Generations, query: Choices, at: 0 .. MaxNow \cup {None}]
TypeOK ==
    /\ now \in 0 .. MaxNow /\ since \in 0 .. MaxNow
    /\ dialog \in {"open", "closing", "closed"} /\ demo \in BOOLEAN
    /\ machines \in {{}, Machines}
    /\ machineId \in Machines \cup {None} /\ taskId \in Tasks \cup {None}
    /\ follow \in BOOLEAN /\ manualRange \in Ranges \cup {None}
    /\ generation \in Generations /\ net \subseteq Requests
    /\ snapshot \in {None} \cup [query: Choices, at: 0 .. MaxNow]

\* The dialog keeps the promise of a panel: its curves answer the choices
\* beside them, through late answers, closing and reopening.
Shown == IF dialog = "open" THEN snapshot ELSE None
Panel == INSTANCE LatestAnswer WITH asked <- Query, shown <- Shown
Implements == Panel!Spec
CurvesMatch == Panel!Matches

\* While the dialog follows the present and has its list of machines, and
\* nobody interrupts its requests, the present is shown again and again,
\* whatever fails: if Following and Uninterrupted hold from some step on.
Following == dialog = "open" /\ follow /\ ~demo /\ machineId \in machines \cap Enabled
Uninterrupted == generation' # generation => request = {}
Present == snapshot # None /\ snapshot.at = now

=============================================================================
