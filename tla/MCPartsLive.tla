----------------------------- MODULE MCPartsLive -----------------------------
(***************************************************************************)
(* What the parts of MCParts must eventually do, under fairness.  Timers    *)
(* fire, handlers whose answer has arrived run, and a request that is made  *)
(* again and again gets through again and again; readers and operators owe  *)
(* nothing.  A behaviour is one of a single part, so fairness for a         *)
(* disjunction of actions of different parts is fairness for each of them.  *)
(***************************************************************************)
EXTENDS MCParts

\* A step of one part.
OfDash(A) == part = "dashboard" /\ A /\ UNCHANGED <<part, rest12>>
OfOpening(A) == part = "opening" /\ A /\ UNCHANGED <<part, rest12>>
OfPaging(A) == part = "paging" /\ A /\ UNCHANGED <<part, rest10>>
OfTasks(A) == part = "tasks" /\ A /\ UNCHANGED <<part, rest14>>
OfMetrics(A) == part = "metrics" /\ A /\ UNCHANGED <<part, rest12>>
OfWaits(A) == part = "continuation panel" /\ A /\ UNCHANGED <<part, rest12>>
OfTerminal(A) == part = "terminal" /\ A /\ UNCHANGED <<part, rest9>>
OfCleanup(A) == part = "cleanup" /\ A /\ UNCHANGED part

\* A session of the terminal and its socket, by generation.
Accepts(g) == OfTerminal(\E c \in v7 : c.gen = g /\ (Panels!Term!Accept(c) \/ Panels!Term!Over(c)))
Opens(g) == OfTerminal(\E c \in v7 : c.gen = g /\ Panels!Term!SocketOpens(c))
Closes(g) == OfTerminal(\E c \in v7 : c.gen = g /\ Panels!Term!Closed(c))

\* The poll timer of the page, its clocks, the five-second timers of the
\* dialogs, the sockets of the terminal, and the minutes of the cleanup.
Timers ==
    /\ WF_vars(OfDash(Dash!PollStarts) \/ OfOpening(Opening!PollStarts) \/ OfPaging(Panels!Pager!Second) \/ OfTasks(Task!Refresh)
               \/ OfMetrics(Stats!Metric!Tick) \/ OfWaits(Panels!Waits!refresh) \/ OfCleanup(Clean!Minute)
               \/ Accepts(0))
    /\ WF_vars(OfPaging(Panels!Pager!Tick) \/ OfMetrics(Stats!Metric!AgentSamples) \/ Accepts(1))
    /\ WF_vars(OfPaging(Panels!Pager!Render) \/ Accepts(2))

\* The handlers of the page, and what the program does once it has an answer.
Handlers ==
    /\ WF_vars(OfDash(Dash!PollAnswered) \/ OfOpening(Opening!PollAnswered)
               \/ OfTasks(Task!Refreshed)
               \/ OfWaits(Panels!Waits!Controlled) \/ OfCleanup(Clean!NoAnswer) \/ Opens(0))
    /\ WF_vars(OfDash(Dash!StartupEnds) \/ OfOpening(Opening!StartupEnds) \/ OfWaits(Panels!Waits!ControlFails)
               \/ OfCleanup(Clean!DecideGone) \/ Opens(1))
    /\ WF_vars(OfDash(\E c \in Dash!Customs : Dash!CustomSaved(c)) \/ OfCleanup(Clean!Decide) \/ Opens(2))
    /\ WF_vars(OfDash(Dash!SettingsSaved) \/ Closes(0))
    /\ WF_vars(OfDash(Dash!ServeConfig("startup") /\ Dash!Serve)
               \/ OfOpening(Opening!ServeConfig("startup") /\ Opening!Serve) \/ Closes(1))
    /\ WF_vars(OfDash((Dash!ServeSettings /\ Dash!Serve) \/ Dash!Fail("settings")) \/ Closes(2))
    /\ WF_vars(OfDash(\E c \in Dash!Customs : (Dash!ServeCommand(c) /\ Dash!Serve) \/ Dash!Fail(c)))

\* What is tried again and again: the requests of the timers, the inspections
\* of a machine and the writes of their results.
Found(r) == r.stage = "found"
Retries ==
    /\ SF_vars(OfDash(Dash!ServeStatus /\ Dash!Serve) \/ OfOpening(Opening!ServeStatus /\ Opening!Serve)
               \/ OfTasks(Task!Lists)
               \/ OfMetrics(\E r \in v12 : Stats!Metric!Serve(r))
               \/ OfWaits(\E r \in v8 : Panels!Waits!ServeRead(r))
               \/ OfCleanup(\E id \in Clean!Ids : Clean!Follow(id)))
    /\ SF_vars(OfDash(Dash!PollAnswered /\ v11["poll"].stage = "answered")
               \/ OfOpening(Opening!PollAnswered /\ v11["poll"].stage = "answered")
               \/ OfTasks(Task!Refreshed /\ \E r \in v13 : Found(r) /\ v13' = v13 \ {r})
               \/ OfMetrics(\E r \in v12 : Stats!Metric!Draw(r))
               \/ OfWaits(\E r \in v8 : Panels!Waits!Refreshed(r))
               \/ OfCleanup(Clean!Inspect))
    /\ SF_vars(OfMetrics(\E r \in v12 : Stats!Metric!MachinesRead(r))
               \/ OfCleanup(Clean!Decide /\ v5' # v5))

FairSpec == Spec /\ Timers /\ Handlers /\ Retries

-----------------------------------------------------------------------------
\* A page catches up with what it shows, whatever answers were lost or late:
\* the table of samples while it polls, the list of tasks when the service
\* rests, the curves that follow the present, and the list of experiments
\* (app.js:198-204, tasks.js:148-162, metrics.js:182, continuations.js:45-70).
PagesCatchUp ==
    /\ <>[](part = "dashboard" /\ Dash!Polling) => []<>(part = "dashboard" /\ Dash!Fresh)
    /\ <>[](part = "opening" /\ Opening!Polling) => []<>(part = "opening" /\ Opening!Fresh)
    /\ <>[][part = "tasks" /\ Task!Resting]_vars /\ []<>(part = "tasks")
            => <>(part = "tasks" /\ Task!CaughtUp)
    /\ <>[](part = "metrics" /\ Stats!Metric!Following) /\ <>[][part = "metrics" => Stats!Metric!Uninterrupted]_vars
            => []<>(part = "metrics" /\ Stats!Metric!Present)
    /\ []<>(part = "continuation panel") => <>[](part = "continuation panel" /\ Panels!Waits!CaughtUp)

\* The rotation goes round all the machines that match, as long as nothing
\* suspends it: each is on the screen again and again (page-rotation.js, README.md).
EveryMachineComesRound ==
    \A m \in 1 .. 3 :
        <>[](part = "paging" /\ Panels!Pager!Undisturbed(m)) => []<>(part = "paging" /\ m \in Panels!Pager!Visible)

\* The sessions of the terminal, of which there are four, come back when its
\* dialog stays closed (terminal.go:35-49, 116-266).
SlotsComeBack ==
    <>[](part = "terminal" /\ ~v1) => <>[](part = "terminal" /\ Panels!Term!NoSessions)

\* A process that was to be signalled and is gone is found to be gone, also
\* when the policy is turned off, the waiter is cancelled or the program
\* restarts in between (cleanup.go:361-377).
EndIsVerified ==
    \A id \in Clean!Ids :
        (part = "cleanup" /\ Clean!ToVerify(id)) ~> (part = "cleanup" /\ Clean!Verified(id))
=============================================================================
