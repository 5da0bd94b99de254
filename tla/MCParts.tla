------------------------------- MODULE MCParts -------------------------------
(***************************************************************************)
(* Small instances, for TLC, of the dialogs of the browser, of the SSH      *)
(* terminal and of the cleanup of idle processes.  These parts share no     *)
(* state with each other, so one run can check them all: a behaviour is a   *)
(* behaviour of one part, the one "part" names, and the variables of that   *)
(* part are kept in the slots v1, v2 and so on; slots a part does not need  *)
(* stay None.  A property says for every part what it says in the module of *)
(* that part.  A part whose properties are proved is an instance of its     *)
(* module of proofs, which extends the part: its theorems come with it.     *)
(***************************************************************************)
EXTENDS Naturals, Sequences, TLC

CONSTANTS
    Parts,      \* the parts this run checks
    None,
    Commands, c1, LossyCallers, OtherClients, MaxSaves,     \* the dashboard
    Grid, Grids, Searches, Layouts, Intervals,              \* the pages of the grid
    Drafts, Filters,                                        \* the task page
    Bars, ha, hb, lo, p, q, m1, m2, m3,                     \* its time axis and lanes
    job, range, everything, group, invalid,                 \* the statistics
    Batches,                                                \* execution
    Audits, ReadIDs, MaxChecks, MaxSwitches,                \* the cleanup panel
    Targets, MaxOld, MaxSessions, ChunkSizes, MaxBuffered, MaxTyped,    \* the terminal
    Procs, Minimum                                          \* the cleanup

VARIABLES part, v1, v2, v3, v4, v5, v6, v7, v8, v9, v10, v11, v12, v13, v14, v15,
          v16, v17, v18

vars == <<part, v1, v2, v3, v4, v5, v6, v7, v8, v9, v10, v11, v12, v13, v14, v15,
          v16, v17, v18>>

-----------------------------------------------------------------------------
(* What the parts are instantiated with.                                    *)

\* One command is stored and running; another may be added.
StoredCommands == [c \in Commands |-> IF c = c1 THEN "running" ELSE "absent"]

\* Lists of machines for the lanes: one machine under several names, with and
\* without a declared resource.  Every host has one resource.
Entry(m, h, r) == [id |-> m, host |-> h, port |-> 22, resourceID |-> r]
AliasLists ==
    {<<Entry(m1, h, p)>> \o rest :
        h \in {ha, hb},
        rest \in {<< >>} \cup {<<Entry(m2, k, r), Entry(m3, l, r)>> :
                                k \in {ha, hb}, l \in {ha, hb}, r \in {p, q}}}
Consistent(ms) ==
    \A i, k \in DOMAIN ms : ms[i].host = ms[k].host => ms[i].resourceID = ms[k].resourceID
Aliases == {ms \in AliasLists : Consistent(ms)}
           \cup {<<Entry(m2, hb, None), Entry(m1, ha, p)>>,
                 <<Entry(m2, hb, None), Entry(m3, hb, None)>>}


-----------------------------------------------------------------------------
Dash == INSTANCE DashboardProofs WITH
    CommandIDs <- Commands, ServerStart <- StoredCommands, StartInDemo <- FALSE,
    Lossy <- LossyCallers, Polls <- TRUE, Dialogs <- TRUE,
    server <- v1, config <- v2, states <- v3, demo <- v4, paused <- v5, busy <- v6,
    draft <- v7, edits <- v8, customID <- v9, timer <- v10, net <- v11,
    rendered <- v12

\* Two saves, which may overlap and fail, between two polls.
Saving == INSTANCE DashboardProofs WITH
    CommandIDs <- {c1}, ServerStart <- (c1 :> "running"), StartInDemo <- FALSE,
    Lossy <- {"custom", "again", "settings"}, Polls <- FALSE, Dialogs <- FALSE, MaxSaves <- 2,
    server <- v1, config <- v2, states <- v3, demo <- v4, paused <- v5, busy <- v6,
    draft <- v7, edits <- v8, customID <- v9, timer <- v10, net <- v11,
    rendered <- v12

\* The page is opened with ?demo=1, nothing is saved, and any request may be lost.
Opening == INSTANCE DashboardProofs WITH
    CommandIDs <- {"old", "new"}, ServerStart <- ("old" :> "running" @@ "new" :> "absent"),
    StartInDemo <- TRUE, OtherClients <- FALSE, Lossy <- Dash!Callers,
    Polls <- TRUE, Dialogs <- TRUE, MaxSaves <- 0,
    server <- v1, config <- v2, states <- v3, demo <- v4, paused <- v5, busy <- v6,
    draft <- v7, edits <- v8, customID <- v9, timer <- v10, net <- v11,
    rendered <- v12

\* The task page, its time axis and its lanes; what two of them call by one
\* name has one slot.
Task == INSTANCE TaskPageProofs WITH
    IDs <- Drafts, Slots <- {1}, Modes <- Filters, Impatient <- FALSE, Faults <- TRUE,
    tasks <- v1, jobs <- v2, filter <- v3, selected <- v4, pending <- v5, logs <- v6,
    busy <- v7, refreshing <- v8, submitDisabled <- v9, posts <- v10, check <- v11,
    action <- v12, lists <- v13, unsettled <- v14,
    Second <- 2, Hour <- 4, MaxTime <- 8,
    now <- v1, view <- v3, drawn <- v4, bounds <- v5, pointed <- v6,
    Machines <- {m1, m2, m3}, Hosts <- {ha, hb, lo}, LoopbackHosts <- {lo},
    Localhost <- lo, ResourceIDs <- {p, q}, Ports <- {22, 2201, 2202},
    MachineLists <- Aliases, MaxJobs <- 3,
    machines <- v1, groups <- v3, lanes <- v4

\* The three panels of statistics; what two of them call by one name has one slot.
Stats == INSTANCE StatisticsProofs WITH
    Machines <- {m1, m2}, Enabled <- {m1}, Tasks <- {job}, Ranges <- {range},
    Generations <- 1 .. 3, Groups <- {everything, group}, NoGroup <- everything,
    Filters <- {everything, group, invalid}, NoFilter <- everything, Broken <- {invalid},
    Names <- 1 .. 3, MaxOpenings <- 2, MaxNow <- 2, MaxRanking <- 1, Faults <- TRUE,
    now <- v1, demo <- v2, dialog <- v3, snapshot <- v4, since <- v5,
    openings <- v6, request <- v7, generation <- v8,
    machines <- v6, machineId <- v7, taskId <- v9, follow <- v10, manualRange <- v11, net <- v12,
    period <- v8, group <- v9, day <- v10,
    filter <- v9, openEpoch <- v10, timer <- v11, running <- v12, exportable <- v13, boxed <- v14

\* The grid, the dialog of execution, and the panels of the cleanup and of the
\* experiments; what two of them call by one name has one slot.
Panels == INSTANCE PanelProofs WITH
    Machines <- Grid, MachineLists <- Grids, Queries <- Searches, Sizes <- Layouts,
    Rates <- Intervals, Blockers <- {"paused", "busy", "hidden", "dialog", "typing"},
    machines <- v1, query <- v2, size <- v3, page <- v4, pageCount <- v5,
    paginationKey <- v6, seconds <- v7, left <- v8, blockers <- v9, quiet <- v10,
    MaxOvertaken <- 1, Keep <- 2, MaxRuns <- 2, LossyRequests <- {"post", "poll", "config"},
    run <- v1, seen <- v2, order <- v3, active <- v4, done <- v5, starts <- v6,
    token <- v7, opening <- v8, prepared <- v9, submitting <- v10, jobID <- v11,
    drawn <- v12, queries <- v15, poll <- v16,
    select <- v17, wanted <- v18, unanswered <- v13,
    Sequences <- ReadIDs, Slow <- TRUE, Lossy <- TRUE,
    policy <- v1, writes <- v3, status <- v4, available <- v5, selected <- v7,
    audit <- v8, sequence <- v9, unfolded <- v11, reading <- v12, loads <- v13,
    late <- v15, doubted <- v16,
    MaxChanges <- 4, MaxControls <- 2,
    controls <- v1, capable <- v3, message <- v4, shown <- v5, told <- v7, reads <- v8,
    control <- v9, confirmed <- v11, doubt <- v12,
    open <- v1, machine <- v2, terminal <- v3, socket <- v4, checking <- v6, conns <- v7,
    listing <- v8, refused <- v9,
    version <- v2, busy <- v6, clicks <- v10, post <- v14

Clean == INSTANCE CleanupProofs WITH
    Names <- <<"resource">>, MaxGap <- 1, MaxMarks <- 1,
    enabled <- v1, waiting <- v2, holder <- v3, named <- v4, audits <- v5, check <- v6,
    due <- v7, disk <- v8, orders <- v9, requests <- v10, proc <- v11, mark <- v12,
    residue <- v13, quiet <- v14, started <- v15, receipts <- v16, hand <- v17,
    signals <- v18

\* The settings give the machine another resource on the way.
Renamed == INSTANCE CleanupProofs WITH
    Names <- <<"resource", "renamed">>, Procs <- {"process"}, MaxGap <- 1, MaxMarks <- 0,
    enabled <- v1, waiting <- v2, holder <- v3, named <- v4, audits <- v5, check <- v6,
    due <- v7, disk <- v8, orders <- v9, requests <- v10, proc <- v11, mark <- v12,
    residue <- v13, quiet <- v14, started <- v15, receipts <- v16, hand <- v17,
    signals <- v18

-----------------------------------------------------------------------------
\* The slots from the n-th on that a part leaves alone.
blank16 == v17 = None /\ v18 = None
blank14 == v15 = None /\ v16 = None /\ blank16
blank12 == v13 = None /\ v14 = None /\ blank14
blank10 == v11 = None /\ v12 = None /\ blank12
blank9 == v10 = None /\ blank10
blank6 == v7 = None /\ v8 = None /\ v9 = None /\ blank9
blank4 == v5 = None /\ v6 = None /\ blank6
rest16 == <<v17, v18>>
rest14 == <<v15, v16, rest16>>
rest12 == <<v13, v14, rest14>>
rest10 == <<v11, v12, rest12>>
rest9 == <<v10, rest10>>
rest6 == <<v7, v8, v9, rest9>>
rest4 == <<v5, v6, rest6>>

Init ==
    /\ part \in Parts
    /\ \/ part = "dashboard" /\ Dash!Init /\ blank12 /\ v1.machines
       \/ part = "saving" /\ Saving!Init /\ blank12
       \/ part = "opening" /\ Opening!Init /\ blank12
       \/ part = "paging" /\ Panels!Pager!Init /\ blank10
       \/ part = "tasks" /\ Task!Init /\ blank14
       \/ part = "timeline" /\ Task!Axis!Init /\ blank6
       \/ part = "lanes" /\ Task!Lanes!Init /\ blank4
       \/ part = "metrics" /\ Stats!Metric!Init /\ blank12
       \/ part = "utilization" /\ Stats!Usage!Init /\ blank10
       \/ part = "idle ranking" /\ Stats!Ranking!Init /\ blank14
       \/ part = "execution" /\ Panels!Exec!Init
       \/ part = "cleanup panel" /\ Panels!Policy!Init /\ blank16 /\ ~v1
       \/ part = "continuation panel" /\ Panels!Waits!Init /\ blank12
       \/ part = "terminal" /\ Panels!Term!Init /\ blank9
       \/ part = "cleanup" /\ Clean!Init
       \/ part = "renamed" /\ Renamed!Init

Next ==
    /\ UNCHANGED part
    /\ \/ part = "dashboard" /\ Dash!Next /\ UNCHANGED rest12
       \/ part = "saving" /\ Saving!Next /\ UNCHANGED rest12
       \/ part = "opening" /\ Opening!Next /\ UNCHANGED rest12
       \/ part = "paging" /\ Panels!Pager!Next /\ UNCHANGED rest10
       \/ part = "tasks" /\ Task!Next /\ UNCHANGED rest14
       \/ part = "timeline" /\ Task!Axis!Next /\ UNCHANGED rest6
       \/ part = "lanes" /\ Task!Lanes!Next /\ UNCHANGED rest4
       \/ part = "metrics" /\ Stats!Metric!Next /\ UNCHANGED rest12
       \/ part = "utilization" /\ Stats!Usage!Next /\ UNCHANGED rest10
       \/ part = "idle ranking" /\ Stats!Ranking!Next /\ UNCHANGED rest14
       \/ part = "execution" /\ Panels!Exec!Next
       \/ part = "cleanup panel" /\ Panels!Policy!Next /\ UNCHANGED rest16
       \/ part = "continuation panel" /\ Panels!Waits!Next /\ UNCHANGED rest12
       \/ part = "terminal" /\ Panels!Term!Next /\ UNCHANGED rest9
       \/ part = "cleanup" /\ Clean!Next
       \/ part = "renamed" /\ Renamed!Next

Spec == Init /\ [][Next]_vars

\* The assumptions of the parts about their constants hold.
ASSUME PartsAssumption ==
    /\ Dash!DashboardAssumption /\ Saving!DashboardAssumption /\ Opening!DashboardAssumption
    /\ Panels!Pager!PagingAssumption /\ Task!TaskPageAssumption
    /\ Task!Axis!TimelineAssumption
    /\ Task!Lanes!TaskGroupsAssumption /\ Task!Lanes!OneResourcePerHost
    /\ Stats!Metric!MetricsPanelAssumption
    /\ Stats!Usage!UtilizationAssumption /\ Stats!Ranking!IdleRankingAssumption
    /\ Panels!Exec!ExecutionAssumption /\ Panels!Policy!PanelAssumption
    /\ Panels!Waits!ContinuationPanelAssumption /\ Panels!Term!TerminalAssumption
    /\ Clean!CleanupAssumption /\ Renamed!CleanupAssumption

-----------------------------------------------------------------------------
(* Properties.                                                              *)

\* Every variable of every part has a value of its kind.
TypeOK ==
    /\ part = "dashboard" => Dash!TypeOK
    /\ part = "saving" => Saving!TypeOK
    /\ part = "opening" => Opening!TypeOK
    /\ part = "paging" => Panels!Pager!TypeOK
    /\ part = "tasks" => Task!TypeOK
    /\ part = "timeline" => Task!Axis!TypeOK
    /\ part = "lanes" => Task!Lanes!TypeOK
    /\ part = "metrics" => Stats!Metric!TypeOK
    /\ part = "utilization" => Stats!Usage!TypeOK
    /\ part = "idle ranking" => Stats!Ranking!TypeOK
    /\ part = "execution" => Panels!Exec!TypeOK
    /\ part = "cleanup panel" => Panels!Policy!TypeOK
    /\ part = "continuation panel" => Panels!Waits!TypeOK
    /\ part = "terminal" => Panels!Term!TypeOK
    /\ part = "cleanup" => Clean!TypeOK
    /\ part = "renamed" => Renamed!TypeOK

\* What a dialog shows belongs to what is chosen in it, whatever the order of
\* the answers: curves, logs, details of an audit, results of a batch, output
\* of a terminal, the day of a week (metrics.js:90, tasks.js:207,
\* cleanup.js:102, execution.js:17-26, ssh-terminal.js:54, utilization.js:32-43).
ShownIsChosen ==
    /\ part = "metrics" => Stats!Metric!CurvesMatch
    /\ part = "tasks" => Task!LogsMatchSelection
    /\ part = "cleanup panel" => Panels!Policy!DetailIsSelected
    /\ part = "terminal" => Panels!Term!ShowsItsOwn
    /\ part = "execution" => Panels!Exec!ShownWasChosen
    /\ part = "utilization" => Stats!Usage!DayIsCovered

\* The three panels of statistics keep the promise of LatestAnswer: beside the
\* choices stands nothing, or an answer to these choices that is no older than
\* they are, through aborted requests, late answers, closing and reopening.
Implements ==
    /\ part = "metrics" => Stats!Metric!Panel!Init
    /\ part = "utilization" => Stats!Usage!Panel!Init
    /\ part = "idle ranking" => Stats!Ranking!Panel!Init
    /\ [][/\ part = "metrics" => [Stats!Metric!Panel!Next]_(Stats!Metric!Panel!vars)
          /\ part = "utilization" => [Stats!Usage!Panel!Next]_(Stats!Usage!Panel!vars)
          /\ part = "idle ranking" => [Stats!Ranking!Panel!Next]_(Stats!Ranking!Panel!vars)]_vars

\* The page of the grid that is drawn exists and is not empty unless the list
\* is, and the command in the editor is one of the list beside it, although
\* lists and configurations are replaced under them (app.js:42-46, 136-152).
ViewsExist ==
    /\ part = "paging" => Panels!Pager!PageExists
    /\ part = "dashboard" => Dash!EditorShowsAChoice
    /\ part = "saving" => Saving!EditorShowsAChoice
    /\ part = "opening" => Opening!EditorShowsAChoice

\* What the reader asked for once is done once at most, through lost requests,
\* lost answers, retries, restarts and reloads: a submitted task, a reviewed
\* batch, a click on the cleanup switch, a control of an experiment
\* (tasks.js:163-191, execution.js:18, cleanup.js:120-143, continuations.js:55-67).
EffectsAreOnce ==
    /\ part = "tasks" => Task!NoDuplicateWork
    /\ part = "execution" => Panels!Exec!OnceOnly
    /\ part = "cleanup panel" => Panels!Policy!WritesAreClicks
    /\ part = "continuation panel" => Panels!Waits!ControlsAreClicks

\* As long as it is open whether a request was carried out, the page keeps its
\* identifier, shows what came of it, or says so: a submission, a batch, a
\* control of an experiment (tasks.js:172-200, execution.js:17-19,
\* continuations.js:64).
DoubtIsKept ==
    /\ part = "tasks" => Task!PendingKept
    /\ part = "execution" => Panels!Exec!SubmissionKept /\ Panels!Exec!LostIsFound
    /\ part = "continuation panel" => Panels!Waits!DoubtIsTold

\* Nothing stays locked or goes on without an end: controls that a save holds
\* back have a save that releases them, and a timer that runs is one its
\* dialog knows (app.js:206-231, 283-288, idle-ranking.js:48-62).
ControlsComeBack ==
    /\ part = "dashboard" => Dash!BusyHasAWrite
    /\ part = "saving" => Saving!BusyHasAWrite
    /\ part = "idle ranking" => Stats!Ranking!NoTimerIsLost

\* Nothing of the demonstration is written to the service, neither a command
\* nor its machines, whatever answers arrive in it and however the settings
\* were opened (README.md:40; app.js:215, 275-285).
DemoWritesNothing ==
    [][/\ part = "dashboard" => Dash!DemoIsLocal
       /\ part = "saving" => Saving!DemoIsLocal
       /\ part = "opening" => Opening!DemoIsLocal]_vars

\* A page of the grid turns by itself only when the reader has left it alone
\* for the whole interval, however late timers are (page-rotation.js:11).
DwellIsWhole == [][part = "paging" => Panels!Pager!TurnsAfterDwell]_vars

\* What is typed into the terminal reaches the machine that was selected when
\* it was typed: there is one live socket at most, the dialog's own, however
\* connecting, choosing and closing interleave (ssh-terminal.js:38-60).
InputReachesSelected ==
    part = "terminal" => Panels!Term!InputReachesSelected /\ Panels!Term!OneSocket

\* No session ends because the page acknowledged output that was not sent to
\* it, or twice (ssh-terminal.js:54-57, terminal.go:87-114).
AcksMatch == part = "terminal" => Panels!Term!AcksMatch

\* At most one request to terminate a process is ever made, and a process that
\* was signalled is on record in the files, through lost answers, failed
\* writes and restarts (cleanup.go:568, 111-160).
OnlyRequest ==
    /\ part = "cleanup" => Clean!OnlyRequest /\ Clean!SignalsAreOnRecord
    /\ part = "renamed" => Renamed!OnlyRequest /\ Renamed!SignalsAreOnRecord

\* While the request to terminate is out, no task has been given the machine
\* (cleanup.go:446, 528-556, continuation_scheduler.go:44-56).
HeldMachinesSpared ==
    /\ part = "cleanup" => Clean!HeldMachinesSpared
    /\ part = "renamed" => Renamed!HeldMachinesSpared

\* A process is taken hold of only after it has made no progress for the whole
\* minimum, also between observations (cleanup.go:484-527, cleanup_remote.py:109).
HeldAfterQuiet ==
    [][/\ part = "cleanup" => Clean!HeldWhenQuiet
       /\ part = "renamed" => Renamed!HeldWhenQuiet]_vars

\* What a page shows does not go back: the list of tasks, the list of
\* experiments after a control was confirmed, and the switch of the cleanup
\* after a click (tasks.js:148-162, continuations.js:45-67, cleanup.js:108-143).
NothingGoesBack ==
    /\ [](part = "continuation panel" => Panels!Waits!ListFollowsControl)
    /\ [](part = "cleanup panel" => Panels!Policy!SwitchShowsPolicy)
    /\ [][part = "tasks" => Task!GoesOn]_vars

\* The board of tasks tells the truth: it stays within the time there is, fits
\* every event when asked to, keeps the time under the mouse, leaves tasks on
\* the host they ran on and aliases of a machine in one lane
\* (task-timeline.js:12-37, 51-77; task-timeline.test.cjs:36-37).
BoardIsTrue ==
    /\ part = "timeline" => /\ Task!Axis!ViewInside /\ Task!Axis!FitShowsEverything
                            /\ Task!Axis!ZoomKeepsTime
    /\ part = "lanes" => Task!Lanes!HistoryStaysOnHost /\ Task!Lanes!AliasesTogether
=============================================================================
