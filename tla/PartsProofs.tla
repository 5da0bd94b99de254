----------------------------- MODULE PartsProofs -----------------------------
(***************************************************************************)
(* What the composition of MCParts promises for every value of its         *)
(* constants.  Each part keeps its own promise, by the theorems of its     *)
(* module; a behaviour of the composition in which "part" names it is a    *)
(* behaviour of that part, so the composition keeps all of them.           *)
(***************************************************************************)
EXTENDS MCParts, TLAPS

\* The part that was chosen stays.
LEMMA PartStays ==
    ASSUME [Next]_vars
    PROVE  part' = part
  BY DEF Next, vars

-----------------------------------------------------------------------------
(* A behaviour of the composition is one of a part, or never concerns it.   *)

\* The cleanup, under one name of the resource.
LEMMA CleanPart == Spec => (part = "cleanup" /\ Clean!Spec) \/ []~(part = "cleanup")
  <1>1. Init /\ part = "cleanup" => Clean!Init
    BY DEF Init
  <1>2. [Next]_vars /\ part = "cleanup" => [Clean!Next]_(Clean!vars)
    BY DEF Next, vars, Clean!vars, Clean!scope, Clean!world, Clean!remote
  <1>3. [Next]_vars => (part = "cleanup" <=> (part = "cleanup")')
    BY PartStays
  <1> QED  BY <1>1, <1>2, <1>3, PTL DEF Spec, Clean!Spec

\* The cleanup, when the settings rename the resource.
LEMMA RenamedPart == Spec => (part = "renamed" /\ Renamed!Spec) \/ []~(part = "renamed")
  <1>1. Init /\ part = "renamed" => Renamed!Init
    BY DEF Init
  <1>2. [Next]_vars /\ part = "renamed" => [Renamed!Next]_(Renamed!vars)
    BY DEF Next, vars, Renamed!vars, Renamed!scope, Renamed!world, Renamed!remote
  <1>3. [Next]_vars => (part = "renamed" <=> (part = "renamed")')
    BY PartStays
  <1> QED  BY <1>1, <1>2, <1>3, PTL DEF Spec, Renamed!Spec

\* The task page.
LEMMA TaskPart == Spec => (part = "tasks" /\ Task!Spec) \/ []~(part = "tasks")
  <1>1. Init /\ part = "tasks" => Task!Init
    BY DEF Init
  <1>2. [Next]_vars /\ part = "tasks" => [Task!Next]_(Task!vars)
    BY DEF Next, vars, Task!vars, Task!page, Task!net
  <1>3. [Next]_vars => (part = "tasks" <=> (part = "tasks")')
    BY PartStays
  <1> QED  BY <1>1, <1>2, <1>3, PTL DEF Spec, Task!Spec

\* The time axis of the task page.
LEMMA AxisPart == Spec => (part = "timeline" /\ Task!Axis!Spec) \/ []~(part = "timeline")
  <1>1. Init /\ part = "timeline" => Task!Axis!Init
    BY DEF Init
  <1>2. [Next]_vars /\ part = "timeline" => [Task!Axis!Next]_(Task!Axis!vars)
    BY DEF Next, vars, Task!Axis!vars
  <1>3. [Next]_vars => (part = "timeline" <=> (part = "timeline")')
    BY PartStays
  <1> QED  BY <1>1, <1>2, <1>3, PTL DEF Spec, Task!Axis!Spec

\* The lanes of the task page.
LEMMA LanesPart == Spec => (part = "lanes" /\ Task!Lanes!Spec) \/ []~(part = "lanes")
  <1>1. Init /\ part = "lanes" => Task!Lanes!Init
    BY DEF Init
  <1>2. [Next]_vars /\ part = "lanes" => [Task!Lanes!Next]_(Task!Lanes!vars)
    BY DEF Next, vars, Task!Lanes!vars
  <1>3. [Next]_vars => (part = "lanes" <=> (part = "lanes")')
    BY PartStays
  <1> QED  BY <1>1, <1>2, <1>3, PTL DEF Spec, Task!Lanes!Spec

\* The pages of the grid.
LEMMA PagerPart == Spec => (part = "paging" /\ Panels!Pager!Spec) \/ []~(part = "paging")
  <1>1. Init /\ part = "paging" => Panels!Pager!Init
    BY DEF Init
  <1>2. [Next]_vars /\ part = "paging" => [Panels!Pager!Next]_(Panels!Pager!vars)
    BY DEF Next, vars, Panels!Pager!vars
  <1>3. [Next]_vars => (part = "paging" <=> (part = "paging")')
    BY PartStays
  <1> QED  BY <1>1, <1>2, <1>3, PTL DEF Spec, Panels!Pager!Spec

\* One-off execution.
LEMMA ExecPart == Spec => (part = "execution" /\ Panels!Exec!Spec) \/ []~(part = "execution")
  <1>1. Init /\ part = "execution" => Panels!Exec!Init
    BY DEF Init
  <1>2. [Next]_vars /\ part = "execution" => [Panels!Exec!Next]_(Panels!Exec!vars)
    BY DEF Next, vars, Panels!Exec!vars, Panels!Exec!executor, Panels!Exec!net, Panels!Exec!form,
           Panels!Exec!results, Panels!Exec!choice
  <1>3. [Next]_vars => (part = "execution" <=> (part = "execution")')
    BY PartStays
  <1> QED  BY <1>1, <1>2, <1>3, PTL DEF Spec, Panels!Exec!Spec

\* The panel of the cleanup.
LEMMA PolicyPart == Spec => (part = "cleanup panel" /\ Panels!Policy!Spec) \/ []~(part = "cleanup panel")
  <1>1. Init /\ part = "cleanup panel" => Panels!Policy!Init
    BY DEF Init
  <1>2. [Next]_vars /\ part = "cleanup panel" => [Panels!Policy!Next]_(Panels!Policy!vars)
    BY DEF Next, vars, Panels!Policy!vars, Panels!Policy!service, Panels!Policy!state, Panels!Policy!detail, Panels!Policy!net, Panels!Policy!seen
  <1>3. [Next]_vars => (part = "cleanup panel" <=> (part = "cleanup panel")')
    BY PartStays
  <1> QED  BY <1>1, <1>2, <1>3, PTL DEF Spec, Panels!Policy!Spec

\* The panel of the experiments.
LEMMA WaitsPart == Spec => (part = "continuation panel" /\ Panels!Waits!Spec) \/ []~(part = "continuation panel")
  <1>1. Init /\ part = "continuation panel" => Panels!Waits!Init
    BY DEF Init
  <1>2. [Next]_vars /\ part = "continuation panel" => [Panels!Waits!Next]_(Panels!Waits!vars)
    BY DEF Next, vars, Panels!Waits!vars, Panels!Waits!service, Panels!Waits!page, Panels!Waits!seen
  <1>3. [Next]_vars => (part = "continuation panel" <=> (part = "continuation panel")')
    BY PartStays
  <1> QED  BY <1>1, <1>2, <1>3, PTL DEF Spec, Panels!Waits!Spec

\* The terminal.
LEMMA TermPart == Spec => (part = "terminal" /\ Panels!Term!Spec) \/ []~(part = "terminal")
  <1>1. Init /\ part = "terminal" => Panels!Term!Init
    BY DEF Init
  <1>2. [Next]_vars /\ part = "terminal" => [Panels!Term!Next]_(Panels!Term!vars)
    BY DEF Next, vars, Panels!Term!vars, Panels!Term!dialog
  <1>3. [Next]_vars => (part = "terminal" <=> (part = "terminal")')
    BY PartStays
  <1> QED  BY <1>1, <1>2, <1>3, PTL DEF Spec, Panels!Term!Spec

\* The monitoring page with its commands and its settings.
LEMMA DashPart == Spec => (part = "dashboard" /\ Dash!Spec) \/ []~(part = "dashboard")
  <1>1. Init /\ part = "dashboard" => Dash!Init
    BY DEF Init
  <1>2. [Next]_vars /\ part = "dashboard" => [Dash!Next]_(Dash!vars)
    BY DEF Next, vars, Dash!vars
  <1>3. [Next]_vars => (part = "dashboard" <=> (part = "dashboard")')
    BY PartStays
  <1> QED  BY <1>1, <1>2, <1>3, PTL DEF Spec, Dash!Spec

\* The monitoring page when saves overlap.
LEMMA SavingPart == Spec => (part = "saving" /\ Saving!Spec) \/ []~(part = "saving")
  <1>1. Init /\ part = "saving" => Saving!Init
    BY DEF Init
  <1>2. [Next]_vars /\ part = "saving" => [Saving!Next]_(Saving!vars)
    BY DEF Next, vars, Saving!vars
  <1>3. [Next]_vars => (part = "saving" <=> (part = "saving")')
    BY PartStays
  <1> QED  BY <1>1, <1>2, <1>3, PTL DEF Spec, Saving!Spec

\* The monitoring page opened as the demonstration.
LEMMA OpeningPart == Spec => (part = "opening" /\ Opening!Spec) \/ []~(part = "opening")
  <1>1. Init /\ part = "opening" => Opening!Init
    BY DEF Init
  <1>2. [Next]_vars /\ part = "opening" => [Opening!Next]_(Opening!vars)
    BY DEF Next, vars, Opening!vars
  <1>3. [Next]_vars => (part = "opening" <=> (part = "opening")')
    BY PartStays
  <1> QED  BY <1>1, <1>2, <1>3, PTL DEF Spec, Opening!Spec

\* System metrics.
LEMMA MetricPart == Spec => (part = "metrics" /\ Stats!Metric!Spec) \/ []~(part = "metrics")
  <1>1. Init /\ part = "metrics" => Stats!Metric!Init
    BY DEF Init
  <1>2. [Next]_vars /\ part = "metrics" => [Stats!Metric!Next]_(Stats!Metric!vars)
    BY DEF Next, vars, Stats!Metric!vars, Stats!Metric!choices
  <1>3. [Next]_vars => (part = "metrics" <=> (part = "metrics")')
    BY PartStays
  <1> QED  BY <1>1, <1>2, <1>3, PTL DEF Spec, Stats!Metric!Spec

\* Hourly utilization.
LEMMA UsagePart == Spec => (part = "utilization" /\ Stats!Usage!Spec) \/ []~(part = "utilization")
  <1>1. Init /\ part = "utilization" => Stats!Usage!Init
    BY DEF Init
  <1>2. [Next]_vars /\ part = "utilization" => [Stats!Usage!Next]_(Stats!Usage!vars)
    BY DEF Next, vars, Stats!Usage!vars, Stats!Usage!inputs
  <1>3. [Next]_vars => (part = "utilization" <=> (part = "utilization")')
    BY PartStays
  <1> QED  BY <1>1, <1>2, <1>3, PTL DEF Spec, Stats!Usage!Spec

\* Idle machines.
LEMMA RankingPart == Spec => (part = "idle ranking" /\ Stats!Ranking!Spec) \/ []~(part = "idle ranking")
  <1>1. Init /\ part = "idle ranking" => Stats!Ranking!Init
    BY DEF Init
  <1>2. [Next]_vars /\ part = "idle ranking" => [Stats!Ranking!Next]_(Stats!Ranking!vars)
    BY DEF Next, vars, Stats!Ranking!vars, Stats!Ranking!timers, Stats!Ranking!observed
  <1>3. [Next]_vars => (part = "idle ranking" <=> (part = "idle ranking")')
    BY PartStays
  <1> QED  BY <1>1, <1>2, <1>3, PTL DEF Spec, Stats!Ranking!Spec

-----------------------------------------------------------------------------
\* At most one request to terminate a process is ever made, and none without a
\* record, whether the settings rename its machine or not (cleanup.go:568).
THEOREM RequestedOnce == Spec => []OnlyRequest
  <1>1. Clean!Spec => []Clean!OnlyRequest /\ []Clean!SignalsAreOnRecord
    BY Clean!AskedOnce, PartsAssumption
  <1>2. Renamed!Spec => []Renamed!OnlyRequest /\ []Renamed!SignalsAreOnRecord
    BY Renamed!AskedOnce, PartsAssumption
  <1>3. /\ part = "cleanup" => Clean!OnlyRequest /\ Clean!SignalsAreOnRecord
        /\ part = "renamed" => Renamed!OnlyRequest /\ Renamed!SignalsAreOnRecord
        => OnlyRequest
    BY DEF OnlyRequest
  <1> QED  BY <1>1, <1>2, <1>3, CleanPart, RenamedPart, PTL

\* While a request to terminate is out, no task has been given the machine
\* (cleanup.go:446, 528-556).
THEOREM MachinesSpared == Spec => []HeldMachinesSpared
  <1>1. Clean!Spec => []Clean!HeldMachinesSpared
    BY Clean!MachineSpared, PartsAssumption
  <1>2. Renamed!Spec => []Renamed!HeldMachinesSpared
    BY Renamed!MachineSpared, PartsAssumption
  <1>3. /\ part = "cleanup" => Clean!HeldMachinesSpared
        /\ part = "renamed" => Renamed!HeldMachinesSpared
        => HeldMachinesSpared
    BY DEF HeldMachinesSpared
  <1> QED  BY <1>1, <1>2, <1>3, CleanPart, RenamedPart, PTL

\* A process is taken hold of only after the whole minimum without progress
\* (cleanup.go:484-527).
THEOREM HeldQuiet == Spec => HeldAfterQuiet
  <1>1. Clean!Spec => [][Clean!HeldWhenQuiet]_(Clean!vars)
    BY Clean!HeldOnlyAfterQuiet, PartsAssumption DEF Clean!HeldAfterQuiet
  <1>2. Renamed!Spec => [][Renamed!HeldWhenQuiet]_(Renamed!vars)
    BY Renamed!HeldOnlyAfterQuiet, PartsAssumption DEF Renamed!HeldAfterQuiet
  <1>3. /\ ~(part = "cleanup") \/ [Clean!HeldWhenQuiet]_(Clean!vars)
        /\ ~(part = "renamed") \/ [Renamed!HeldWhenQuiet]_(Renamed!vars)
        => [/\ part = "cleanup" => Clean!HeldWhenQuiet
            /\ part = "renamed" => Renamed!HeldWhenQuiet]_vars
    BY DEF Clean!HeldWhenQuiet, Clean!vars, Clean!remote,
           Renamed!HeldWhenQuiet, Renamed!vars, Renamed!remote
  <1> QED  BY <1>1, <1>2, <1>3, CleanPart, RenamedPart, PTL DEF HeldAfterQuiet

\* What the reader asked for once is done once at most (tasks.js:163-191,
\* execution.js:18, cleanup.js:120-143, continuations.js:55-67).
THEOREM DoneOnce == Spec => []EffectsAreOnce
  <1>1. Task!Spec => []Task!NoDuplicateWork
    BY Task!SubmittedOnce, PartsAssumption
  <1>2. Panels!Exec!Spec => []Panels!Exec!OnceOnly
    BY Panels!ExecutedOnce, PartsAssumption
  <1>3. Panels!Policy!Spec => []Panels!Policy!WritesAreClicks
    BY Panels!WrittenOnce, PartsAssumption
  <1>4. Panels!Waits!Spec => []Panels!Waits!ControlsAreClicks
    <2>1. Panels!Waits!Spec => /\ []Panels!Waits!ControlsAreClicks
                               /\ []Panels!Waits!ListFollowsControl
                               /\ []Panels!Waits!DoubtIsTold
      BY Panels!ControlsAreSafe, PartsAssumption
    <2> QED  BY <2>1, PTL
  <1>5. /\ part = "tasks" => Task!NoDuplicateWork
        /\ part = "execution" => Panels!Exec!OnceOnly
        /\ part = "cleanup panel" => Panels!Policy!WritesAreClicks
        /\ part = "continuation panel" => Panels!Waits!ControlsAreClicks
        => EffectsAreOnce
    BY DEF EffectsAreOnce
  <1> QED  BY <1>1, <1>2, <1>3, <1>4, <1>5, TaskPart, ExecPart, PolicyPart, WaitsPart, PTL

\* As long as it is open whether a request was carried out, the page keeps its
\* identifier, shows what came of it, or says so (tasks.js:172-200,
\* execution.js:17-19, continuations.js:64).
THEOREM DoubtKept == Spec => []DoubtIsKept
  <1>1. Task!Spec => []Task!PendingKept
    BY Task!SubmissionsKept, PartsAssumption
  <1>2. Panels!Exec!Spec => [](Panels!Exec!SubmissionKept /\ Panels!Exec!LostIsFound)
    BY Panels!SubmissionStays, PartsAssumption
  <1>3. Panels!Waits!Spec => []Panels!Waits!DoubtIsTold
    <2>1. Panels!Waits!Spec => /\ []Panels!Waits!ControlsAreClicks
                               /\ []Panels!Waits!ListFollowsControl
                               /\ []Panels!Waits!DoubtIsTold
      BY Panels!ControlsAreSafe, PartsAssumption
    <2> QED  BY <2>1, PTL
  <1>4. /\ part = "tasks" => Task!PendingKept
        /\ part = "execution" => Panels!Exec!SubmissionKept /\ Panels!Exec!LostIsFound
        /\ part = "continuation panel" => Panels!Waits!DoubtIsTold
        => DoubtIsKept
    BY DEF DoubtIsKept
  <1> QED  BY <1>1, <1>2, <1>3, <1>4, TaskPart, ExecPart, WaitsPart, PTL

\* A page of the grid turns by itself only when the reader has left it alone
\* for the whole interval (page-rotation.js:11).
THEOREM DwellWhole == Spec => DwellIsWhole
  <1>1. Panels!Pager!Spec => [][Panels!Pager!TurnsAfterDwell]_(Panels!Pager!vars)
    BY Panels!TurnedAfterDwell, PartsAssumption
  <1>2. ~(part = "paging") \/ [Panels!Pager!TurnsAfterDwell]_(Panels!Pager!vars)
        => [part = "paging" => Panels!Pager!TurnsAfterDwell]_vars
    BY DEF Panels!Pager!TurnsAfterDwell, Panels!Pager!vars
  <1> QED  BY <1>1, <1>2, PagerPart, PTL DEF DwellIsWhole

\* What a page shows does not go back: the list of tasks, the list of
\* experiments, and the switch of the cleanup (tasks.js:148-162,
\* continuations.js:45-67, cleanup.js:108-143).
THEOREM GoesForward == Spec => NothingGoesBack
  <1>1. Panels!Waits!Spec => []Panels!Waits!ListFollowsControl
    <2>1. Panels!Waits!Spec => /\ []Panels!Waits!ControlsAreClicks
                               /\ []Panels!Waits!ListFollowsControl
                               /\ []Panels!Waits!DoubtIsTold
      BY Panels!ControlsAreSafe, PartsAssumption
    <2> QED  BY <2>1, PTL
  <1>2. Panels!Policy!Spec => []Panels!Policy!SwitchShowsPolicy
    <2>1. Panels!Policy!Spec => /\ []Panels!Policy!TypeOK
                                /\ []Panels!Policy!DetailIsSelected
                                /\ []Panels!Policy!SwitchShowsPolicy
      BY Panels!SwitchIsTrue, PartsAssumption
    <2> QED  BY <2>1, PTL
  <1>3. Task!Spec => [][Task!GoesOn]_(Task!vars)
    BY Task!ListsGoOn, PartsAssumption
  <1>4. [Next]_vars /\ (~(part = "tasks") \/ [Task!GoesOn]_(Task!vars))
        => [part = "tasks" => Task!GoesOn]_vars
    BY DEF Next, rest14, rest16, vars, Task!vars, Task!page, Task!net
  <1> QED  BY <1>1, <1>2, <1>3, <1>4, WaitsPart, PolicyPart, TaskPart, PTL
             DEF Spec, NothingGoesBack

\* What is typed into the terminal reaches the machine that was selected when
\* it was typed (ssh-terminal.js:38-60).
THEOREM InputArrives == Spec => []InputReachesSelected
  <1>1. Panels!Term!Spec => []Panels!Term!InputReachesSelected /\ []Panels!Term!OneSocket
    BY Panels!TypedForSelected, PartsAssumption
  <1>2. (part = "terminal" => Panels!Term!InputReachesSelected /\ Panels!Term!OneSocket)
        => InputReachesSelected
    BY DEF InputReachesSelected
  <1> QED  BY <1>1, <1>2, TermPart, PTL

\* No session ends because the page acknowledged output that was not sent to
\* it, or twice (ssh-terminal.js:54-57, terminal.go:87-114).
THEOREM AcksFit == Spec => []AcksMatch
  <1>1. Panels!Term!Spec => []Panels!Term!AcksMatch /\ []Panels!Term!ShowsItsOwn
    BY Panels!AcknowledgedOnce, PartsAssumption
  <1>2. (part = "terminal" => Panels!Term!AcksMatch) => AcksMatch
    BY DEF AcksMatch
  <1> QED  BY <1>1, <1>2, TermPart, PTL

\* The page of the grid that is drawn exists, and the command in the editor is
\* one of the list beside it (app.js:42-46, 136-152).
THEOREM ViewsAreReal == Spec => []ViewsExist
  <1>1. Panels!Pager!Spec => []Panels!Pager!TypeOK /\ []Panels!Pager!PageExists
    BY Panels!PagesExist, PartsAssumption
  <1>2. /\ Dash!Spec => []Dash!EditorShowsAChoice
        /\ Saving!Spec => []Saving!EditorShowsAChoice
        /\ Opening!Spec => []Opening!EditorShowsAChoice
    BY Dash!EditorTrue, Saving!EditorTrue, Opening!EditorTrue
  <1>3. /\ part = "paging" => Panels!Pager!PageExists
        /\ part = "dashboard" => Dash!EditorShowsAChoice
        /\ part = "saving" => Saving!EditorShowsAChoice
        /\ part = "opening" => Opening!EditorShowsAChoice
        => ViewsExist
    BY DEF ViewsExist
  <1> QED  BY <1>1, <1>2, <1>3, PagerPart, DashPart, SavingPart, OpeningPart, PTL

\* Controls that a save holds back have a save that releases them, and a timer
\* that runs is one its dialog knows (app.js:206-231, 283-288,
\* idle-ranking.js:48-62).
THEOREM NothingStaysLocked == Spec => []ControlsComeBack
  <1>1. /\ Dash!Spec => []Dash!BusyHasAWrite
        /\ Saving!Spec => []Saving!BusyHasAWrite
    BY Dash!ControlsReleased, Saving!ControlsReleased
  <1>2. Stats!Ranking!Spec => Stats!Ranking!Implements /\ []Stats!Ranking!NoTimerIsLost
    BY Stats!RankingImplements, PartsAssumption
  <1>3. /\ part = "dashboard" => Dash!BusyHasAWrite
        /\ part = "saving" => Saving!BusyHasAWrite
        /\ part = "idle ranking" => Stats!Ranking!NoTimerIsLost
        => ControlsComeBack
    BY DEF ControlsComeBack
  <1> QED  BY <1>1, <1>2, <1>3, DashPart, SavingPart, RankingPart, PTL

\* Nothing of the demonstration is written to the service, neither a command
\* nor its machines, also when the page was opened with it
\* (README.md:40; app.js:149, 194, 206-231, 270-288).
THEOREM DemoIsHarmless == Spec => DemoWritesNothing
  <1>1. /\ Dash!Spec => [][Dash!DemoIsLocal]_(Dash!vars)
        /\ Saving!Spec => [][Saving!DemoIsLocal]_(Saving!vars)
        /\ Opening!Spec => [][Opening!DemoIsLocal]_(Opening!vars)
    BY Dash!DemoLocal, Saving!DemoLocal, Opening!DemoLocal, PartsAssumption
  <1> DEFINE Harmless == /\ part = "dashboard" => Dash!DemoIsLocal
                         /\ part = "saving" => Saving!DemoIsLocal
                         /\ part = "opening" => Opening!DemoIsLocal
  <1>2. /\ ~(part = "dashboard") \/ [Dash!DemoIsLocal]_(Dash!vars)
        /\ ~(part = "saving") \/ [Saving!DemoIsLocal]_(Saving!vars)
        /\ ~(part = "opening") \/ [Opening!DemoIsLocal]_(Opening!vars)
        /\ [Next]_vars
        => [Harmless]_vars
    <2> SUFFICES ASSUME ~(part = "dashboard") \/ [Dash!DemoIsLocal]_(Dash!vars),
                        ~(part = "saving") \/ [Saving!DemoIsLocal]_(Saving!vars),
                        ~(part = "opening") \/ [Opening!DemoIsLocal]_(Opening!vars),
                        Next, ~UNCHANGED vars
                 PROVE  Harmless
      BY DEF vars
    <2>1. part = "dashboard" => ~UNCHANGED Dash!vars
      BY DEF Next, rest12, rest14, rest16, vars, Dash!vars
    <2>2. part = "saving" => ~UNCHANGED Saving!vars
      BY DEF Next, rest12, rest14, rest16, vars, Saving!vars
    <2>3. part = "opening" => ~UNCHANGED Opening!vars
      BY DEF Next, rest12, rest14, rest16, vars, Opening!vars
    <2> QED  BY <2>1, <2>2, <2>3
  <1> HIDE DEF Harmless
  <1>3. DemoWritesNothing <=> [][Harmless]_vars
    BY DEF DemoWritesNothing, Harmless
  <1> QED  BY <1>1, <1>2, <1>3, DashPart, SavingPart, OpeningPart, PTL DEF Spec

\* The three panels of statistics implement LatestAnswer: beside the choices
\* stands nothing, or an answer to these choices that is no older than they are
\* (metrics.js:60-98, utilization.js:59-78, idle-ranking.js:26-46).
THEOREM PanelsImplement == Spec => Implements
  <1>1. /\ Stats!Metric!Spec => Stats!Metric!Implements /\ []Stats!Metric!CurvesMatch
        /\ Stats!Usage!Spec => Stats!Usage!Implements /\ []Stats!Usage!DayIsCovered
        /\ Stats!Ranking!Spec => Stats!Ranking!Implements /\ []Stats!Ranking!NoTimerIsLost
    BY Stats!MetricsImplement, Stats!UtilizationImplements, Stats!RankingImplements, PartsAssumption
  <1>2. /\ ~(part = "metrics") \/ [Stats!Metric!Panel!Next]_(Stats!Metric!Panel!vars)
        /\ ~(part = "utilization") \/ [Stats!Usage!Panel!Next]_(Stats!Usage!Panel!vars)
        /\ ~(part = "idle ranking") \/ [Stats!Ranking!Panel!Next]_(Stats!Ranking!Panel!vars)
        => [/\ part = "metrics" => [Stats!Metric!Panel!Next]_(Stats!Metric!Panel!vars)
            /\ part = "utilization" => [Stats!Usage!Panel!Next]_(Stats!Usage!Panel!vars)
            /\ part = "idle ranking" => [Stats!Ranking!Panel!Next]_(Stats!Ranking!Panel!vars)]_vars
    OBVIOUS
  <1>3. /\ ~(part = "metrics") \/ Stats!Metric!Panel!Init
        /\ ~(part = "utilization") \/ Stats!Usage!Panel!Init
        /\ ~(part = "idle ranking") \/ Stats!Ranking!Panel!Init
        => /\ part = "metrics" => Stats!Metric!Panel!Init
           /\ part = "utilization" => Stats!Usage!Panel!Init
           /\ part = "idle ranking" => Stats!Ranking!Panel!Init
    OBVIOUS
  <1> QED  BY <1>1, <1>2, <1>3, MetricPart, UsagePart, RankingPart, PTL
             DEF Implements, Stats!Metric!Implements, Stats!Usage!Implements,
                 Stats!Ranking!Implements, Stats!Metric!Panel!Spec, Stats!Usage!Panel!Spec,
                 Stats!Ranking!Panel!Spec

\* What a dialog shows belongs to what is chosen in it, whatever the order of the
\* answers: curves, logs, details of an audit, results of a batch, output of a
\* terminal, the day of a week (metrics.js:90, tasks.js:207, cleanup.js:102,
\* execution.js:17-26, ssh-terminal.js:54, utilization.js:32-43).
THEOREM ShownChosen == Spec => []ShownIsChosen
  <1>1. Stats!Metric!Spec => Stats!Metric!Implements /\ []Stats!Metric!CurvesMatch
    BY Stats!MetricsImplement, PartsAssumption
  <1>2. Task!Spec => []Task!LogsMatchSelection
    BY Task!LogsMatch, PartsAssumption
  <1>3. Panels!Policy!Spec => /\ []Panels!Policy!TypeOK
                              /\ []Panels!Policy!DetailIsSelected
                              /\ []Panels!Policy!SwitchShowsPolicy
    BY Panels!SwitchIsTrue, PartsAssumption
  <1>4. Panels!Term!Spec => []Panels!Term!AcksMatch /\ []Panels!Term!ShowsItsOwn
    BY Panels!AcknowledgedOnce, PartsAssumption
  <1>5. Panels!Exec!Spec => []Panels!Exec!ShownWasChosen
    BY Panels!DrawnWasChosen, PartsAssumption
  <1>6. Stats!Usage!Spec => Stats!Usage!Implements /\ []Stats!Usage!DayIsCovered
    BY Stats!UtilizationImplements, PartsAssumption
  <1>7. /\ part = "metrics" => Stats!Metric!CurvesMatch
        /\ part = "tasks" => Task!LogsMatchSelection
        /\ part = "cleanup panel" => Panels!Policy!DetailIsSelected
        /\ part = "terminal" => Panels!Term!ShowsItsOwn
        /\ part = "execution" => Panels!Exec!ShownWasChosen
        /\ part = "utilization" => Stats!Usage!DayIsCovered
        => ShownIsChosen
    BY DEF ShownIsChosen
  <1> QED  BY <1>1, <1>2, <1>3, <1>4, <1>5, <1>6, <1>7,
             MetricPart, TaskPart, PolicyPart, TermPart, ExecPart, UsagePart, PTL

\* What the time axis and the lanes say is true of the history they show
\* (task-timeline.js:12-37, 51-77; task-timeline.test.cjs:36-37).
THEOREM BoardTrue == Spec => []BoardIsTrue
  <1>1. Task!Axis!Spec => /\ []Task!Axis!TypeOK /\ []Task!Axis!ViewInside
                          /\ []Task!Axis!FitShowsEverything /\ []Task!Axis!ZoomKeepsTime
    BY Task!BoardShowsTime, PartsAssumption
  <1>2. Task!Lanes!Spec => []Task!Lanes!TypeOK /\ []Task!Lanes!HistoryStaysOnHost
    BY Task!LanesAreHosts, PartsAssumption
  <1>a. Task!Lanes!Spec => []Task!Lanes!AliasesTogether
    BY Task!AliasesShareALane, PartsAssumption
  <1>3. /\ part = "timeline" => /\ Task!Axis!ViewInside /\ Task!Axis!FitShowsEverything
                                /\ Task!Axis!ZoomKeepsTime
        /\ part = "lanes" => Task!Lanes!HistoryStaysOnHost /\ Task!Lanes!AliasesTogether
        => BoardIsTrue
    BY DEF BoardIsTrue
  <1> QED  BY <1>1, <1>2, <1>a, <1>3, AxisPart, LanesPart, PTL

-----------------------------------------------------------------------------
\* Every variable of every part keeps its kind.
THEOREM PartsTyped == Spec => []TypeOK
  <1>1. /\ Dash!Spec => []Dash!TypeOK
        /\ Saving!Spec => []Saving!TypeOK
        /\ Opening!Spec => []Opening!TypeOK
    BY Dash!DashTypes, Saving!DashTypes, Opening!DashTypes, PartsAssumption
  <1>2. Panels!Pager!Spec => []Panels!Pager!TypeOK /\ []Panels!Pager!PageExists
    BY Panels!PagesExist, PartsAssumption
  <1>3. Task!Spec => []Task!TypeOK
    BY Task!TaskPageTypes, PartsAssumption
  <1>4. Task!Axis!Spec => /\ []Task!Axis!TypeOK /\ []Task!Axis!ViewInside
                          /\ []Task!Axis!FitShowsEverything /\ []Task!Axis!ZoomKeepsTime
    BY Task!BoardShowsTime, PartsAssumption
  <1>5. Task!Lanes!Spec => []Task!Lanes!TypeOK /\ []Task!Lanes!HistoryStaysOnHost
    BY Task!LanesAreHosts, PartsAssumption
  <1>6. /\ Stats!Metric!Spec => []Stats!Metric!TypeOK
        /\ Stats!Usage!Spec => []Stats!Usage!TypeOK
        /\ Stats!Ranking!Spec => []Stats!Ranking!TypeOK
    BY Stats!MetricTypes, Stats!UsageTypes, Stats!RankingTypes, PartsAssumption
  <1>7. Panels!Exec!Spec => []Panels!Exec!TypeOK
    BY Panels!ExecutionTypes, PartsAssumption
  <1>8. Panels!Policy!Spec => /\ []Panels!Policy!TypeOK
                              /\ []Panels!Policy!DetailIsSelected
                              /\ []Panels!Policy!SwitchShowsPolicy
    BY Panels!SwitchIsTrue, PartsAssumption
  <1>9. Panels!Waits!Spec => []Panels!Waits!TypeOK
    BY Panels!ListTypes, PartsAssumption
  <1>10. Panels!Term!Spec => []Panels!Term!TypeOK
    BY Panels!SessionsBounded, PartsAssumption
  <1>11. /\ Clean!Spec => []Clean!TypeOK
         /\ Renamed!Spec => []Renamed!TypeOK
    BY Clean!CleanupTypes, Renamed!CleanupTypes, PartsAssumption
  <1> DEFINE Desk == /\ part = "dashboard" => Dash!TypeOK
                     /\ part = "saving" => Saving!TypeOK
                     /\ part = "opening" => Opening!TypeOK
                     /\ part = "paging" => Panels!Pager!TypeOK
  <1> DEFINE Work == /\ part = "tasks" => Task!TypeOK
                     /\ part = "timeline" => Task!Axis!TypeOK
                     /\ part = "lanes" => Task!Lanes!TypeOK
  <1> DEFINE Charts == /\ part = "metrics" => Stats!Metric!TypeOK
                       /\ part = "utilization" => Stats!Usage!TypeOK
                       /\ part = "idle ranking" => Stats!Ranking!TypeOK
  <1> DEFINE Dialogs == /\ part = "execution" => Panels!Exec!TypeOK
                        /\ part = "cleanup panel" => Panels!Policy!TypeOK
                        /\ part = "continuation panel" => Panels!Waits!TypeOK
                        /\ part = "terminal" => Panels!Term!TypeOK
  <1> DEFINE Killers == /\ part = "cleanup" => Clean!TypeOK
                        /\ part = "renamed" => Renamed!TypeOK
  <1>a. Spec => []Desk
    BY <1>1, <1>2, DashPart, SavingPart, OpeningPart, PagerPart, PTL
  <1>b. Spec => []Work
    BY <1>3, <1>4, <1>5, TaskPart, AxisPart, LanesPart, PTL
  <1>c. Spec => []Charts
    BY <1>6, MetricPart, UsagePart, RankingPart, PTL
  <1>d. Spec => []Dialogs
    BY <1>7, <1>8, <1>9, <1>10, ExecPart, PolicyPart, WaitsPart, TermPart, PTL
  <1>e. Spec => []Killers
    BY <1>11, CleanPart, RenamedPart, PTL
  <1>12. Desk /\ Work /\ Charts /\ Dialogs /\ Killers => TypeOK
    BY DEF TypeOK
  <1> HIDE DEF Desk, Work, Charts, Dialogs, Killers
  <1> QED  BY <1>12, <1>a, <1>b, <1>c, <1>d, <1>e, PTL

=============
