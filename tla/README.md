# simpleHtmlWatch: a verification of its task controller, its cleanup and its pages

simpleHtmlWatch is a local service that watches machines over SSH and, as a
"task controller" (任务中台), hands machines to AI threads and scripts: it accepts
tasks, picks a machine, launches the command over SSH exactly once, polls it,
and lets clients reserve machines or register experiments that wait for them. It
may also ask an idle process on such a machine to end. Its promises are about
*other people's machines*: no two commands on one physical machine, no command
launched twice, no machine given away while something may still run on it, no
process signalled twice or while it works. In front of the service stand browser
pages that send these requests and show what became of them: a click must have
its effect once, a doubt must stay visible, and what is shown must be what was
asked for. All of this has to hold over crashes, lost replies, late answers and
edits of the machine list. That is what the modules here state, check and prove.

`watch/` stands for `src/internal/watch/`, and a bare `*.js` is in `src/web/`;
other paths are relative to the repository.

## 1. Inventory

| Component | State | Operations | Talks to |
| --- | --- | --- | --- |
| Resource identity (`watch/resource_identity.go`) | none | `resourcesConflict`, `conflictsWithAny` | everyone who asks whether a machine is free |
| Reservations (`watch/reservations.go`) | `reservations.json` and its map | `Reserve`, `ReleaseReservation` | task manager (mutex, occupancy) |
| Group reservations (`watch/group_reservations.go`) | the same store: members, task ID, grant, launch intent | `ReserveGroup`, submit checks, `reservationIntentLocked` | reservations, `Submit` |
| Experiment continuations (`watch/continuations.go`) | `continuations.json` and its map: state, generation, grant, allocations, intents, wake event | register, claim, report, control (set-mode, pause, cancel, resume), load | scheduler, `Submit`, AI threads |
| Scheduler and wake delivery (`watch/continuation_scheduler.go`) | the same store | `CheckContinuations` every second, `EvaluateContinuation`, `DeliveryContinuation` | tasks, reservations, bridges |
| Task manager (`watch/tasks.go`) | one `job.json` per task and the map in memory; a `follow` goroutine per unfinished task | `Submit`, `follow`, `probe`, `observe`, `complete`, `Abandon`, `newTaskManager` | SSH, everything above |
| Remote scripts (`watch/tasks_ssh.go`) | the task directory on the machine, runner and command processes | `Launch`, `Probe`, `Logs`, archive stream | task manager |
| Task and continuation API (`watch/tasks_api.go`, `continuations_api.go`) | none | dispatch of requests | clients, the browser, bridges |
| Cleanup (`watch/cleanup.go`, `cleanup_ssh.go`, `cleanup_remote.py`) | policy, audits, one intent per signal, a receipt on the machine | `SetCleanupPolicy`, `CheckCleanup`, `loadCleanup`, the script's inspect and terminate | tasks, monitor, SSH |
| Task retention (`watch/task_retention.go`) | index of compacted tasks | `compactCompletedLocked`, `loadCompleted` | task records |
| Storage budget (`watch/storage.go`) | charges and reserves per file, an advisory target | `Write`, `Forget` | every save of a task or continuation |
| Wake bridge and client (`src/skills/cluster-task-controller/scripts/`) | outbox polling, one app-server connection | delivery loop, query of uncertain events | `DeliveryContinuation`, AI threads |
| Configuration store (`watch/config.go`) | encrypted configuration file | `Save`, `Snapshot` | everyone |
| Monitor (`watch/monitor.go`) | the latest sample of each machine, a worker per machine | `Replace`, `put`, `Snapshot` | readiness |
| Service lease (`watch/service.go`, `lock_*.go`) | lock file, discovery file | `AcquireService`, `Publish`, `Close` | processes of one data directory |
| One-off execution (`watch/execution.go`) | batches of commands and the identifiers seen, in memory | start, list, get | SSH, the execution dialog |
| SSH terminal (`watch/terminal.go`) | four slots, one output window per session | accept, output and acknowledgement, input, end | the terminal dialog, SSH |
| Backup (`watch/backup_*.go`) | archives, maintenance marker | create, verify, restore | the data directory |
| Trust store and SSH authentication, utilization, occupancy, idle ranking, Netdata, log retention, HTTP server | see `PROJECT.json` | | |
| Monitoring page (`app.js`) | configuration, sampled states, demonstration, pause, editor of commands, settings draft | poll chain, save of a command, save of the settings, enter and leave the demonstration | configuration store, monitor |
| Page rotation (`page-rotation.js`, `app.js`) | page, deadline, what blocks it | tick, render, filter, turn | the monitoring page |
| Task page (`tasks.js`), timeline and lanes (`task-timeline.js`) | list, filter, selection, pending submission, logs; view of the axis; groups | submit, retry, query, refresh, actions; zoom, pan, fit; grouping | task API |
| Metrics, utilization and idle ranking panels (`metrics.js`, `utilization.js`, `idle-ranking.js`) | choices, a generation or controller, a snapshot, timers | open, choose, load, close | statistics API, configuration |
| Execution dialog (`execution.js`) | reviewed batch, chosen batch, poll | review, submit, retry, choose, poll, reload | one-off execution |
| Cleanup panel (`cleanup.js`), continuation panel (`continuations.js`) | switch and details; list and message | change the policy, load an audit, control, refresh | cleanup, continuations |
| Terminal dialog (`ssh-terminal.js`) | generation, socket, terminal | open, choose, connect, type, disconnect | SSH terminal |

What is hard here:

* **One mutex, many goroutines.** Every handler of `TaskManager` runs under one
  mutex, but `Submit` reads the configuration *before* taking it
  (`watch/tasks.go:390`), `probe` talks to the machine without it and applies
  the answer later (`:605`), and two probes of one task may be in flight.
* **Memory first, disk second.** Task records change in memory and are written
  afterwards, and the write may fail (`update`, `complete`). The reservation and
  continuation stores do it the other way round.
* **Three writes in one submission**: launch intent, directory, record
  (`:438-447`), with a crash possible between any two.
* **At-most-once launch** without a reply: after a crash or an SSH error the
  service cannot know whether the command started, and may only ask.
* **Four kinds of holders of a machine** (tasks, single and group
  reservations, experiments) over entries that may alias each other through a
  host, a resource ID or a forwarded port, and that may be edited meanwhile.
* **Generations, grants and wake events** fence late requests of AI threads and
  bridges; deadlines of offers, authorizations and receipts race them.
* **A signal that cannot be taken back**: the inspection of a process runs
  without the mutex, the evidence ages meanwhile, and after a lost answer
  nobody may ask again (`watch/cleanup.go:437`, `:568`).
* **Every `await` of a page** is a point where anything may happen: another
  choice, a closed dialog, the demonstration, a later answer that arrives first.
  The code keeps the past out in several ways: generation counters, epochs,
  aborted requests, a "busy" flag, an identifier that is compared, and in some
  places nothing.

What makes each component correct:

* resource identity: two commands never share a physical machine;
* reservations: a grant is never released from under a live task; a group is all
  or nothing; a launch intent is never forgotten;
* continuations: what is claimed stays held until every task is known to have
  ended or none was launched; an uncertain delivery is not overtaken; a stop is
  honoured; offers end; finished tasks are reviewed;
* tasks: one launch; a durable record for everything that may run; outcomes are
  the machine's own and final; whatever was written can be loaded;
* cleanup: one request per identity, only after the whole quiet time, never on a
  machine somebody holds, and an end that is verified;
* pages: an effect happens once; a doubt is kept; what is shown was chosen and
  does not go back; nothing stays locked; a page left alone catches up;
* terminal: input reaches the machine that was selected, output is acknowledged
  to the session it came from, slots come back.

`PROJECT.json` lists the hazards line by line, with the properties that cover
each.

## 2. The modules

```
ResourceIdentity        when two allocations are one machine
  TaskState             variables, types, occupancy, the remote machines
    Reservations        Reserve, ReserveGroup, ReleaseReservation
    Continuations       register, offer, claim, report, control, delivery
      TaskManager       Submit, follow, probe, Abandon, crash, restart
        TaskController  Next, fairness, every property, the inductive invariant
          MCTaskController        instances for TLC
          TaskControllerProofs    theorems and proofs: exclusion
            StoreProofs           what files, memory and experiments know of each other

LatestAnswer            what a panel that asks the service promises
  MetricsPanel  UtilizationPanel  IdleRanking     implement it
FreshNames              a name that was not in use
Dashboard  Paging  TaskPage  TaskTimeline  TaskGroups  ExecutionPanel
CleanupPanel  ContinuationPanel  Terminal         pages with the service behind them
Cleanup                 the cleanup of idle processes
CleanupProofs  DashboardProofs                    each extends its part
TaskPageProofs          extends TaskPage, with instances of TaskTimeline and TaskGroups
StatisticsProofs        instances of MetricsPanel, UtilizationPanel and IdleRanking
PanelProofs             instances of ExecutionPanel, ContinuationPanel, CleanupPanel,
                        Paging and Terminal
                        ... and the proofs about all of these
  MCParts               one instance of each part, through its module of proofs, and
                        the properties
    MCPartsLive         fairness and liveness
    PartsProofs         the properties of MCParts, from the proofs of the parts
```

Each definition names its source lines in the "map" of `PROJECT.json`.

### The task controller

**State.** `jobs` is the map in memory and `disk` the `job.json` files (`NoDir`
before the directory exists, `EmptyDir` when it has no record). `reservations`
and `continuations` are one variable each, because those stores are replaced by
an atomic write before the memory changes; a failed write changes neither, so
the step just does not happen. `seen[t]` is the configuration snapshot of a
waiting `Submit` of `t`; `pc[t]` is how far `follow(t, launch)` has got;
`probes[t]` holds answers read from the machine and not applied yet. `wire` and
`remote` are the world: launch requests that may still arrive and the state of
the task directory and processes. `launches` and `settled` are history: how often
`Launch` was called, and which tasks' ends the service has recorded.

**Actions.** A handler under the mutex is one action with the handler's checks
as guards. Handlers that let go of the mutex or were started before it are split
where the code is: `SubmitReads` / `Submit`, `ProbeReads` / `ProbeApplies`,
`Launch` / `LaunchReturns`. `Submit` contains the three writes and both ways of
failing between them ("save": a write fails, "torn": the service stops). `Restart`
is `newTaskManager`, with everything it refuses to load as its guard (`Loads`),
so a store that cannot be loaded shows up as a service that stays down.

**Abstractions**, and why they are harmless:

* Time is a step of the environment: a deadline is in the future or past
  (`OfferDeadlinePasses`, `AuthorizationEnds`, `ReceiptOverdue`). Retry delays,
  the stability period, check intervals and the low-peak window only postpone
  or refuse a step, so the model allows it at any time. The liveness properties
  need none of the postponed steps.
* The monitor's sample, the scope of a continuation (groups, device model and
  memory) and the cleanup of a machine only remove machines from the choice; here the
  model lets a step choose any machine that is not occupied. Safety over all
  choices covers the actual one.
* The order in which a tick of `CheckContinuations` treats continuations is
  arbitrary (the code takes the oldest first); the tick is one step per
  continuation. The whole tick is saved at once, so a crash inside a tick is a
  crash before all of its steps, and also a state the model reaches.
* Grant IDs and wake IDs are random in the code. A grant is made with a new
  generation and is named by it; one generation makes at most one wake event of
  each kind, so a wake is named by generation and kind. Requests range over all
  old generations and kinds, so stale ones are included.
* The credential profile and user name of a machine belong to its address: a
  change of either refuses the same steps as a change of the host (`profile`,
  `continuationMachine`), and the model changes the host.
* Commands, request hashes, log text, archives and the event lists of tasks are
  left out: a task ID has one request (a second request with another hash is
  refused and changes nothing).
* Compaction of finished records keeps ID, request hash and status, so a
  compacted record is the record here.
* The exit code file means that the command ended (`tasks_ssh.go`: the runner
  writes it after `wait`). An orphan (runner dead, command alive) is modelled.
* `Abandon` requires the operator's statement `confirm=remote-stopped`; the
  model takes the operator to be truthful (`~Active(t)`), which
  docs/task-controller.md demands. Without this assumption exclusion is the
  operator's to break.
* Records and reservations written by versions before resource keys existed are
  not modelled; neither is a legacy record's fallback to the current entry
  (an unfinished task *also* holds what its entry says now, and that is modelled).

### The pages

A page is one thread. A handler runs up to its next `await`; the rest of it is
another action, enabled when its answer has arrived. What is between the two is a
request in flight (`net`, `post`, `reads`, ...): it is sent, carried out by the
service (or lost before), and its answer is used (or lost, or late). A module
of a page contains the service's handler as far as the page depends on it, so
"carried out once" is a statement about the service's state, not about the page.

| Module | Page's state | The service's side |
| --- | --- | --- |
| `Dashboard` | `config`, `states`, `demo`, `paused`, `busy`, `draft`, `edits`, `customID`, the poll chain `timer`, and what the last `render()` left (`rendered`: the empty page, the locked editor) | stored configuration with a version per save, another window |
| `Paging` | `page`, `pageCount`, `paginationKey`, seconds `left`, `blockers` | lists of machines |
| `TaskPage` | `filter`, `selected`, `pending`, `logs`, `busy`, requests | `tasks`: submitted, resolved, progressing |
| `TaskTimeline`, `TaskGroups` | `view`, `drawn`; `groups`, `lanes` | tasks, lists of machines |
| `MetricsPanel`, `UtilizationPanel`, `IdleRanking` | choices, generation, request, `snapshot`, `since`, timers | a version of the data that grows |
| `ExecutionPanel` | `prepared`, `submitting`, `jobID`, `drawn`, the list `select`, queries, poll; observed: `wanted`, `unanswered` | `seen`, `order`, `active`, and the run of the program whose `token` the page holds |
| `CleanupPanel` | `status`, `available`, `selected`, `audit`, `sequence` | policy, audits, writes that outlive the page's patience |
| `ContinuationPanel` | `busy`, `capable`, `message`, `shown` | version of the list, controls carried out |
| `Terminal` | `open`, `machine`, `terminal`, `socket`, `checking` | per connection: stage, output window, queues in both directions |

Counters that are only compared for equality (generations, epochs, sequences) are
names: the next one is any name that nothing in flight carries. In `ExecutionPanel`
a generation is told by how many began after it, so the latest is always 0
(`jobQuery`). `since` is history: the version of the data when the present choices
were made. So are `wanted`, the batch the reader chose in the list or submitted
last, which no line of the code keeps (`jobID` is also set by every drawing,
`execution.js:16`), and `unanswered`, the batches with results whose submission
got no answer. Texts, layout and drawing are left out, except where a button is
there or not because of what was drawn last (`rendered`); so is everything a
choice of the environment covers (which machine is listed first, how long an
answer takes).

`LatestAnswer` is the abstract specification of a statistics panel: beside the
choices stands nothing, or an answer to exactly these choices that is no older
than they are. The three panels implement it with three different mechanisms (a
generation counter, an aborted controller with a check of the dialog, both), and
each is shown to by a refinement mapping (`Panel == INSTANCE LatestAnswer WITH`).

### The cleanup

`Cleanup` is one machine whose device lists one PID, behind which processes come
and go. `check` is where `CheckCleanup` stands: it chooses under the mutex
(`Select`, `Follow`), inspects without it (`Inspect`, `InspectFails`), decides
under it (`Decide`, with all its early returns) and asks with the mutex held
(`Intend`, `Answered`, `NoAnswer`). `disk` are the audit files, `receipts` the files
the script leaves on the machine, `hand` the process the script holds a pidfd of,
`orders` the requests that may still arrive. `Allocate` is the task controller's
rule that leaves out a machine under cleanup, and `Configure` the settings that
give the machine another physical resource in the middle of a check. The evidence
(logs and CPU time) is a `mark` that only grows; `quiet` is history, the time since
it grew last. Time passes in steps of the check interval, and a record keeps ages.

## 3. What the runs check

The runs of the task controller use `MCTaskController`, the runs of the pages and
of the cleanup `MCParts` and `MCPartsLive`, each with its own `.cfg`. Deadlock is
checked unless noted.

| Run | Instance | Question |
| --- | --- | --- |
| `tasks` | 2 tasks, 2 entries that are ports of one host, one moves away and back; crash, failed saves; 2.3 million states | Do two commands ever share a host (`RunningExclusive`), is one launched twice (`NeverRelaunched`), lost (`RunningIsRecorded`), its outcome invented (`OutcomeFaithful`) or revised (`OutcomesAreFinal`)? |
| `reservations` | 1 reservation, 2 tasks, 2 hosts; crash, torn submissions | Is a grant ever released from under a live task (`LiveTaskKeepsItsGrant`)? |
| `groups` | 2 reservations, 1 task, 3 entries of which two alias; crash, failed saves | Is a holder ever doubled (`HoldersExclusive`), and does every store load (`StoreAlwaysLoads`)? |
| `continuation` | 1 experiment, 2 generations, 1 bridge, a machine that is disabled and enabled; crash, failed saves | Types including the attempt limit (`TypeOK`), grants, stops (`StopsAreHonoured`), loading, and no generation over an uncertain delivery (`GenerationsAfterReceipt`) |
| `mixed` | reservation, experiment, 2 tasks, 1 machine; crash | The inductive invariant `Inductive` (exclusion, outcomes, grants and the contents of the files among its conjuncts) where every kind of holder competes |
| `bundle` | 1 experiment of 2 tasks, 3 forwarded entries of which two are one node | Bundles never alias, and a grant is given back only when no task was launched or all have ended (`GrantsHeldUntilQuiet`) |
| `progress` | 1 experiment, 1 task, 1 bridge, under `FairSpec` | `OffersEnd`, `FinishedTasksAreReviewed`, `DispatchEnds`, `SendingEnds` |
| `parts` | the 16 instances below; 2.5 million states | the safety of the pages, the terminal and the cleanup |
| `parts_live` | 8 of them, smaller, under `FairSpec` | their liveness |
| `torn`, `group_intent`, `one_task` | see section 5 | Statements of the documentation the code does not keep |

`reservations` and `torn` do not check deadlock: a torn submission without a
group intent leaves a directory the next start refuses (section 5), and the
service then really stops.

`bundle` uses symmetry: the two planned tasks of one experiment are
interchangeable. It checks safety only.

**Bounds.** Exclusion is about pairs of holders and pairs of entries, so two
tasks, two reservations or two experiments and two or three entries show every
pair; the three kinds of aliasing (same host, same resource ID, two ports of a
loopback host) occur in `tasks`/`groups`, `bundle` and `groups`. `MaxGeneration`
caps offers and mode changes: 2 is enough for a stale generation next to a
current one; with 1 a second offer is cut off, which the `progress` run does not
depend on. `MaxProbes` caps the answers of *one task* that differ and wait to be
applied at the same time: with 1, a stale answer can still be overtaken by
`Abandon`. Attempts run to the real limit of 3. At most one `Submit` per task ID
waits for the mutex (`seen`); a second one with the same ID finds the record.
`Faults` names the failures a run includes.

**Fairness** (`Fairness`): the goroutines of the service run (`follow` has no
exit but the end of its task; the ticker calls `CheckContinuations` every
second), an SSH call returns (each has a timeout), a request arrives or is lost,
and deadlines pass. Nothing is assumed of clients, AI threads, bridges,
operators or commands. `progress` has no crashes: with endless crashes nothing
would follow from fairness.

### `parts` and `parts_live`

The pages share no variables: dialogs are modal, and what a part needs of the
service is in its own module. A behaviour of `MCParts` is therefore a behaviour of
*one* part, named by `part`, whose variables are kept in the slots `v1`, `v2`, ...;
nothing is lost by this sum, and one run checks the parts next to each other.
Fairness for a disjunction of actions of different parts is fairness for each of
them, because a behaviour never leaves its part.

| Property | Parts | What it says |
| --- | --- | --- |
| `ShownIsChosen` | metrics, tasks, cleanup panel, terminal, execution, utilization | curves, logs, details, output and days belong to what is chosen, whatever the order of the answers; of batches: once no request is left, the list stands on the batch the reader chose or submitted last, and the results are those of the batch the list stands on |
| `Implements` | metrics, utilization, idle ranking | refinement of `LatestAnswer` |
| `EffectsAreOnce` | tasks, execution, cleanup panel, continuation panel | a submission, a batch, a click, a control is carried out once at most, over retries, restarts and reloads |
| `DoubtIsKept` | tasks, execution, continuation panel | while it is open whether a request was carried out, its identifier or a message stays; a batch that ran without an answer is still prepared or on the list read last, after reopening and reloading too |
| `ControlsComeBack` | dashboard, saving, idle ranking | locked controls have a save that releases them; a running timer is one its dialog knows |
| `ViewsExist` | paging, dashboard, saving, opening | the page drawn and the command edited exist |
| `DemoWritesNothing` | dashboard, saving, opening | no save of a command begins in the demonstration, and its made-up configuration is never sent |
| `DwellIsWhole` | paging | a page turns by itself only after a whole undisturbed interval |
| `NothingGoesBack` | tasks, continuation panel, cleanup panel | lists and the switch do not return to an earlier state |
| `InputReachesSelected`, `AcksMatch` | terminal | typed input reaches the selected machine; no session ends by a wrong acknowledgement |
| `BoardIsTrue` | timeline, lanes | the view stays inside the time there is, fit shows every event, zoom keeps the time under the mouse, history stays on its host, aliases share a lane |
| `OnlyRequest` | cleanup, renamed | one request to terminate per identity, and a signalled process is on record |
| `HeldMachinesSpared` | cleanup, renamed | no task has the machine while the request is out |
| `HeldAfterQuiet` | cleanup, renamed | a process is taken hold of only after the whole quiet time |
| `PagesCatchUp` | dashboard, opening, tasks, metrics, continuation panel | a page that is left alone shows the present again |
| `EveryMachineComesRound` | paging | the rotation shows every machine again and again |
| `SlotsComeBack` | terminal | slots are given back when the dialog stays closed |
| `EndIsVerified` | cleanup | the end of a process that was asked to end is found, over policy changes and restarts |

`dashboard`, `saving` and `opening` are three instances of `Dashboard` (two
commands with another window; overlapping saves that fail; the page opened with
`?demo=1` with every request lossy); `cleanup` and `renamed` are two of `Cleanup`
(two processes behind one PID; a resource that is renamed during a check).

**Bounds of the parts.** Two of everything that can be confused (commands, tasks,
machines, audits, batches, generations) show a confusion. `MaxSaves` is one save
between polls (two in `saving`). `Slots = {1}` is one submission in flight, and
`Impatient = FALSE` leaves out a reader who asks or retries while the first
submission is unanswered (section 5). `Filters` leaves out "unknown". `MaxSwitches`
is one click on the cleanup switch, which already overlaps its own late write;
there are two on a control. `MaxOld` is two earlier connections with work left.
`MaxTyped` and `MaxBuffered` are one typed message and two queued ones. `MaxMarks` is one progress
of a process; with `Minimum` 1 and `MaxGap` 1 the ages reach both sides of both
limits. The instance `dashboard` starts with machines configured; `saving` and
`opening` start with either, since the empty page has a button for the settings
of its own. Two saves of commands may overlap (`Customs`). The dialogs that
load the configuration again are opened in `dashboard` and `opening` but not in
`saving` (`Dialogs`). In the execution instance two batches are kept (`Keep`), so
that there is another one to choose, of two that can be drawn: eviction is not
reached there, and the theorems cover every `Keep`. One reading of the list may be
overtaken (`MaxOvertaken`); submissions, polls and the configuration may be lost,
the list is not, because the statements about it are about a list that was read:
an error is shown instead when it was not. The cleanup panel starts with the
policy off.

**Fairness of the parts** (`Timers`, `Handlers`, `Retries`). Timers fire
(`setInterval`, the poll chain's `setTimeout`, the scheduler's ticker), handlers
whose answer has arrived run, the peer of a socket closes it. A request the page
makes again and again gets through again and again (strong fairness); one lost
request may stay lost. Readers, operators, processes and settings owe nothing,
and `<>[]` premises say how long the page must be left alone.

Every property of a passing run is accompanied by a mutant of the code that
breaks it; the mutated forms stand before the definitions they replace ("A form
of ...").

## 4. What is proved

### The task controller

`TaskControllerProofs` proves, for all values of the constants that satisfy
`HostAssumption`, `IdAssumption` and `InputAssumption` (any number of machines,
tasks, reservations, experiments and generations, any edits, all failures):

| Theorem | States |
| --- | --- |
| `Invariance` | `Spec => []IInv` |
| `TypeCorrect` | `Spec => []TypeOK` |
| `Exclusion` | `Spec => []HoldersExclusive` |
| `RunningApart` | `Spec => []RunningExclusive` |
| `RunningRecorded` | `Spec => []RunningIsRecorded` |
| `LaunchedOnce` | `Spec => []NeverRelaunched` |
| `GrantsVouch` | `Spec => []LiveTaskKeepsItsGrant` |

`StoreProofs` goes on from there:

| Theorem | States |
| --- | --- |
| `InductiveHolds` | `Spec => []Inductive` |
| `OutcomesFaithful` | `Spec => []OutcomeFaithful` |
| `OutcomesFinal` | `Spec => OutcomesAreFinal` (an action property) |
| `StopsHonoured` | `Spec => []StopsAreHonoured` |
| `GenerationsAfterReceipts` | `Spec => GenerationsAfterReceipt` (an action property) |
| `GrantsHeld` | `Spec => GrantsHeldUntilQuiet` (an action property) |
| `ContentsLoad` | `Spec => [](RecordsLoad /\ AllContinuationsLoad)` |
| `StoreLoads` | `Spec => []StoreAlwaysLoads`, if `"torn" \notin Faults` |

`StoreLoads` leaves out a stop of the service inside `Submit`, and has to: with
one the statement is false, which is the finding `torn` (section 5).
`ContentsLoad` says what holds in any case: only the directory without a record is
in the way, never what a record or an experiment says.

The argument for exclusion is one inductive invariant, `IInv`:

* `HoldersExclusive` is about `disk` and `settled`, not about memory: a
  restart forgets the memory, and a failed write makes it differ from the disk.
  `MemoryMatches` ties the two: the same records, the same allocations, so what
  `Free` computes from memory covers what `disk` holds.
* `Live(t)` (durable and never settled) rather than "unfinished" is what is
  preserved, because `complete` may fail to write: the record is unfinished on
  disk again after a restart although the command has ended. This is exactly the
  gap of run `one_task`; exclusion holds in spite of it.
* A task shares its machine with the reservation or experiment it was submitted
  under. `GrantsKept` says that this owner still holds the machine under the same
  grant, so a third holder that is apart from the owner is apart from the task.
* `LaunchesOnce` links the launch, the wire, the remote directory, the answers
  in flight and `settled`: an exit code in flight is the machine's own, so what
  is settled has really ended.
* `AttemptsLeft` bounds the delivery attempts, which `TypeOK` needs.

For every group of conjuncts there is a lemma per action that can disturb it, and
the symmetry of `resourcesConflict` and the effect of a step on what is held are
lemmas of their own.

The second invariant, `StoreInv`, is inductive only together with `IInv`; the two
are `Inductive`, which `mixed` checks with TLC.

* `OutcomesKnown` says more than `OutcomeFaithful`: which status goes with which
  exit code, in memory and on disk. A late answer is harmless because `LaunchesOnce`
  already says that an exit code in flight is the machine's own.
* `ContinuationsOrderly` says what a continuation is made of in every state: the
  whole bundle, of machines that are apart, under the grant of its generation, or
  nothing; and that a launch intent keeps it from being offered again. Offers, claims,
  reports and controls are treated once, as moves (`MayBecome`, `TaskMoves`,
  `ReservationsMove`): every action is shown to be one of a few moves, and every property,
  the two about steps included, follows from the moves.
* `RecordLoads` relates a record to its reservation and its continuation, which
  change in different files: a reservation can go only when the record that names
  it is finished, and a record is written under a launch intent that stays.

### The cleanup and the pages

Each from the assumption its module states about its constants, for any number of
processes, names, groups, batches, tasks, clicks and generations:

| Module | Theorem | States |
| --- | --- | --- |
| `CleanupProofs` | `CleanupTypes` | `Spec => []TypeOK` |
| | `AskedOnce` | `Spec => []OnlyRequest /\ []SignalsAreOnRecord` |
| | `MachineSpared` | `Spec => []HeldMachinesSpared` |
| | `HeldOnlyAfterQuiet` | `Spec => HeldAfterQuiet` (an action property) |
| `StatisticsProofs` | `MetricsImplement` | `Implements` (the refinement of `LatestAnswer`), `[]CurvesMatch` |
| | `UtilizationImplements` | `Implements`, `[]DayIsCovered` |
| | `RankingImplements` | `Implements`, `[]NoTimerIsLost` |
| `DashboardProofs` | `EditorTrue`, `ControlsReleased` | `[]EditorShowsAChoice`; `[]BusyHasAWrite` |
| | `DemoLocal` | `[][DemoIsLocal]_vars`, also for a page opened with `?demo=1` |
| `TaskPageProofs` | `TaskPageTypes` | `Spec => []TypeOK` |
| | `SubmittedOnce` | `Spec => []NoDuplicateWork` |
| | `SubmissionsKept` | `Spec => []PendingKept`, if `~Impatient` |
| | `ListsGoOn` | `Spec => [][GoesOn]_vars` |
| | `LogsMatch` | `Spec => []LogsMatchSelection` |
| time axis | `BoardShowsTime` | `[]TypeOK`, `[]ViewInside`, `[]FitShowsEverything`, `[]ZoomKeepsTime` |
| lanes | `LanesAreHosts` | `[]TypeOK`, `[]HistoryStaysOnHost` |
| | `AliasesShareALane` | `[]AliasesTogether`, if `OneResourcePerHost` |
| `PanelProofs`, execution | `ExecutedOnce`, `SubmissionStays` | `[]OnceOnly`; `[](SubmissionKept /\ LostIsFound)` |
| | `DrawnWasChosen` | `[]ShownWasChosen` |
| experiments | `ControlsAreSafe` | one effect per click, the doubt kept, the list never older than a confirmed control |
| cleanup panel | `WrittenOnce` | `[]WritesAreClicks` |
| | `SwitchIsTrue` | `[]TypeOK`, `[]DetailIsSelected`, `[]SwitchShowsPolicy` |
| rotation | `TurnedAfterDwell` | `[][TurnsAfterDwell]_vars` |
| | `PagesExist` | `[]TypeOK`, `[]PageExists` |
| terminal | `TypedForSelected` | `[]InputReachesSelected`, `[]OneSocket` |
| | `AcknowledgedOnce` | `[]AcksMatch`, `[]ShowsItsOwn` |
| | `SessionsBounded` | `[]TypeOK`, the number of sessions included |

`PartsProofs` carries these over to `MCParts`, where the run `parts` checks them:

| Theorem | States | From |
| --- | --- | --- |
| `DoneOnce` | `Spec => []EffectsAreOnce` | `SubmittedOnce`, `ExecutedOnce`, `WrittenOnce`, `ControlsAreSafe` |
| `DoubtKept` | `Spec => []DoubtIsKept` | `SubmissionsKept`, `SubmissionStays`, `ControlsAreSafe` |
| `GoesForward` | `Spec => NothingGoesBack` | `ListsGoOn`, `ControlsAreSafe`, `SwitchIsTrue` |
| `DwellWhole` | `Spec => DwellIsWhole` | `TurnedAfterDwell` |
| `ShownChosen` | `Spec => []ShownIsChosen` | `MetricsImplement`, `UtilizationImplements`, `LogsMatch`, `SwitchIsTrue`, `AcknowledgedOnce`, `DrawnWasChosen` |
| `PanelsImplement` | `Spec => Implements` | the three theorems of `StatisticsProofs` |
| `ViewsAreReal` | `Spec => []ViewsExist` | `PagesExist`, `EditorTrue` |
| `NothingStaysLocked` | `Spec => []ControlsComeBack` | `ControlsReleased`, `RankingImplements` |
| `DemoIsHarmless` | `Spec => DemoWritesNothing` | `DemoLocal` |
| `InputArrives`, `AcksFit` | `Spec => []InputReachesSelected`, `[]AcksMatch` | `TypedForSelected`, `AcknowledgedOnce` |
| `BoardTrue` | `Spec => []BoardIsTrue` | `BoardShowsTime`, `LanesAreHosts`, `AliasesShareALane` |
| `PartsTyped` | `Spec => []TypeOK` | a theorem or lemma of each part |
| `RequestedOnce`, `MachinesSpared`, `HeldQuiet` | `Spec => []OnlyRequest`, `[]HeldMachinesSpared`, `HeldAfterQuiet` | the theorems of `CleanupProofs`, for both instances |

The step from a part to the composition is the same each time. A behaviour of
`MCParts` keeps its `part` for ever, so it is a behaviour of that part's
specification or never concerns it (`TaskPart`, `CleanPart`, ...); the assumptions of
the parts about their constants are `PartsAssumption`. A part with theorems is
instantiated through its module of proofs, and brings the theorems with it.

* Cleanup, one request: memory may run ahead of the files or be lost. `Asked` says
  that a requested identity has its intent in memory *and* on disk, so neither a
  restart nor a decision confirms it again.
* Cleanup, machine spared: `Spared` says what a check stands on while the mutex is
  free: it holds the machine's key, and a check without an audit began with the
  machine free. A check that follows an audit has an intent already, and comes to no
  request. A check during which the settings moved the machine is excepted (`moved`,
  section 5).
* Cleanup, quiet: `Evidence(p, base, age)` says that if the process behind the PID is
  still `p` and its mark is still `base`, then it has been quiet for `age`. It holds
  of every observation, every order on the way and the answer in hand, and the
  script's last look (`Viable`) turns it into the property.
* Statistics: what is in flight and what is shown answer the choices as they are. Each
  panel says it as its mechanism allows. Metrics: a request that is still under way is
  of the present generation and asks for what is chosen, since every choice drops
  those before it (`RequestsAreCurrent`, `CurvesAreCurrent`). Utilization: every
  choice aborts the request before it, so the one request is current, also while the
  dialog is closed (`RequestIsCurrent`, `TableIsCurrent`). Ranking: what is in sight
  answers the filter unless a newer answer is asked for, and what can be exported
  always does (`RankingIsCurrent`); one opening at most belongs to the dialog, so no
  timer is started twice (`OneOpening`). The mapping to `LatestAnswer` is then a step
  for a step.
* Monitoring page: every assignment of the configuration is followed by a choice of
  the editor out of the new list (`ShownAfterLoad`, `ShownAfterSync`). `BusyHasAWrite`
  is inductive because the end of *any* write releases the controls. The kinds need
  the count of saves under way: each of them still has a version left (`SavesFit`).
* Demonstration: the settings can be opened in it, by the button of the empty page,
  and be open when it begins. `RealInv` says why its machines still do not reach the
  service: every answer is the service's own (`NetReal`); while the made-up
  configuration is in place it has machines and was drawn with them, so the empty
  page's button is not there (`ShownInDemo`); hence no draft is a copy of it
  (`DraftReal`).
* Execution: `Refusable` says that a batch that was started is known to this run of
  the program, or the page holds the token of an earlier run and is refused.
* Execution, doubt: `SubmitAlone` says that a submission under way is alone in its
  kind. `LostInv` says that a batch that ran, was not answered and is not prepared any
  more is on the list that comes or on the list shown (`Finds`): opening the dialog
  takes the identifier away and begins to read the list in the same step, and a
  list that was read before the batch ran is overtaken by that reading.
* Execution, shown: `OwnGenerations` says that no two requests share a generation,
  `LearnedHere` that what the page knows of batches it learned from this run of the
  service. `LatestShows` says that a wanted batch that is kept is the one in
  `jobID`, that the request of the latest generation will show that one, and that
  list and results agree when there is no such request. This fails without the
  comparison of generations (`execution.js:17`) and without that of the poll's
  answer (`:26`).
* Tasks, once: `Texts` says that whatever carries an identifier (the pending
  submission, a request in flight, a task of the service) carries the text it was
  drawn for, so a repeated request is the same task. This needs no patience of the
  reader. The doubt does: `Asked` says that every unanswered request is about the
  pending submission, which a reader who submits again in between breaks (`Impatient`,
  section 5), so `SubmissionsKept` is about one who waits.
* Tasks, list: `OneRefresh` says that there is one query of the list at a time, and
  orders the list shown, the answer on the way and the service's tasks.
* Cleanup panel: `WritesCounted` counts a click as carried out, on its way, or given
  up and late, each once. `OneOperation` and `AnswersHold` say that while no write was
  given up, the one operation under way owns its requests, so no answer about the
  policy is read before a write and used after it. `DetailFollows` ties a load to the
  selection by its sequence, also when the sequence is reused later.
* Rotation: `QuietOrWaiting` says that `quiet + left >= seconds`: every second the
  deadline comes nearer is one the reader was quiet for, and what ends the quiet
  starts the dwell again. The end of a save does neither.
* Grid: `DrawnInv` says that the page and the number of pages were computed from one
  list; that the page is not empty is a pigeonhole argument about positions in the
  list (`EveryPosition`), since there is a machine on every position up to its length.
* Terminal: `OneCurrent` and `OwnSocket` say that of all connections at most one is
  the dialog's own and every other one is being closed, so input can only be sent
  where it was typed for. `ChunksFit` says that a chunk is in one place of its way at
  a time: sent, drawn, acknowledged, and received, unless its acknowledgement was
  dropped. For the slots, every step but one leaves sessions that are pictures of
  earlier ones (`SessionKept`, `SessionsLeft`); the one that adds a session looks for
  a slot first.
* Time axis: the clock only grows and the extent of the history with it, so a view
  that was inside stays inside (`StillWithin`, in `AxisInv`). The least and the
  greatest event of a history exist by the least-number principle (`LeastOf`,
  `GreatestOf`).
* Lanes: the loop of `groupMachines` is a recursive function over the turns.
  `TurnsExist` shows that there is one, and `LoopInv` what holds after each turn; both
  by a least counterexample, because the induction theorems of the library cannot be
  used here. `HistoryStaysOnHost` needs only that an identifier names one machine
  (`watch/config.go:171`). `AliasesTogether` needs `OneResourcePerHost`, which the
  code does not enforce (section 5); the lists of the run satisfy it.

### Only model-checked

The liveness properties, because the prover has no rules for fairness and ENABLED
here: `OffersEnd`, `FinishedTasksAreReviewed`, `DispatchEnds` and `SendingEnds` of
`progress`, `PagesCatchUp`, `EveryMachineComesRound`, `SlotsComeBack` and
`EndIsVerified` of `parts_live`. Every other property of a passing run is a theorem
above. `torn`, `group_intent` and `one_task` show statements that are false.

Two of the theorems of parts hold under a condition the runs satisfy and the code
does not enforce: `SubmissionsKept` (a reader who waits, `~Impatient`) and
`AliasesShareALane` (`OneResourcePerHost`). `StoreLoads` leaves out the stop that
`torn` is about. What happens without these conditions is in section 5.

What is left: an abstract specification of who holds a machine and for how long, which
the task controller refines (its parts are proved: `HoldersExclusive`, `GrantsKept`,
`LaunchesOnce` and the moves of `StoreProofs`). The compaction of finished records and
the outbox of the bridge have to be modelled before anything can be proved of them.

## 5. Where the documentation and the code differ

* **`torn`.** `continuations.go:499` says that a recovered intent without a job
  is uncertain; docs/experiment-continuations.md:130 says the machines stay held.
  But a directory without `job.json` is accepted at start only for a *group*
  intent (`tasks.go:211-226`). If the service stops between `Mkdir` and the record
  of a continuation's task (or of a plain one), it does not start again until
  somebody removes the directory.
* **`group_intent`.** docs/atomic-group-reservations.md:26: a group whose intent
  is durable and whose task record is missing is kept. `ReleaseReservation` asks
  only for a finished record of that *task ID* (`reservations.go:147-152`), and the
  ID may have been submitted without the group after the submission under it
  failed. No machine is doubled by this: nothing of the group was launched.
* **`one_task`.** docs/task-controller.md:124: a machine has at most one unfinished
  task. After a failed final save and a restart there may be two records; the
  older command has ended, and the next probe finishes its record.

Three statements of the documentation have a run of their own, above. The others
were met while modelling and are excluded from the properties, each where it is
named:

* README.md:40: everything in the demonstration is invented. A
  status, a configuration or the answer to a save that was asked for before the
  demonstration began replaces its data when it arrives (`app.js:197`, `:200`,
  `:223`). If that configuration has no machines, the page is drawn empty
  (`app.js:149`), and the empty page has a button for the settings (`app.js:276`)
  that the demonstration does not disable (`app.js:194` disables the other one); a
  settings dialog that was open before a demonstration begun by `?demo=1` stays open
  too. The settings then saved go to the service while the demonstration is on
  (`app.js:285`), and commands that were run, stopped or removed only for show
  since that answer (`app.js:215`) go along, as part of the whole configuration.
  `DemoWritesNothing` therefore says what remains true: no save of a command begins
  in the demonstration, and its made-up configuration is never sent.
* `execution.js:18` tells the reader that after an interruption the same button may be
  clicked again, with the same identifier. Opening the dialog again and going back both call `edit()`
  (`execution.js:11`, `:19`, `:24`), which forgets the identifier and the message.
  After opening, the list is read, and a batch that ran is on it (README.md:92, `LostIsFound`).
  Going back reads nothing: the statement takes it as the reader's own word, and a
  batch that ran is found when the list is read the next time.
* README.md:67-68: commands are kept one by one, and what is stored stays. The
  settings are saved whole from the copy made when the dialog opened
  (`app.js:275`, `:285`): commands stored in between by another window are lost.
* docs/task-controller.md:52 asks a client to query by the original ID after a
  timeout. The page clears `pending` without looking whether it still is the task
  that was answered for (`tasks.js:180`, `:196`), so a reader who retries or
  asks while a submission is unanswered (`Impatient`) can lose the doubt about
  a newer one.
* docs/netdata.md:17: the metrics are asked for every ten seconds. Not while an
  earlier request is unanswered, and it has no timeout (`metrics.js:182`).
* docs/idle-ranking.md:7: read every ten seconds while open. If the first
  configuration request of an opening fails, no timer is started
  (`idle-ranking.js:52-59`). docs/idle-ranking.md:57: the download is the current
  filter's result; the "available" filter is not part of it (`idle-ranking.js:63`).
* docs/task-controller.md:76: lanes are actual machines. A host name is looked up
  before the resource (`task-timeline.js:58`), so two resources behind one
  host, for instance two tunnels of a loopback host, share a lane.
* docs/experiment-continuations.md:198 and `watch/cleanup.go:568`: one request per
  process. The identity of an audit contains the machine's resource key
  (`:240-243`); if the settings give the machine another resource, the same
  process has a new identity and may be asked once more (instance `renamed`).
* The recheck of `watch/cleanup.go:528-556` compares configuration and waiter but
  not the holders of the machine: when the settings move the machine to another
  resource and back during one inspection, a task may have been given it in
  between (`moved` in `HeldMachinesSpared`).
* An acknowledgement the browser cannot send, because 64 KiB are queued already, is
  dropped (`ssh-terminal.js:27`); the service then waits for it and ends the
  session after its timeout (`watch/terminal.go:93-108`).

## 6. Not modelled

`PROJECT.json` lists every component with its status and the reason.

* **Retention and storage budget.** A compacted record keeps ID, request hash and
  status, so it is the record here. The budget is advisory (`storage.go:137-138`): no
  write is refused by it; a write that fails is an I/O failure, which the models
  allow at any time. The order of the two writes of a compaction and the
  accounting of charges are not modelled.
* **Wake bridge and client** are outside the service; their requests arrive late,
  repeated or never in `Continuations`. Their own loops are not modelled.
* **Monitor.** Samples only narrow the choice of machines; the models let a step
  choose any. The replacement of its workers is not modelled.
* **Service lease** rests on a lock of the operating system; **backup** copies and
  verifies files while the service is stopped.
* **Trust store, SSH authentication, statistics over samples, Netdata, log
  retention, HTTP sessions** keep little state or compute over samples.
* **Execution dialog**: the demonstration, in which it sends nothing, and a
  submission the page gave up that reaches the service only later: the model loses
  it. For tasks and the cleanup switch, late requests are modelled.
* **Terminal**: `SlotsComeBack` is about a dialog that is closed. A network that
  vanishes while it is open ends a session by the timeout of an acknowledgement or of
  idle input (`watch/terminal.go:93`, `:209`); no property waits for these.
* Of the pages: the rows of the settings draft with import and export, the
  reservations drawn beside a machine, downloads, and drawing.
