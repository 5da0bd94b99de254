------------------------------- MODULE TaskPage -------------------------------
(***************************************************************************)
(* The task page (src/web/tasks.js) in front of the task API.  Submitting,  *)
(* asking for a pending task, refreshing and the actions on the selected    *)
(* task each wait for an answer, so each is a sending and a receiving step; *)
(* a request or its answer may be lost, and a lost request does not arrive  *)
(* later.  A task is told apart by its identifier, by the text it runs      *)
(* (named by the identifier the page drew for it) and by its status.        *)
(***************************************************************************)
EXTENDS Naturals, FiniteSets, FreshNames

CONSTANTS
    IDs,        \* identifiers the page may draw (newTaskId)
    Slots,      \* bound: submissions in flight at a time
    Modes,      \* filters the reader uses, of "running", "unknown" and "all"
    None,
    Impatient,  \* the reader asks or retries while a submission is in flight
    Faults      \* requests and answers may be lost

TaskPageAssumption ==
    /\ None \notin IDs \cup [id: IDs, text: IDs]
    /\ Modes \subseteq {"running", "unknown", "all"}
    /\ Impatient \in BOOLEAN /\ Faults \in BOOLEAN

VARIABLES
    tasks,          \* the service's tasks
    jobs,           \* state.jobs: the list of the last refresh
    filter, selected, pending, logs, busy, refreshing,
    submitDisabled, \* as formScope drew the button
    posts, check, action,   \* requests in flight
    lists,                  \* refreshes in flight: one, as long as refresh sees to it
    unsettled       \* submissions whose outcome the page was not told; observed only

page == <<jobs, filter, selected, pending, logs, busy, refreshing, submitDisabled>>
net == <<posts, check, lists, action>>
vars == <<tasks, page, net, unsettled>>

Absent == [text |-> None, status |-> "absent"]
\* "running" includes being dispatched, "finished" being resolved by hand.
Statuses == {"running", "unknown", "finished"}
Task == [text: IDs, status: Statuses] \cup {Absent}
Tasks == [IDs -> Task]

\* A status never goes back on this scale, except that an unknown task may be
\* found running again.
Rank == [absent |-> 0, running |-> 1, unknown |-> 1, finished |-> 2]

Idle == [stage |-> "idle"]
Failed == [stage |-> "failed"]
Unanswered(stage, id) == [stage |-> stage, id |-> id]
Ask(id) == [stage |-> "sent", id |-> id]
Post(id, text) == [stage |-> "sent", id |-> id, text |-> text]
Do(verb, id) == [stage |-> "sent", id |-> id, verb |-> verb]
Found(id) == [stage |-> "found", id |-> id]

Listed == {id \in IDs : jobs[id] # Absent}
Shows(mode, status) ==
    CASE mode = "all" -> TRUE
      [] mode = "unknown" -> status = "unknown"
      [] mode = "running" -> status = "running"
filterJobs(js, mode) == {id \in IDs : js[id] # Absent /\ Shows(mode, js[id].status)}
\* The newest of the visible tasks; the order is not modelled.
FirstVisible(js, mode) ==
    IF filterJobs(js, mode) = {} THEN {None} ELSE filterJobs(js, mode)

Init ==
    /\ tasks = [id \in IDs |-> Absent] /\ jobs = tasks
    /\ filter = "running" /\ selected = None /\ pending = None /\ logs = None
    /\ busy = FALSE /\ submitDisabled = TRUE
    /\ posts = [s \in Slots |-> Idle] /\ check = Idle /\ action = Idle
    /\ refreshing = TRUE /\ lists = {Ask(None)}
    /\ unsettled = {}

-----------------------------------------------------------------------------
(* The service.                                                             *)

\* POST /api/tasks: the same identifier with the same text is the same task.
Submits(s) ==
    LET r == posts[s] IN
    /\ r.stage = "sent"
    /\ \/ /\ tasks[r.id] = Absent
          /\ tasks' = [tasks EXCEPT ![r.id] = [text |-> r.text, status |-> "running"]]
          /\ posts' = [posts EXCEPT ![s] = Found(r.id)]
       \/ /\ tasks[r.id].text = r.text
          /\ posts' = [posts EXCEPT ![s] = Found(r.id)]
          /\ UNCHANGED tasks
       \/ /\ tasks[r.id].text # r.text      \* no machine is ready, or another text
          /\ posts' = [posts EXCEPT ![s] = Unanswered("refused", r.id)]
          /\ UNCHANGED tasks
    /\ UNCHANGED <<page, check, lists, action, unsettled>>

Looks ==
    /\ check.stage = "sent"
    /\ check' = IF tasks[check.id] = Absent THEN Failed ELSE Found(check.id)
    /\ UNCHANGED <<tasks, page, posts, lists, action, unsettled>>

Lists ==
    /\ \E r \in lists :
          r.stage = "sent" /\ lists' = (lists \ {r}) \cup {[stage |-> "found", tasks |-> tasks]}
    /\ UNCHANGED <<tasks, page, posts, check, action, unsettled>>

Acts ==
    LET id == action.id IN
    /\ action.stage = "sent"
    /\ \/ /\ action.verb \in {"logs", "probe"}
          /\ action' = [action EXCEPT !.stage = "found"]
          /\ UNCHANGED tasks
       \/ /\ action.verb = "resolve" /\ tasks[id].status = "unknown"
          /\ tasks' = [tasks EXCEPT ![id].status = "finished"]
          /\ action' = [action EXCEPT !.stage = "found"]
       \/ /\ action.verb = "resolve" /\ tasks[id].status # "unknown"
          /\ action' = Failed
          /\ UNCHANGED tasks
    /\ UNCHANGED <<page, posts, check, lists, unsettled>>

Progresses(id) ==
    /\ tasks[id].status \in {"running", "unknown"}
    /\ \E s \in Statuses \ {tasks[id].status} : tasks' = [tasks EXCEPT ![id].status = s]
    /\ UNCHANGED <<page, net, unsettled>>

Loses ==
    /\ Faults
    /\ \/ \E s \in Slots : /\ posts[s].stage \in {"sent", "found", "refused"}
                           /\ posts' = [posts EXCEPT ![s] = Unanswered("failed", posts[s].id)]
                           /\ UNCHANGED <<check, lists, action>>
       \/ check.stage \in {"sent", "found"} /\ check' = Failed /\ UNCHANGED <<posts, lists, action>>
       \/ /\ \E r \in lists : r.stage \in {"sent", "found"} /\ lists' = (lists \ {r}) \cup {Failed}
          /\ UNCHANGED <<posts, check, action>>
       \/ action.stage \in {"sent", "found"} /\ action' = Failed /\ UNCHANGED <<posts, check, lists>>
    /\ UNCHANGED <<tasks, page, unsettled>>

-----------------------------------------------------------------------------
(* The page.                                                                *)

\* A form of refresh that asks again while an answer is on its way.
refreshAnyway == refreshing' = TRUE /\ lists' = lists \cup {Ask(None)}

\* refresh(): dropped while another one runs.  It is called by the button, by
\* the five-second timer and at the end of other handlers.
refresh ==
    IF refreshing THEN UNCHANGED <<refreshing, lists>>
    ELSE refreshing' = TRUE /\ lists' = lists \cup {Ask(None)}

Refresh ==
    /\ ~refreshing
    /\ refresh
    /\ UNCHANGED <<tasks, jobs, filter, selected, pending, logs, busy, submitDisabled,
                   posts, check, action, unsettled>>

formScope == submitDisabled' = (pending' # None)

Refreshed ==
    \E r \in lists :
        /\ r.stage \in {"found", "failed"}
        /\ refreshing' = FALSE /\ lists' = lists \ {r}
        /\ \/ /\ r.stage = "failed"
              /\ UNCHANGED <<jobs, selected, pending, submitDisabled>>
           \/ /\ r.stage = "found"
              /\ jobs' = r.tasks
              /\ IF selected # None /\ jobs'[selected] # Absent
                 THEN UNCHANGED selected
                 ELSE selected' \in FirstVisible(jobs', filter)
              /\ UNCHANGED pending /\ formScope
        /\ UNCHANGED <<tasks, filter, logs, busy, posts, check, action, unsettled>>

Overlapping == (\E s \in Slots : posts[s].stage # "idle") \/ check.stage # "idle"
Used == {id \in IDs : tasks[id] # Absent} \cup unsettled
        \cup {posts[s].id : s \in {t \in Slots : posts[t].stage \notin {"idle"}}}
\* A new identifier is random.
payload == {[id |-> id, text |-> id] : id \in OneOf(IDs \ Used)}
\* A form of retry that draws a new identifier for the same text.
retryAnew == IF pending = None THEN {} ELSE {[id |-> id, text |-> pending.text] : id \in IDs \ Used}
retry == IF pending = None THEN {} ELSE {pending}

\* submit(): the request is remembered until an answer settles it.
Send(s, requests) ==
    /\ posts[s] = Idle
    /\ \E t \in requests :
          /\ posts' = [posts EXCEPT ![s] = Post(t.id, t.text)]
          /\ pending' = t
          /\ unsettled' = unsettled \cup {t.id}
    /\ formScope
    /\ UNCHANGED <<tasks, jobs, filter, selected, logs, busy, refreshing, check, lists, action>>

submit(s) == ~submitDisabled /\ Send(s, payload)
Retry(s) == (Impatient \/ ~Overlapping) /\ Send(s, retry)

\* The answer to a submission clears whatever is pending by now.
Submitted(s) ==
    LET r == posts[s] IN
    /\ r.stage = "found"
    /\ posts' = [posts EXCEPT ![s] = Idle]
    /\ pending' = None /\ selected' = r.id /\ logs' = None
    /\ unsettled' = unsettled \ {r.id}
    /\ refresh
    /\ UNCHANGED <<tasks, jobs, filter, busy, submitDisabled, check, action>>

NotSubmitted(s) ==
    LET r == posts[s] IN
    /\ r.stage \in {"refused", "failed"}
    /\ posts' = [posts EXCEPT ![s] = Idle]
    /\ pending' = IF r.stage = "refused" THEN None ELSE pending
    /\ unsettled' = IF r.stage = "refused" THEN unsettled \ {r.id} ELSE unsettled
    /\ formScope
    /\ UNCHANGED <<tasks, jobs, filter, selected, logs, busy, refreshing, check, lists, action>>

checkPending ==
    /\ pending # None /\ check = Idle
    /\ Impatient \/ ~Overlapping
    /\ check' = Ask(pending.id)
    /\ UNCHANGED <<tasks, page, posts, lists, action, unsettled>>

Checked ==
    /\ check.stage \in {"found", "failed"}
    /\ check' = Idle
    /\ IF check.stage = "found"
       THEN /\ pending' = None /\ selected' = check.id
            /\ unsettled' = unsettled \ {check.id}
            /\ refresh
       ELSE UNCHANGED <<pending, selected, unsettled, refreshing, lists>>
    /\ UNCHANGED <<tasks, jobs, filter, logs, busy, submitDisabled, posts, action>>

\* taskAction(): for the task that is selected when the button is pressed.
Offered(verb, job) ==
    CASE verb = "logs" -> TRUE
      [] verb = "probe" -> job.status \in {"running", "unknown"}
      [] verb = "resolve" -> job.status = "unknown"
taskAction(verb) ==
    /\ selected \in Listed /\ ~busy
    /\ Offered(verb, jobs[selected])
    /\ busy' = TRUE
    /\ action' = Do(verb, selected)
    /\ UNCHANGED <<tasks, jobs, filter, selected, pending, logs, refreshing, submitDisabled,
                   posts, check, lists, unsettled>>

Acted ==
    /\ action.stage \in {"found", "failed"}
    /\ action' = Idle /\ busy' = FALSE
    /\ IF action.stage = "found" /\ action.verb = "logs"
       THEN logs' = [id |-> action.id, of |-> action.id]
       ELSE UNCHANGED logs
    /\ IF action.stage = "found" /\ action.verb # "logs" THEN refresh ELSE UNCHANGED <<refreshing, lists>>
    /\ UNCHANGED <<tasks, jobs, filter, selected, pending, submitDisabled, posts, check, unsettled>>

Select ==
    /\ selected' \in Listed
    /\ logs' = None
    /\ UNCHANGED <<tasks, jobs, filter, pending, busy, refreshing, submitDisabled, net, unsettled>>

Filter(mode) ==
    /\ filter' = mode
    /\ selected' \in FirstVisible(jobs, mode)
    /\ logs' = None
    /\ UNCHANGED <<tasks, jobs, pending, busy, refreshing, submitDisabled, net, unsettled>>

Service == \/ \E s \in Slots : Submits(s)
           \/ Looks \/ Lists \/ Acts \/ Loses \/ \E id \in IDs : Progresses(id)
Reader == \/ \E s \in Slots : submit(s) \/ Retry(s)
          \/ checkPending \/ Select
          \/ \E v \in {"logs", "probe", "resolve"} : taskAction(v)
          \/ \E mode \in Modes : Filter(mode)
Answers == \/ Refreshed \/ Checked \/ Acted
           \/ \E s \in Slots : Submitted(s) \/ NotSubmitted(s)
Next == Service \/ Refresh \/ Reader \/ Answers

Spec == Init /\ [][Next]_vars

-----------------------------------------------------------------------------
\* Every variable has a value of its kind.
TypeOK ==
    /\ tasks \in Tasks /\ jobs \in Tasks
    /\ filter \in {"running", "unknown", "all"}
    /\ selected \in IDs \cup {None} /\ unsettled \subseteq IDs
    /\ pending \in {None} \cup [id: IDs, text: IDs]
    /\ logs \in {None} \cup [id: IDs, of: IDs]
    /\ busy \in BOOLEAN /\ refreshing \in BOOLEAN /\ submitDisabled \in BOOLEAN
    /\ DOMAIN posts = Slots

\* One text the reader submitted becomes one task at most, through lost
\* requests, lost answers, questions and retries (the retry repeats the
\* identifier; docs/task-controller.md, section 2).
NoDuplicateWork ==
    \A a, b \in IDs : tasks[a] # Absent /\ tasks[a].text = tasks[b].text => a = b

\* The page still names every submission whose outcome it does not know, so
\* that it can be asked for with the same identifier (renderMessage).
PendingKept == \A id \in unsettled : pending # None /\ pending.id = id

\* The logs drawn beside the selected task are that task's, although they
\* were asked for before the selection moved (renderDetail).
ShownLogs == IF logs # None /\ logs.id = selected THEN logs.of ELSE selected
LogsMatchSelection == ShownLogs = selected

\* No list the page shows is older than the one before: refreshes, which come
\* from the timer, the buttons and other handlers, never overlap.
GoesOn == \A id \in IDs : Rank[jobs'[id].status] >= Rank[jobs[id].status]

\* When the service rests, the list catches up with it, whatever was lost.
Resting == tasks' = tasks
CaughtUp == jobs = tasks

=============================================================================
