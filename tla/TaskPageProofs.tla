---------------------------- MODULE TaskPageProofs ----------------------------
(***************************************************************************)
(* The task page names every submission whose outcome it does not know, and *)
(* submits nothing twice, for any number of tasks and of requests that are  *)
(* lost; and no list it shows is older than the one before.  Its board      *)
(* stays within the time there is, and its lanes are those of the hosts the *)
(* tasks ran on.                                                            *)
(***************************************************************************)
EXTENDS TaskPage, Integers, Sequences, WellFoundedInduction, TLAPS

CONSTANTS
    Bars, Second, Hour, MaxTime,                        \* the time axis
    Machines, Hosts, LoopbackHosts, Localhost,          \* the lanes
    ResourceIDs, Ports, MachineLists, MaxJobs

VARIABLES now, view, drawn, bounds, pointed, machines, groups, lanes

Axis == INSTANCE TaskTimeline WITH Jobs <- Bars
Lanes == INSTANCE TaskGroups WITH Lists <- MachineLists

LEMMA OneOfIsIn ==
    ASSUME NEW S, NEW x \in OneOf(S)
    PROVE  x \in S
  BY DEF OneOf

-----------------------------------------------------------------------------
(* Types.                                                                   *)

Verbs == {"logs", "probe", "resolve"}
PostRecord == {Idle} \cup [stage: {"sent"}, id: IDs, text: IDs]
              \cup [stage: {"found", "refused", "failed"}, id: IDs]
CheckRecord == {Idle, Failed} \cup [stage: {"sent", "found"}, id: IDs]
ActionRecord == {Idle, Failed} \cup [stage: {"sent", "found"}, verb: Verbs, id: IDs]
ListRecord == {Failed, Ask(None)} \cup [stage: {"found"}, tasks: Tasks]

Types ==
    /\ TypeOK
    /\ posts \in [Slots -> PostRecord] /\ check \in CheckRecord /\ action \in ActionRecord
    /\ lists \subseteq ListRecord

\* What the constructors of the records build.
LEMMA Records ==
    ASSUME NEW id \in IDs
    PROVE  /\ \A text \in IDs : Post(id, text) \in PostRecord
           /\ Found(id) \in PostRecord /\ Found(id) \in CheckRecord /\ Ask(id) \in CheckRecord
           /\ \A stage \in {"refused", "failed"} : Unanswered(stage, id) \in PostRecord
           /\ \A verb \in Verbs : Do(verb, id) \in ActionRecord
  BY DEF Post, Found, Ask, Unanswered, Do, PostRecord, CheckRecord, ActionRecord

LEMMA ServiceTypes ==
    ASSUME TaskPageAssumption, Types, Service
    PROVE  Types'
  <1>1. CASE \E s \in Slots : Submits(s)
    <2> PICK s \in Slots : Submits(s)
      BY <1>1
    <2>1. posts[s] \in PostRecord /\ posts[s].stage = "sent"
      BY DEF Submits, Types
    <2>2. posts[s].id \in IDs /\ posts[s].text \in IDs
      BY <2>1 DEF PostRecord, Idle
    <2>3. [text |-> posts[s].text, status |-> "running"] \in Task
      BY <2>2 DEF Task, Statuses
    <2>4. tasks' \in Tasks
      BY <2>2, <2>3 DEF Submits, Types, TypeOK, Tasks
    <2>5. posts' \in [Slots -> PostRecord]
      BY <2>2, Records DEF Submits, Types
    <2>6. UNCHANGED <<page, check, lists, action, unsettled>>
      BY DEF Submits
    <2> QED  BY <2>4, <2>5, <2>6 DEF Types, TypeOK, page
  <1>2. CASE Looks
    <2>1. check \in CheckRecord /\ check.stage = "sent"
      BY <1>2 DEF Looks, Types
    <2>2. check.id \in IDs
      BY <2>1 DEF CheckRecord, Idle, Failed
    <2>3. check' \in CheckRecord
      BY <1>2, <2>2, Records DEF Looks, CheckRecord
    <2> QED  BY <1>2, <2>3 DEF Looks, Types, TypeOK, page
  <1>3. CASE Lists
    <2>1. [stage |-> "found", tasks |-> tasks] \in ListRecord
      BY DEF Types, TypeOK, ListRecord
    <2>2. lists' \subseteq ListRecord
      BY <1>3, <2>1 DEF Lists, Types
    <2> QED  BY <1>3, <2>2 DEF Lists, Types, TypeOK, page
  <1>4. CASE Acts
    <2>1. action \in ActionRecord /\ action.stage = "sent"
      BY <1>4 DEF Acts, Types
    <2>2. action \in [stage: {"sent", "found"}, verb: Verbs, id: IDs]
      BY <2>1 DEF ActionRecord, Idle, Failed
    <2>3. [action EXCEPT !.stage = "found"] \in ActionRecord /\ Failed \in ActionRecord
      BY <2>2 DEF ActionRecord
    <2>4. ASSUME tasks[action.id].status = "unknown"
          PROVE  [tasks[action.id] EXCEPT !.status = "finished"] \in Task
      BY <2>2, <2>4 DEF Types, TypeOK, Tasks, Task, Absent, Statuses
    <2>5. tasks' \in Tasks
      BY <1>4, <2>2, <2>4 DEF Acts, Types, TypeOK, Tasks
    <2>6. action' \in ActionRecord
      BY <1>4, <2>3 DEF Acts
    <2> QED  BY <1>4, <2>5, <2>6 DEF Acts, Types, TypeOK, page
  <1>5. CASE \E id \in IDs : Progresses(id)
    <2> PICK id \in IDs : Progresses(id)
      BY <1>5
    <2>1. \A s \in Statuses : tasks[id].status \in {"running", "unknown"} =>
                                  [tasks[id] EXCEPT !.status = s] \in Task
      BY DEF Types, TypeOK, Tasks, Task, Absent, Statuses
    <2>2. tasks' \in Tasks
      BY <2>1 DEF Progresses, Types, TypeOK, Tasks
    <2> QED  BY <2>2 DEF Progresses, Types, TypeOK, page, net
  <1>6. CASE Loses
    <2>1. \A s \in Slots : posts[s].stage \in {"sent", "found", "refused"} => posts[s].id \in IDs
      BY DEF Types, PostRecord, Idle
    <2>2. posts' \in [Slots -> PostRecord]
      BY <1>6, <2>1, Records DEF Loses, Types
    <2>3. check' \in CheckRecord /\ action' \in ActionRecord /\ lists' \subseteq ListRecord
      BY <1>6 DEF Loses, Types, CheckRecord, ActionRecord, ListRecord
    <2> QED  BY <1>6, <2>2, <2>3 DEF Loses, Types, TypeOK, page
  <1> QED  BY <1>1, <1>2, <1>3, <1>4, <1>5, <1>6 DEF Service

LEMMA PageTypes ==
    ASSUME TaskPageAssumption, Types, Refresh \/ Answers
    PROVE  Types'
  <1>1. refresh => refreshing' \in BOOLEAN /\ lists' \subseteq ListRecord
    BY DEF refresh, Types, TypeOK, ListRecord
  <1>2. formScope => submitDisabled' \in BOOLEAN
    BY DEF formScope
  <1>3. \A s \in Slots : posts[s].stage \in {"found", "refused", "failed"} => posts[s].id \in IDs
    BY DEF Types, PostRecord, Idle
  <1>4. check.stage = "found" => check.id \in IDs
    BY DEF Types, CheckRecord, Idle, Failed
  <1>5. Idle \in PostRecord /\ Idle \in CheckRecord /\ Idle \in ActionRecord
    BY DEF PostRecord, CheckRecord, ActionRecord
  <1>6. CASE Refresh
    BY <1>1, <1>6 DEF Refresh, Types, TypeOK
  <1>7. CASE Refreshed
    <2> PICK r \in lists : Refreshed!(r)
      BY <1>7 DEF Refreshed
    <2>1. r.stage = "found" => r.tasks \in Tasks
      BY DEF Types, ListRecord, Failed, Ask
    <2>2. jobs' \in Tasks
      BY <2>1 DEF Types, TypeOK
    <2>3. \A js \in Tasks : FirstVisible(js, filter) \subseteq IDs \cup {None}
      BY DEF FirstVisible, filterJobs
    <2>4. selected' \in IDs \cup {None}
      BY <2>2, <2>3 DEF Types, TypeOK
    <2>5. submitDisabled' \in BOOLEAN
      BY <1>2 DEF Types, TypeOK
    <2> QED  BY <2>2, <2>4, <2>5 DEF Types, TypeOK
  <1>8. CASE Checked
    BY <1>1, <1>4, <1>5, <1>8 DEF Checked, Types, TypeOK
  <1>9. CASE Acted
    <2>1. action.stage = "found" => action.id \in IDs
      BY DEF Types, ActionRecord, Idle, Failed
    <2>2. logs' \in {None} \cup [id: IDs, of: IDs]
      BY <1>9, <2>1 DEF Acted, Types, TypeOK
    <2> QED  BY <1>1, <1>5, <1>9, <2>2 DEF Acted, Types, TypeOK
  <1>10. CASE \E s \in Slots : Submitted(s)
    BY <1>1, <1>3, <1>5, <1>10 DEF Submitted, Types, TypeOK
  <1>11. CASE \E s \in Slots : NotSubmitted(s)
    BY <1>2, <1>5, <1>11 DEF NotSubmitted, Types, TypeOK
  <1> QED  BY <1>6, <1>7, <1>8, <1>9, <1>10, <1>11 DEF Answers

LEMMA ReaderTypes ==
    ASSUME TaskPageAssumption, Types, Reader
    PROVE  Types'
  <1>1. formScope => submitDisabled' \in BOOLEAN
    BY DEF formScope
  <1>2. payload \subseteq [id: IDs, text: IDs] /\ retry \subseteq [id: IDs, text: IDs]
    BY OneOfIsIn DEF payload, retry, Types, TypeOK
  <1>3. CASE \E s \in Slots : submit(s) \/ Retry(s)
    <2> PICK s \in Slots : Send(s, payload) \/ Send(s, retry)
      BY <1>3 DEF submit, Retry
    <2> PICK t \in [id: IDs, text: IDs] :
               /\ posts' = [posts EXCEPT ![s] = Post(t.id, t.text)]
               /\ pending' = t
               /\ unsettled' = unsettled \cup {t.id}
      BY <1>2 DEF Send
    <2>1. posts' \in [Slots -> PostRecord]
      BY Records DEF Types
    <2> QED  BY <1>1, <2>1 DEF Send, Types, TypeOK
  <1>4. CASE checkPending
    BY <1>4, Records DEF checkPending, Types, TypeOK, page
  <1>5. CASE Select
    BY <1>5 DEF Select, Listed, Types, TypeOK, net
  <1>6. CASE \E v \in {"logs", "probe", "resolve"} : taskAction(v)
    BY <1>6, Records DEF taskAction, Listed, Verbs, Types, TypeOK
  <1>7. CASE \E mode \in Modes : Filter(mode)
    <2>1. \A mode \in Modes : FirstVisible(jobs, mode) \subseteq IDs \cup {None}
      BY DEF FirstVisible, filterJobs
    <2> QED  BY <1>7, <2>1 DEF Filter, Types, TypeOK, net, TaskPageAssumption
  <1> QED  BY <1>3, <1>4, <1>5, <1>6, <1>7 DEF Reader

LEMMA NextTypes ==
    ASSUME TaskPageAssumption, Types, [Next]_vars
    PROVE  Types'
  <1>1. UNCHANGED vars => Types'
    BY DEF vars, page, net, Types, TypeOK
  <1> QED  BY <1>1, ServiceTypes, PageTypes, ReaderTypes DEF Next

LEMMA InitTypes ==
    ASSUME TaskPageAssumption, Init
    PROVE  Types
  BY DEF Init, Types, TypeOK, Tasks, Task, PostRecord, CheckRecord, ActionRecord, ListRecord

-----------------------------------------------------------------------------
(* Every task runs the text its identifier was drawn for.                   *)

Texts ==
    /\ \A id \in IDs : tasks[id] # Absent => tasks[id].text = id
    /\ pending # None => pending.text = pending.id
    /\ \A s \in Slots : posts[s].stage = "sent" => posts[s].text = posts[s].id

\* Every step keeps the texts of a submission and its identifier together.
LEMMA NextTexts ==
    ASSUME TaskPageAssumption, Types, Texts, [Next]_vars
    PROVE  Texts'
  <1>1. CASE \E s \in Slots : Submits(s)
    <2> PICK s \in Slots : Submits(s)
      BY <1>1
    <2>1. posts[s] \in PostRecord /\ posts[s].id \in IDs /\ posts[s].text = posts[s].id
      BY DEF Submits, Types, Texts, PostRecord, Idle
    <2>2. \A id \in IDs : tasks'[id] # Absent => tasks'[id].text = id
      BY <2>1 DEF Submits, Texts, Types, TypeOK, Tasks
    <2>3. \A t \in Slots : posts'[t].stage = "sent" => posts'[t].text = posts'[t].id
      BY <2>1 DEF Submits, Texts, Types, Found, Unanswered
    <2> QED  BY <2>2, <2>3 DEF Submits, Texts, page
  <1>2. CASE Acts \/ \E id \in IDs : Progresses(id)
    <2>1. \A id \in IDs : tasks'[id] = tasks[id]
                          \/ (tasks[id] # Absent /\ tasks'[id].text = tasks[id].text)
      <3>1. \A id \in IDs : tasks[id].status \in Statuses => tasks[id] # Absent
        BY DEF Absent, Statuses
      <3> QED  BY <1>2, <3>1 DEF Acts, Progresses, Types, TypeOK, Tasks, Task, Absent, Statuses
    <2> QED  BY <1>2, <2>1 DEF Acts, Progresses, Texts, page, net
  <1>3. CASE Loses
    <2>1. \A s \in Slots : posts'[s] = posts[s] \/ posts'[s].stage = "failed"
      BY <1>3 DEF Loses, Types, Unanswered
    <2> QED  BY <1>3, <2>1 DEF Loses, Texts, page
  <1>4. CASE \E s \in Slots : submit(s) \/ Retry(s)
    <2> PICK s \in Slots, t \in payload \cup retry :
               /\ posts' = [posts EXCEPT ![s] = Post(t.id, t.text)]
               /\ pending' = t
               /\ UNCHANGED tasks
      BY <1>4 DEF submit, Retry, Send
    <2>1. t.text = t.id
      BY DEF payload, retry, Texts
    <2> QED  BY <2>1 DEF Texts, Post, Types
  <1>5. CASE \E s \in Slots : Submitted(s) \/ NotSubmitted(s)
    <2>1. \A s \in Slots : posts'[s] = posts[s] \/ posts'[s].stage = "idle"
      BY <1>5 DEF Submitted, NotSubmitted, Idle, Types
    <2> QED  BY <1>5, <2>1 DEF Submitted, NotSubmitted, Texts
  <1>6. CASE \/ Looks \/ Lists \/ Refresh \/ checkPending \/ Select \/ Refreshed \/ Checked \/ Acted
             \/ (\E v \in {"logs", "probe", "resolve"} : taskAction(v))
             \/ (\E mode \in Modes : Filter(mode)) \/ UNCHANGED vars
    BY <1>6 DEF Looks, Lists, Refresh, checkPending, Select, Refreshed, Checked, Acted, taskAction,
                Filter, vars, page, net, Texts
  <1> QED  BY <1>1, <1>2, <1>3, <1>4, <1>5, <1>6 DEF Next, Service, Reader, Answers

\* One text the reader submitted becomes one task at most (tasks.js:163-191).
THEOREM SubmittedOnce ==
    ASSUME TaskPageAssumption
    PROVE  Spec => []NoDuplicateWork
  <1>1. Init => Types /\ Texts
    <2> SUFFICES ASSUME Init PROVE Texts
      BY InitTypes
    <2>1. \A id \in IDs : tasks[id] = Absent
      BY DEF Init
    <2>2. \A s \in Slots : posts[s].stage = "idle"
      BY DEF Init, Idle
    <2> QED  BY <2>1, <2>2 DEF Init, Texts
  <1>2. Types /\ Texts /\ [Next]_vars => (Types /\ Texts)'
    BY NextTypes, NextTexts
  <1>3. Texts => NoDuplicateWork
    <2> SUFFICES ASSUME Texts, NEW a \in IDs, NEW b \in IDs,
                        tasks[a] # Absent, tasks[a].text = tasks[b].text
                 PROVE  a = b
      BY DEF NoDuplicateWork
    <2>1. tasks[a].text = a
      BY DEF Texts
    <2>2. tasks[b] # Absent
      <3>1. Absent.text = None /\ None # a
        BY DEF Absent, TaskPageAssumption
      <3> QED  BY <2>1, <3>1
    <2> QED  BY <2>1, <2>2 DEF Texts
  <1> QED  BY <1>1, <1>2, <1>3, PTL DEF Spec

\* Every variable has a value of its kind.
THEOREM TaskPageTypes ==
    ASSUME TaskPageAssumption
    PROVE  Spec => []TypeOK
  <1>1. Types => TypeOK
    BY DEF Types
  <1> QED  BY <1>1, InitTypes, NextTypes, PTL DEF Spec

-----------------------------------------------------------------------------
(* A reader who waits for an answer asks for one submission at a time: the  *)
(* pending one.  That holds only where the reader is patient.               *)

Out(s) == posts[s].stage # "idle"
Asked ==
    /\ \A s, t \in Slots : Out(s) /\ Out(t) => s = t
    /\ \A s \in Slots : Out(s) => check = Idle /\ pending # None /\ pending.id = posts[s].id
    /\ check # Idle => pending # None
    /\ check.stage \in {"sent", "found"} => pending # None /\ pending.id = check.id
    /\ pending # None => submitDisabled
    /\ PendingKept

\* A step that asks for nothing and settles nothing.
LEMMA AskedStays ==
    ASSUME Asked, UNCHANGED <<pending, unsettled, posts, check>>,
           submitDisabled' = submitDisabled \/ formScope
    PROVE  Asked'
  BY DEF Asked, Out, PendingKept, formScope

\* The service answers, or an answer is lost.
LEMMA AskedAnswered ==
    ASSUME Types, Asked, UNCHANGED <<pending, unsettled, submitDisabled>>,
           \A s \in Slots : posts'[s] = posts[s]
                            \/ (Out(s) /\ Out(s)' /\ posts'[s].id = posts[s].id),
           check' = check \/ (check # Idle /\ check' = Failed)
                          \/ (check.stage = "sent" /\ check' = Found(check.id))
    PROVE  Asked'
  <1>1. \A s \in Slots : Out(s)' => Out(s) /\ posts'[s].id = posts[s].id
    BY DEF Out
  <1>2. check = Idle => check' = Idle
    BY DEF Idle
  <1>3. check'.stage \in {"sent", "found"} => check.stage \in {"sent", "found"} /\ check'.id = check.id
    BY DEF Failed, Found
  <1> QED  BY <1>1, <1>2, <1>3 DEF Asked, PendingKept

\* Every step keeps what is known of a submission in doubt.
LEMMA NextAsked ==
    ASSUME TaskPageAssumption, ~Impatient, Types, Asked, [Next]_vars
    PROVE  Asked'
  <1>1. CASE \E s \in Slots : Submits(s)
    <2> PICK s \in Slots : Submits(s)
      BY <1>1
    <2>1. posts'[s].id = posts[s].id /\ posts[s].stage = "sent" /\ posts'[s].stage # "idle"
      BY DEF Submits, Types, Found, Unanswered
    <2> QED  BY <2>1, AskedAnswered DEF Submits, Types, Out, page
  <1>2. CASE Looks
    <2>1. check # Idle
      BY <1>2 DEF Looks, Idle
    <2> QED  BY <1>2, <2>1, AskedAnswered DEF Looks, page
  <1>3. CASE Loses
    <2>1. check.stage \in {"sent", "found"} => check # Idle
      BY DEF Idle
    <2>2. \A s \in Slots : posts'[s] = posts[s]
                           \/ (Out(s) /\ Out(s)' /\ posts'[s].id = posts[s].id)
      BY <1>3 DEF Loses, Types, Out, Unanswered
    <2> QED  BY <1>3, <2>1, <2>2, AskedAnswered DEF Loses, page
  <1>4. CASE \E s \in Slots : submit(s) \/ Retry(s)
    <2> PICK s \in Slots, t \in payload \cup retry :
               /\ submit(s) \/ Retry(s)
               /\ posts[s] = Idle
               /\ posts' = [posts EXCEPT ![s] = Post(t.id, t.text)]
               /\ pending' = t /\ unsettled' = unsettled \cup {t.id}
               /\ formScope /\ UNCHANGED check
               /\ ~submitDisabled \/ t = pending
      BY <1>4 DEF submit, Retry, Send, retry
    <2>1. t # None
      BY OneOfIsIn DEF payload, retry, TaskPageAssumption, Types, TypeOK
    <2>2. check = Idle /\ \A r \in Slots : ~Out(r)
      <3>1. CASE ~submitDisabled
        BY <3>1 DEF Asked
      <3>2. CASE Retry(s)
        <4>1. check.stage = "idle" => check = Idle
          BY DEF Types, CheckRecord, Failed
        <4> QED  BY <3>2, <4>1 DEF Retry, Overlapping, Out
      <3> QED  BY <3>1, <3>2 DEF submit
    <2>3. unsettled' \subseteq {t.id}
      BY DEF Asked, PendingKept
    <2>4. \A r \in Slots : Out(r)' => r = s /\ posts'[r].id = t.id
      BY <2>2 DEF Out, Post, Types
    <2> QED  BY <2>1, <2>2, <2>3, <2>4 DEF Asked, PendingKept, formScope, Idle
  <1>5. CASE \E s \in Slots : Submitted(s) \/ NotSubmitted(s)
    <2> PICK s \in Slots : Submitted(s) \/ NotSubmitted(s)
      BY <1>5
    <2>1. Out(s) /\ check = Idle /\ pending # None /\ pending.id = posts[s].id
      BY DEF Asked, Out, Submitted, NotSubmitted
    <2>2. UNCHANGED check /\ \A r \in Slots : ~Out(r)'
      <3>1. posts' = [posts EXCEPT ![s] = Idle] /\ UNCHANGED check
        BY DEF Submitted, NotSubmitted
      <3>2. \A r \in Slots : r # s => posts'[r].stage = "idle"
        BY <2>1, <3>1 DEF Asked, Out, Types
      <3>3. posts'[s].stage = "idle"
        BY <3>1 DEF Idle, Types
      <3> QED  BY <3>1, <3>2, <3>3 DEF Out
    <2>3. \/ pending' = None /\ unsettled' = unsettled \ {pending.id}
          \/ pending' = pending /\ unsettled' = unsettled
      BY <2>1 DEF Submitted, NotSubmitted
    <2>4. pending' # None => submitDisabled'
      BY DEF Submitted, NotSubmitted, formScope
    <2> QED  BY <2>1, <2>2, <2>3, <2>4 DEF Asked, PendingKept, Idle
  <1>6. CASE checkPending
    <2>1. \A s \in Slots : ~Out(s)
      BY <1>6 DEF checkPending, Overlapping, Out
    <2>2. check' = Ask(pending.id) /\ pending # None /\ UNCHANGED <<pending, unsettled, submitDisabled, posts>>
      BY <1>6 DEF checkPending, page
    <2> QED  BY <2>1, <2>2 DEF Asked, Out, PendingKept, Ask
  <1>7. CASE Checked
    <2>1. check # Idle /\ pending # None
      BY <1>7 DEF Checked, Asked, Idle
    <2>2. \A s \in Slots : ~Out(s)
      BY <2>1 DEF Asked
    <2>3. check' = Idle /\ UNCHANGED <<posts, submitDisabled>>
      BY <1>7 DEF Checked
    <2>4. \/ pending' = None /\ unsettled' = unsettled \ {pending.id}
          \/ pending' = pending /\ unsettled' = unsettled
      BY <1>7, <2>1 DEF Checked, Asked
    <2> QED  BY <2>1, <2>2, <2>3, <2>4 DEF Asked, Out, PendingKept, Idle
  <1>8. CASE \/ Lists \/ Acts \/ (\E id \in IDs : Progresses(id)) \/ Refresh \/ Select \/ Refreshed
             \/ Acted \/ (\E v \in {"logs", "probe", "resolve"} : taskAction(v))
             \/ (\E mode \in Modes : Filter(mode)) \/ UNCHANGED vars
    BY <1>8, AskedStays DEF Lists, Acts, Progresses, Refresh, Select, Refreshed, Acted, taskAction,
                Filter, vars, page, net
  <1> QED  BY <1>1, <1>2, <1>3, <1>4, <1>5, <1>6, <1>7, <1>8 DEF Next, Service, Reader, Answers

\* A submission whose outcome the page was not told is the pending one, so that
\* it can be asked for or repeated; for a reader who waits for answers
\* (tasks.js:172-200).
THEOREM SubmissionsKept ==
    ASSUME TaskPageAssumption, ~Impatient
    PROVE  Spec => []PendingKept
  <1>1. Init => Types /\ Asked
    <2> SUFFICES ASSUME Init PROVE Asked
      BY InitTypes
    <2>1. \A s \in Slots : ~Out(s)
      BY DEF Init, Out, Idle
    <2>2. check = Idle /\ check.stage = "idle"
      BY DEF Init, Idle
    <2> QED  BY <2>1, <2>2 DEF Init, Asked, PendingKept
  <1>2. Types /\ Asked /\ [Next]_vars => (Types /\ Asked)'
    BY NextTypes, NextAsked
  <1>3. Asked => PendingKept
    BY DEF Asked
  <1> QED  BY <1>1, <1>2, <1>3, PTL DEF Spec

-----------------------------------------------------------------------------
(* One refresh at a time, and what it answers lies between the list on the  *)
(* page and the service.                                                    *)

NoOlder(js, ts) == \A id \in IDs : Rank[ts[id].status] >= Rank[js[id].status]
OneRefresh ==
    /\ \A r, q \in lists : r = q
    /\ ~refreshing => lists = {}
    /\ NoOlder(jobs, tasks)
    /\ \A r \in lists : r.stage = "found" => NoOlder(jobs, r.tasks) /\ NoOlder(r.tasks, tasks)

\* The rank of a status is a number.
LEMMA RankOfStatus ==
    /\ \A ts \in Tasks, id \in IDs : Rank[ts[id].status] \in Nat
    /\ Rank["absent"] = 0 /\ Rank["running"] = 1 /\ Rank["unknown"] = 1 /\ Rank["finished"] = 2
  BY DEF Tasks, Task, Absent, Statuses, Rank

LEMMA NoOlderChain ==
    ASSUME NEW a \in Tasks, NEW b \in Tasks, NEW c \in Tasks, NoOlder(a, b), NoOlder(b, c)
    PROVE  NoOlder(a, c)
  <1> SUFFICES ASSUME NEW id \in IDs PROVE Rank[c[id].status] >= Rank[a[id].status]
    BY DEF NoOlder
  <1>1. Rank[b[id].status] >= Rank[a[id].status] /\ Rank[c[id].status] >= Rank[b[id].status]
    BY DEF NoOlder
  <1> QED  BY <1>1, RankOfStatus

LEMMA NoOlderItself ==
    ASSUME NEW a \in Tasks
    PROVE  NoOlder(a, a)
  BY RankOfStatus DEF NoOlder

\* The service only moves on.
LEMMA TasksMoveOn ==
    ASSUME TaskPageAssumption, Types, [Next]_vars
    PROVE  NoOlder(tasks, tasks')
  <1> SUFFICES ASSUME NEW id \in IDs PROVE Rank[tasks'[id].status] >= Rank[tasks[id].status]
    BY DEF NoOlder
  <1>1. Rank[tasks[id].status] \in Nat /\ tasks[id] \in Task
    BY RankOfStatus DEF Types, TypeOK, Tasks
  <1>2. CASE tasks'[id] = tasks[id]
    BY <1>1, <1>2
  <1>3. CASE \E s \in Slots : Submits(s) /\ tasks'[id] # tasks[id]
    <2>1. tasks[id] = Absent /\ tasks'[id].status = "running"
      BY <1>3 DEF Submits, Types, TypeOK, Tasks
    <2> QED  BY <2>1, RankOfStatus DEF Absent
  <1>4. CASE (Acts \/ \E i \in IDs : Progresses(i)) /\ tasks'[id] # tasks[id]
    <2>1. tasks[id].status \in {"running", "unknown"} /\ tasks'[id].status \in Statuses
      BY <1>1, <1>4 DEF Acts, Progresses, Types, TypeOK, Tasks, Task, Absent, Statuses
    <2> QED  BY <2>1, RankOfStatus DEF Statuses
  <1>5. CASE tasks' = tasks
    BY <1>2, <1>5
  <1> QED  BY <1>2, <1>3, <1>4, <1>5 DEF Next, Service, Reader, Answers, Looks, Lists, Loses, Refresh,
        checkPending, Select, taskAction, Filter, Refreshed, Checked, Acted, submit, Retry, Send,
        Submitted, NotSubmitted, vars

\* What happens to the lists: nothing, a question, an answer, a loss, an end.
LEMMA ListsMove ==
    ASSUME Types, OneRefresh, [Next]_vars
    PROVE  \/ UNCHANGED <<lists, refreshing, jobs>>
           \/ /\ UNCHANGED <<refreshing, jobs>> /\ lists # {}
              /\ lists' = {Failed} \/ lists' = {[stage |-> "found", tasks |-> tasks]}
           \/ lists' = {Ask(None)} /\ refreshing' /\ UNCHANGED jobs
           \/ lists' = {} /\ \/ UNCHANGED jobs
                             \/ \E r \in lists : r.stage = "found" /\ jobs' = r.tasks
  <1>1. refresh => UNCHANGED <<lists, refreshing>> \/ (lists' = {Ask(None)} /\ refreshing')
    BY DEF refresh, OneRefresh
  <1>2. \A r \in lists : lists \ {r} = {}
    BY DEF OneRefresh
  <1>3. CASE Lists \/ Loses
    BY <1>2, <1>3 DEF Lists, Loses, page
  <1>4. CASE Refreshed
    BY <1>2, <1>4 DEF Refreshed
  <1>5. CASE Refresh \/ Checked \/ Acted \/ \E s \in Slots : Submitted(s)
    BY <1>1, <1>5 DEF Refresh, Checked, Acted, Submitted
  <1>6. CASE \/ (\E s \in Slots : Submits(s)) \/ Looks \/ Acts \/ (\E id \in IDs : Progresses(id))
             \/ (\E s \in Slots : submit(s) \/ Retry(s) \/ NotSubmitted(s))
             \/ checkPending \/ Select \/ UNCHANGED vars
             \/ (\E v \in {"logs", "probe", "resolve"} : taskAction(v))
             \/ (\E mode \in Modes : Filter(mode))
    BY <1>6 DEF Submits, Looks, Acts, Progresses, submit, Retry, Send, NotSubmitted, checkPending,
                Select, taskAction, Filter, vars, page, net
  <1> QED  BY <1>3, <1>4, <1>5, <1>6 DEF Next, Service, Reader, Answers

\* Every step keeps one refresh under way, and its answer no older than the list.
LEMMA NextRefresh ==
    ASSUME TaskPageAssumption, Types, OneRefresh, [Next]_vars
    PROVE  OneRefresh' /\ NoOlder(jobs, jobs')
  <1>1. Types' /\ NoOlder(tasks, tasks')
    BY NextTypes, TasksMoveOn
  <1>2. tasks \in Tasks /\ tasks' \in Tasks /\ jobs \in Tasks /\ jobs' \in Tasks
        /\ \A r \in lists : r.stage = "found" => r.tasks \in Tasks
    BY <1>1 DEF Types, TypeOK, ListRecord, Failed, Ask
  <1>3. NoOlder(jobs, jobs') /\ NoOlder(jobs', tasks)
    BY <1>2, ListsMove, NoOlderItself DEF OneRefresh
  <1>4. NoOlder(jobs', tasks')
    BY <1>1, <1>2, <1>3, NoOlderChain
  <1>5. \A r \in lists' : r.stage = "found" =>
            \/ UNCHANGED jobs /\ r \in lists
            \/ UNCHANGED jobs /\ r.tasks = tasks
    BY ListsMove DEF Failed, Ask
  <1>6. \A r \in lists' : r.stage = "found" => NoOlder(jobs', r.tasks) /\ NoOlder(r.tasks, tasks)
    BY <1>2, <1>3, <1>5, NoOlderItself DEF OneRefresh
  <1>7. \A r \in lists' : r.stage = "found" => NoOlder(r.tasks, tasks')
    BY <1>1, <1>2, <1>5, <1>6, NoOlderChain
  <1>8. (\A r, q \in lists' : r = q) /\ (~refreshing' => lists' = {})
    BY ListsMove DEF OneRefresh
  <1> QED  BY <1>3, <1>4, <1>6, <1>7, <1>8 DEF OneRefresh

\* No list the page shows is older than the one before (tasks.js:148-162).
THEOREM ListsGoOn ==
    ASSUME TaskPageAssumption
    PROVE  Spec => [][GoesOn]_vars
  <1>1. Init => Types /\ OneRefresh
    <2> SUFFICES ASSUME Init PROVE OneRefresh
      BY InitTypes
    <2>1. NoOlder(jobs, tasks)
      BY InitTypes, NoOlderItself DEF Init, Types, TypeOK
    <2> QED  BY <2>1 DEF Init, OneRefresh, Ask
  <1>2. Types /\ OneRefresh /\ [Next]_vars => (Types /\ OneRefresh)' /\ [GoesOn]_vars
    BY NextTypes, NextRefresh DEF GoesOn, NoOlder
  <1> QED  BY <1>1, <1>2, PTL DEF Spec

-----------------------------------------------------------------------------
\* The logs drawn beside the selected task are that task's, although they were
\* asked for before the selection moved (tasks.js:207).
THEOREM LogsMatch ==
    ASSUME TaskPageAssumption
    PROVE  Spec => []LogsMatchSelection
  <1> DEFINE Own == logs # None => logs.of = logs.id
  <1>1. Init => Own
    BY DEF Init
  <1>2. Own /\ [Next]_vars => Own'
    <2> SUFFICES ASSUME Own, [Next]_vars PROVE Own'
      OBVIOUS
    <2>1. CASE UNCHANGED logs \/ logs' = None
      BY <2>1
    <2>2. CASE Acted
      BY <2>2 DEF Acted
    <2> QED  BY <2>1, <2>2 DEF Next, Service, Reader, Answers, Submits, Looks, Lists, Acts,
          Progresses, Loses, Refresh, submit, Retry, Send, checkPending, Select, taskAction, Filter,
          Refreshed, Checked, Submitted, NotSubmitted, vars, page
  <1>3. Own => LogsMatchSelection
    BY DEF LogsMatchSelection, ShownLogs
  <1> QED  BY <1>1, <1>2, <1>3, PTL DEF Spec

-----------------------------------------------------------------------------
(* The time axis.                                                           *)

\* A set of naturals that is not empty has a least element; below a bound it
\* has a greatest one too.
LEMMA LeastOf ==
    ASSUME NEW T, T \subseteq Nat, T # {}
    PROVE  \E x \in T : \A y \in T : x <= y
  <1>1. PICK x \in T : \A y \in T : ~ (<<y, x>> \in OpToRel(<, Nat))
    BY WFMin, NatLessThanWellFounded, Zenon
  <1>2. ASSUME NEW y \in T PROVE x <= y
    <2>1. y \in Nat /\ x \in Nat
      OBVIOUS
    <2>2. <<y, x>> \in Nat \X Nat /\ <<y, x>>[1] = y /\ <<y, x>>[2] = x
      BY <2>1
    <2>3. ~(y < x)
      BY <1>1, <2>2 DEF OpToRel
    <2> QED  BY <2>1, <2>3
  <1> QED  BY <1>2

LEMMA GreatestOf ==
    ASSUME NEW at \in Nat, NEW T, T \subseteq 0 .. at, T # {}
    PROVE  \E x \in T : \A y \in T : y <= x
  <1> DEFINE U == {n \in Nat : \E t \in T : n = at - t}
  <1>1. \A t \in T : t \in Nat /\ at - t \in U
    OBVIOUS
  <1>2. U \subseteq Nat /\ U # {}
    BY <1>1
  <1>3. PICK u \in U : \A v \in U : u <= v
    <2> HIDE DEF U
    <2> QED  BY <1>2, LeastOf
  <1>4. PICK x \in T : u = at - x
    BY <1>3
  <1>5. \A y \in T : u <= at - y
    BY <1>1, <1>3
  <1> QED  BY <1>1, <1>4, <1>5

RecordsAt(at) == [created: 0 .. at, finished: 0 .. at \cup {None}, events: SUBSET (0 .. at)]
There(js) == {j \in Bars : js[j] # None}
PastAt(js, at) == at \in Nat /\ DOMAIN js = Bars /\ \A j \in There(js) : js[j] \in RecordsAt(at)
\* What is recorded lies in the past, and the board shows a part of what there
\* is, also when the clock has gone on since it was drawn.
Past == PastAt(jobs, now)
Within(v, b) == b.start <= v.start /\ v.start <= v.end /\ v.end <= b.end
StillWithin == view # None /\ Axis!Present # {} => Within(view, Axis!Range)
AxisInv ==
    /\ Past /\ StillWithin
    /\ Axis!TypeOK /\ Axis!ViewInside /\ Axis!FitShowsEverything /\ Axis!ZoomKeepsTime

LEMMA MarksArePast ==
    ASSUME NEW js, NEW at, PastAt(js, at)
    PROVE  /\ Axis!Marks(js, at) \subseteq 0 .. at
           /\ \A j \in There(js) : Axis!eventsFor(js[j]) \subseteq Axis!Marks(js, at)
           /\ \A j \in There(js) : js[j].created \in Axis!Marks(js, at)
  <1>1. ASSUME NEW j \in There(js)
        PROVE  Axis!eventsFor(js[j]) \subseteq 0 .. at /\ js[j].created \in Axis!eventsFor(js[j])
    BY DEF PastAt, RecordsAt, Axis!eventsFor
  <1> QED  BY <1>1 DEF Axis!Marks, There, PastAt

\* The extent is at least a second long, and holds every event.
LEMMA ExtentHolds ==
    ASSUME Axis!TimelineAssumption, NEW js, NEW at, PastAt(js, at)
    PROVE  LET b == Axis!extent(js, at) IN
           /\ b \in Axis!Views /\ Axis!Span(b) >= Second
           /\ \A t \in Axis!Marks(js, at) : b.start <= t /\ t <= b.end
  <1> DEFINE marks == Axis!Marks(js, at)
  <1>0. Second \in Nat \ {0} /\ Hour \in Nat /\ Hour >= Second /\ at \in Nat
    BY DEF Axis!TimelineAssumption, PastAt
  <1>1. marks \subseteq 0 .. at /\ marks \subseteq Nat
    BY MarksArePast
  <1>2. CASE marks = {}
    <2>1. Axis!extent(js, at) = [start |-> at - Hour, end |-> at]
      BY <1>2 DEF Axis!extent
    <2> QED  BY <1>0, <1>2, <2>1 DEF Axis!Views, Axis!Span
  <1>3. CASE marks # {}
    <2> DEFINE f == Axis!First(marks)
               l == Axis!Last(marks)
    <2>1. f \in marks /\ \A t \in marks : f <= t
      <3> HIDE DEF marks
      <3>1. \E t \in marks : \A u \in marks : t <= u
        BY <1>1, <1>3, LeastOf
      <3> QED  BY <3>1 DEF Axis!First
    <2>2. l \in marks /\ \A t \in marks : t <= l
      <3> HIDE DEF marks
      <3>1. \E t \in marks : \A u \in marks : u <= t
        BY <1>0, <1>1, <1>3, GreatestOf
      <3> QED  BY <3>1 DEF Axis!Last
    <2>3. Axis!extent(js, at) = [start |-> f, end |-> Axis!Larger(l, f + Second)]
      BY <1>3 DEF Axis!extent
    <2> HIDE DEF f, l, marks
    <2>4. f \in Nat /\ l \in Nat
      BY <1>1, <2>1, <2>2
    <2> QED  BY <1>0, <1>1, <2>1, <2>2, <2>3, <2>4 DEF Axis!Views, Axis!Span, Axis!Larger, marks
  <1> QED  BY <1>2, <1>3

\* clamp() moves a view into the extent.
LEMMA Clamped ==
    ASSUME Axis!TimelineAssumption, NEW b \in Axis!Views, Axis!Span(b) >= Second,
           NEW v \in Axis!Views
    PROVE  LET w == Axis!clamp(v, b) IN
           /\ w \in Axis!Views /\ Within(w, b) /\ Axis!Span(w) >= Second
  BY DEF Axis!TimelineAssumption, Axis!Views, Axis!Span, Axis!clamp, Axis!Smaller, Axis!Larger,
         Within

\* The board, when it is drawn.
LEMMA Draws ==
    ASSUME Axis!TimelineAssumption, Past', UNCHANGED now, NEW v \in Axis!Views \cup {None},
           Axis!renderBoard(v, jobs', now)
    PROVE  /\ bounds' \in Axis!Views /\ drawn' \in Axis!Views /\ view' \in Axis!Views \cup {None}
           /\ StillWithin' /\ Axis!ViewInside' /\ Axis!FitShowsEverything'
           /\ v # None => drawn' = Axis!clamp(v, Axis!Range')
           /\ v = None => drawn' = Axis!Range'
  <1>0. Second \in Nat \ {0} /\ None \notin Axis!Views
    BY DEF Axis!TimelineAssumption, Axis!Views
  <1>1. bounds' = Axis!Range' /\ bounds' = Axis!extent(jobs', now) /\ PastAt(jobs', now)
    BY DEF Axis!renderBoard, Axis!Range, Past
  <1>2. /\ bounds' \in Axis!Views /\ Axis!Span(bounds)' >= Second
        /\ \A t \in Axis!Marks(jobs', now) : bounds'.start <= t /\ t <= bounds'.end
    BY <1>1, ExtentHolds DEF Axis!Span
  <1>3. Axis!FitShowsEverything'
    <2>1. ASSUME NEW j \in Axis!Present'
          PROVE  Axis!eventsFor(jobs'[j]) \subseteq Axis!Marks(jobs', now)
      BY <1>1, <2>1, MarksArePast DEF There, Axis!Present
    <2> QED  BY <1>2, <2>1 DEF Axis!FitShowsEverything
  <1>4. CASE v = None
    <2>1. view' = None /\ drawn' = bounds'
      BY <1>4 DEF Axis!renderBoard
    <2> QED  BY <1>0, <1>1, <1>2, <1>3, <1>4, <2>1
             DEF StillWithin, Axis!ViewInside, Axis!Span, Axis!Views
  <1>5. CASE v # None
    <2>1. view' = Axis!clamp(v, bounds') /\ drawn' = view'
      BY <1>5 DEF Axis!renderBoard
    <2>2. view' \in Axis!Views /\ Within(view', bounds') /\ Axis!Span(view') >= Second
      BY <1>2, <1>5, <2>1, Clamped DEF Axis!Span
    <2>3. StillWithin'
      BY <1>1, <2>2 DEF StillWithin, Within
    <2>4. Axis!ViewInside'
      BY <2>1, <2>2 DEF Axis!ViewInside, Axis!Span, Within
    <2> QED  BY <1>0, <1>1, <1>2, <1>3, <1>5, <2>1, <2>2, <2>3, <2>4
  <1> QED  BY <1>4, <1>5

\* When a second has passed, the extent of the tasks there are has not shrunk.
LEMMA ExtentGrows ==
    ASSUME Axis!TimelineAssumption, NEW js, NEW at, PastAt(js, at), There(js) # {}
    PROVE  /\ Axis!extent(js, at + Second).start <= Axis!extent(js, at).start
           /\ Axis!extent(js, at).end <= Axis!extent(js, at + Second).end
  <1> DEFINE old == Axis!Marks(js, at)
             new == Axis!Marks(js, at + Second)
             f(ts) == Axis!First(ts)
             l(ts) == Axis!Last(ts)
  <1>0. Second \in Nat \ {0} /\ at \in Nat /\ at + Second \in Nat
    BY DEF Axis!TimelineAssumption, PastAt
  <1>a. PastAt(js, at + Second)
    <2>1. RecordsAt(at) \subseteq RecordsAt(at + Second)
      <3>1. 0 .. at \subseteq 0 .. at + Second
        BY <1>0
      <3> QED  BY <3>1 DEF RecordsAt
    <2> QED  BY <1>0, <2>1 DEF PastAt
  <1>1. old \subseteq 0 .. at /\ new \subseteq 0 .. at + Second
    BY <1>a, MarksArePast
  <1>2. /\ \A t \in old : t \in new \/ (t = at /\ at + Second \in new)
        /\ \A t \in new : t \in old \/ t = at + Second
    BY DEF Axis!Marks
  <1>3. PICK c : c \in old /\ c \in new
    BY <1>a, MarksArePast
  <1> HIDE DEF old, new
  <1>4. /\ f(old) \in old /\ (\A t \in old : f(old) <= t)
        /\ f(new) \in new /\ (\A t \in new : f(new) <= t)
    <2>1. (\E t \in old : \A u \in old : t <= u) /\ (\E t \in new : \A u \in new : t <= u)
      <3>1. old \subseteq Nat /\ new \subseteq Nat
        BY <1>1
      <3> QED  BY <1>3, <3>1, LeastOf
    <2> QED  BY <2>1 DEF Axis!First
  <1>5. /\ l(old) \in old /\ (\A t \in old : t <= l(old))
        /\ l(new) \in new /\ (\A t \in new : t <= l(new))
    <2>1. (\E t \in old : \A u \in old : u <= t) /\ (\E t \in new : \A u \in new : u <= t)
      BY <1>0, <1>1, <1>3, GreatestOf
    <2> QED  BY <2>1 DEF Axis!Last
  <1>6. /\ Axis!extent(js, at) = [start |-> f(old), end |-> Axis!Larger(l(old), f(old) + Second)]
        /\ Axis!extent(js, at + Second) = [start |-> f(new), end |-> Axis!Larger(l(new), f(new) + Second)]
    BY <1>3 DEF Axis!extent, old, new
  <1> HIDE DEF f, l
  <1>7. f(old) \in 0 .. at /\ f(new) \in 0 .. at + Second /\ l(old) \in 0 .. at
        /\ l(new) \in 0 .. at + Second /\ c \in 0 .. at
    BY <1>1, <1>3, <1>4, <1>5
  <1>8. f(new) = f(old)
    <2>1. f(old) <= c /\ f(new) <= c
      BY <1>3, <1>4
    <2>2. f(new) \in old
      BY <1>0, <1>2, <1>4, <1>7, <2>1
    <2>3. f(old) \in new \/ f(old) = at
      BY <1>2, <1>4
    <2>4. f(old) <= f(new)
      BY <1>4, <2>2
    <2>5. CASE f(old) \in new
      BY <1>4, <1>7, <2>4, <2>5
    <2>6. CASE f(old) = at
      BY <1>7, <2>1, <2>4, <2>6
    <2> QED  BY <2>3, <2>5, <2>6
  <1>9. l(old) <= l(new)
    <2>1. l(old) \in new \/ (l(old) = at /\ at + Second \in new)
      BY <1>2, <1>5
    <2> QED  BY <1>0, <1>5, <1>7, <2>1
  <1> QED  BY <1>0, <1>6, <1>7, <1>8, <1>9 DEF Axis!Larger

\* A zoom keeps the time under the mouse in sight.
LEMMA Zoomed ==
    ASSUME Axis!TimelineAssumption, NEW b \in Axis!Views, Axis!Span(b) >= Second,
           NEW v \in Axis!Views, Within(v, b), NEW fac \in Axis!Factors, NEW a \in 0 .. 2
    PROVE  LET w == Axis!zoom(v, b, fac[1], fac[2], a) IN
           /\ w \in Axis!Views /\ Axis!Anchor(v, a) \in Int
           /\ 2 * w.start <= Axis!Anchor(v, a) /\ Axis!Anchor(v, a) <= 2 * w.end
  <1>0. /\ Second \in Nat \ {0} /\ b.start \in Int /\ b.end \in Int /\ v.start \in Int /\ v.end \in Int
        /\ b.start <= v.start /\ v.start <= v.end /\ v.end <= b.end /\ b.end - b.start >= Second
    BY DEF Axis!TimelineAssumption, Axis!Views, Axis!Span, Within
  <1> DEFINE scaled == (Axis!Span(v) * fac[1]) \div fac[2]
             span == Axis!Larger(Second, Axis!Smaller(Axis!Span(b), scaled))
             from == (Axis!Anchor(v, a) - span * a) \div 2
             w == Axis!clamp([start |-> from, end |-> from + span], b)
  <1>1. scaled \in Int
    <2>1. Axis!Span(v) \in Int
      BY <1>0 DEF Axis!Span
    <2>2. fac = <<1, 2>> \/ fac = <<2, 1>>
      BY DEF Axis!Factors
    <2> QED  BY <2>1, <2>2
  <1>2. span \in Int /\ Second <= span /\ span <= b.end - b.start
    <2> HIDE DEF scaled
    <2> QED  BY <1>0, <1>1 DEF Axis!Larger, Axis!Smaller, Axis!Span
  <1>3. a = 0 \/ a = 1 \/ a = 2
    OBVIOUS
  <1>4. /\ a = 0 => Axis!Anchor(v, a) = 2 * v.start
        /\ a = 1 => Axis!Anchor(v, a) = v.start + v.end
        /\ a = 2 => Axis!Anchor(v, a) = 2 * v.end
    BY <1>0 DEF Axis!Anchor, Axis!Span
  <1>5. /\ Axis!Anchor(v, a) \in Int
        /\ 2 * b.start <= Axis!Anchor(v, a) /\ Axis!Anchor(v, a) <= 2 * b.end
    BY <1>0, <1>3, <1>4
  <1>6. /\ from \in Int
        /\ 2 * from <= Axis!Anchor(v, a) /\ Axis!Anchor(v, a) <= 2 * (from + span)
    <2> HIDE DEF span
    <2>1. CASE a = 0
      <3>1. from = v.start
        BY <1>0, <1>2, <1>4, <2>1
      <3> QED  BY <1>0, <1>2, <1>4, <2>1, <3>1
    <2>2. CASE a = 1
      <3>0. span * a = span
        BY <1>2, <2>2
      <3>1. Axis!Anchor(v, a) = v.start + v.end
        BY <1>4, <2>2
      <3>2. from = (v.start + v.end - span) \div 2
        BY <1>0, <1>2, <3>0, <3>1
      <3> QED  BY <1>0, <1>2, <1>4, <2>2, <3>2
    <2>3. CASE a = 2
      <3>1. from = v.end - span
        BY <1>0, <1>2, <1>4, <2>3
      <3> QED  BY <1>0, <1>2, <1>4, <2>3, <3>1
    <2> QED  BY <1>3, <2>1, <2>2, <2>3
  <1> HIDE DEF from, span
  <1>7. /\ w \in Axis!Views
        /\ w.start = Axis!Larger(b.start, Axis!Smaller(b.end - span, from)) /\ w.end = w.start + span
    BY <1>0, <1>2, <1>6 DEF Axis!clamp, Axis!Views, Axis!Span, Axis!Larger, Axis!Smaller
  <1>8. 2 * w.start <= Axis!Anchor(v, a) /\ Axis!Anchor(v, a) <= 2 * w.end
    BY <1>0, <1>2, <1>5, <1>6, <1>7 DEF Axis!Larger, Axis!Smaller
  <1>9. w = Axis!zoom(v, b, fac[1], fac[2], a)
    BY DEF Axis!zoom, span, from
  <1> QED  BY <1>5, <1>7, <1>8, <1>9

\* A view inside the extent is not moved, and every zoom ends in such a view.
LEMMA ClampedStays ==
    ASSUME Axis!TimelineAssumption, NEW b \in Axis!Views, NEW v \in Axis!Views,
           Within(v, b), Axis!Span(v) >= Second
    PROVE  Axis!clamp(v, b) = v
  <1>1. /\ Axis!clamp(v, b) = [start |-> v.start, end |-> v.start + (v.end - v.start)]
        /\ v.start + (v.end - v.start) = v.end
    BY DEF Axis!TimelineAssumption, Axis!Views, Axis!Span, Axis!clamp, Axis!Smaller, Axis!Larger,
           Within
  <1> QED  BY <1>1 DEF Axis!Views

LEMMA ZoomTyped ==
    ASSUME Axis!TimelineAssumption, NEW b \in Axis!Views, Axis!Span(b) >= Second,
           NEW v \in Axis!Views, NEW fac \in Axis!Factors, NEW a \in 0 .. 2
    PROVE  LET w == Axis!zoom(v, b, fac[1], fac[2], a) IN
           /\ w \in Axis!Views /\ Within(w, b) /\ Axis!Span(w) >= Second
           /\ Axis!Anchor(v, a) \in Int
  <1>0. Second \in Nat \ {0} /\ Axis!Span(v) \in Int /\ Axis!Span(b) \in Int /\ v.start \in Int
    BY DEF Axis!TimelineAssumption, Axis!Views, Axis!Span
  <1> DEFINE scaled == (Axis!Span(v) * fac[1]) \div fac[2]
             span == Axis!Larger(Second, Axis!Smaller(Axis!Span(b), scaled))
             from == (Axis!Anchor(v, a) - span * a) \div 2
  <1>1. scaled \in Int
    <2>1. fac = <<1, 2>> \/ fac = <<2, 1>>
      BY DEF Axis!Factors
    <2> QED  BY <1>0, <2>1
  <1>2. span \in Int
    <2> HIDE DEF scaled
    <2> QED  BY <1>0, <1>1 DEF Axis!Larger, Axis!Smaller
  <1>3. Axis!Anchor(v, a) \in Int
    BY <1>0 DEF Axis!Anchor
  <1>4. from \in Int
    <2> HIDE DEF span
    <2>1. span * a \in Int
      BY <1>2
    <2> QED  BY <1>3, <2>1
  <1> HIDE DEF from, span
  <1>5. [start |-> from, end |-> from + span] \in Axis!Views
    BY <1>2, <1>4 DEF Axis!Views
  <1>6. Axis!zoom(v, b, fac[1], fac[2], a) = Axis!clamp([start |-> from, end |-> from + span], b)
    BY DEF Axis!zoom, from, span
  <1> QED  BY <1>3, <1>5, <1>6, Clamped

\* What a redraw that changes neither the tasks nor the time leaves.
LEMMA ShowKeeps ==
    ASSUME Axis!TimelineAssumption, AxisInv, NEW v \in Axis!Views \cup {None},
           NEW at \in Int \cup {None}, Axis!Show(v, at),
           at # None => LET w == drawn' IN 2 * w.start <= at /\ at <= 2 * w.end
    PROVE  AxisInv'
  <1>1. UNCHANGED <<now, jobs>> /\ Axis!renderBoard(v, jobs, now) /\ pointed' = at
    BY DEF Axis!Show
  <1>2. Past' /\ Axis!renderBoard(v, jobs', now)
    BY <1>1 DEF AxisInv, Past
  <1>3. /\ bounds' \in Axis!Views /\ drawn' \in Axis!Views /\ view' \in Axis!Views \cup {None}
        /\ StillWithin' /\ Axis!ViewInside' /\ Axis!FitShowsEverything'
    BY <1>1, <1>2, Draws
  <1>4. Axis!TypeOK'
    BY <1>1, <1>3 DEF AxisInv, Axis!TypeOK, Axis!Present
  <1>5. Axis!ZoomKeepsTime'
    BY <1>1 DEF Axis!ZoomKeepsTime
  <1> QED  BY <1>2, <1>3, <1>4, <1>5 DEF AxisInv

LEMMA PastTyped ==
    ASSUME Past
    PROVE  /\ now \in Int
           /\ \A j \in Axis!Present : /\ jobs[j].created \in Int /\ jobs[j].finished \in Int \cup {None}
                                      /\ jobs[j].events \subseteq Int
  BY DEF Past, PastAt, RecordsAt, There, Axis!Present

LEMMA AxisInit == Axis!TimelineAssumption /\ Axis!Init => AxisInv
  <1> SUFFICES ASSUME Axis!TimelineAssumption, Axis!Init PROVE AxisInv
    OBVIOUS
  <1>1. Axis!Present = {} /\ There(jobs) = {}
    BY DEF Axis!Init, Axis!Present, There
  <1>2. Past /\ PastAt(jobs, now)
    BY <1>1 DEF Axis!Init, Axis!TimelineAssumption, Past, PastAt
  <1>3. bounds = Axis!Range /\ drawn = bounds /\ view = None /\ pointed = None
    BY DEF Axis!Init, Axis!Range
  <1>4. bounds \in Axis!Views /\ Axis!Span(bounds) >= Second
    BY <1>2, <1>3, ExtentHolds DEF Axis!Range
  <1>5. Second \in Nat \ {0}
    BY DEF Axis!TimelineAssumption
  <1>6. Axis!TypeOK
    BY <1>2, <1>3, <1>4, PastTyped DEF Axis!TypeOK
  <1>7. Axis!ViewInside
    BY <1>3, <1>4, <1>5 DEF Axis!ViewInside, Axis!Views, Axis!Span
  <1> QED  BY <1>1, <1>2, <1>3, <1>6, <1>7
           DEF AxisInv, StillWithin, Axis!FitShowsEverything, Axis!ZoomKeepsTime

\* The clock moves the end of the extent, and nothing that is drawn.
LEMMA AxisClock == Axis!TimelineAssumption /\ AxisInv /\ Axis!Clock => AxisInv'
  <1> SUFFICES ASSUME Axis!TimelineAssumption, AxisInv, Axis!Clock PROVE AxisInv'
    OBVIOUS
  <1>1. now' = now + Second /\ UNCHANGED <<jobs, view, drawn, bounds, pointed>>
    BY DEF Axis!Clock
  <1>2. Second \in Nat \ {0} /\ now \in Nat /\ None \notin Axis!Views
    BY DEF Axis!TimelineAssumption, Axis!Views, AxisInv, Past, PastAt
  <1>3. PastAt(jobs, now) /\ Axis!Present = There(jobs) /\ Axis!Present' = There(jobs)
    BY <1>1 DEF AxisInv, Past, Axis!Present, There
  <1>4. PastAt(jobs, now + Second)
    <2>1. 0 .. now \subseteq 0 .. now + Second /\ now + Second \in Nat
      BY <1>2
    <2>2. RecordsAt(now) \subseteq RecordsAt(now + Second)
      BY <2>1 DEF RecordsAt
    <2> QED  BY <1>3, <2>1, <2>2 DEF PastAt
  <1>5. Past'
    BY <1>1, <1>4 DEF Past
  <1>6. StillWithin'
    <2> SUFFICES ASSUME view # None, There(jobs) # {}
                 PROVE  Within(view, Axis!extent(jobs, now + Second))
      BY <1>1, <1>3 DEF StillWithin, Axis!Range
    <2> DEFINE old == Axis!extent(jobs, now)
               new == Axis!extent(jobs, now + Second)
    <2>1. Within(view, old)
      BY <1>3 DEF AxisInv, StillWithin, Axis!Range
    <2>2. new.start <= old.start /\ old.end <= new.end
      BY <1>3, ExtentGrows
    <2>3. old \in Axis!Views /\ new \in Axis!Views
      BY <1>3, <1>4, ExtentHolds
    <2>4. view \in Axis!Views
      BY DEF AxisInv, Axis!TypeOK
    <2> HIDE DEF old, new
    <2>5. Within(view, new)
      BY <2>1, <2>2, <2>3, <2>4 DEF Within, Axis!Views
    <2> QED  BY <2>5 DEF new
  <1>7. Axis!TypeOK'
    <2>1. now' \in Int
      BY <1>1, <1>2
    <2> QED  BY <1>1, <2>1 DEF AxisInv, Axis!TypeOK, Axis!Present
  <1>8. Axis!ViewInside' /\ Axis!FitShowsEverything' /\ Axis!ZoomKeepsTime'
    BY <1>1 DEF AxisInv, Axis!ViewInside, Axis!FitShowsEverything, Axis!ZoomKeepsTime, Axis!Present
  <1> QED  BY <1>5, <1>6, <1>7, <1>8 DEF AxisInv

LEMMA AxisRefresh == Axis!TimelineAssumption /\ AxisInv /\ Axis!Refresh => AxisInv'
  <1> SUFFICES ASSUME Axis!TimelineAssumption, AxisInv, Axis!Refresh PROVE AxisInv'
    OBVIOUS
  <1>1. Axis!renderBoard(view, jobs', now) /\ pointed' = None /\ UNCHANGED now
    BY DEF Axis!Refresh
  <1>2. PastAt(jobs, now) /\ now \in 0 .. now /\ None \notin Int
    BY DEF AxisInv, Past, PastAt, Axis!TimelineAssumption
  <1>3. Past'
    <2>1. ASSUME NEW j \in Bars, NEW r \in RecordsAt(now) \cup {None}, jobs' = [jobs EXCEPT ![j] = r]
          PROVE  Past'
      BY <1>1, <1>2, <2>1 DEF Past, PastAt, There
    <2>2. CASE \E j \in Bars \ Axis!Present :
                  jobs' = [jobs EXCEPT ![j] = [created |-> now, finished |-> None, events |-> {}]]
      <3>1. [created |-> now, finished |-> None, events |-> {}] \in RecordsAt(now)
        BY <1>2 DEF RecordsAt
      <3> QED  BY <2>1, <2>2, <3>1
    <2>3. ASSUME NEW j \in Axis!Present,
                 \/ jobs' = [jobs EXCEPT ![j].events = @ \cup {now}]
                 \/ jobs[j].finished = None /\ jobs' = [jobs EXCEPT ![j].finished = now]
                 \/ jobs[j].finished # None /\ jobs' = [jobs EXCEPT ![j] = None]
          PROVE  Past'
      <3>1. j \in Bars /\ jobs[j] \in RecordsAt(now)
        BY <1>2 DEF Axis!Present, PastAt, There
      <3>2. CASE jobs' = [jobs EXCEPT ![j].events = @ \cup {now}]
        <4>1. jobs' = [jobs EXCEPT ![j] = [jobs[j] EXCEPT !.events = @ \cup {now}]]
          BY <3>2
        <4>2. [jobs[j] EXCEPT !.events = @ \cup {now}] \in RecordsAt(now)
          BY <1>2, <3>1 DEF RecordsAt
        <4> QED  BY <2>1, <3>1, <4>1, <4>2
      <3>3. CASE jobs' = [jobs EXCEPT ![j].finished = now]
        <4>1. jobs' = [jobs EXCEPT ![j] = [jobs[j] EXCEPT !.finished = now]]
          BY <3>3
        <4>2. [jobs[j] EXCEPT !.finished = now] \in RecordsAt(now)
          BY <1>2, <3>1 DEF RecordsAt
        <4> QED  BY <2>1, <3>1, <4>1, <4>2
      <3> QED  BY <2>1, <2>3, <3>1, <3>2, <3>3
    <2> QED  BY <2>2, <2>3 DEF Axis!Refresh
  <1>4. view \in Axis!Views \cup {None}
    BY DEF AxisInv, Axis!TypeOK
  <1>5. /\ bounds' \in Axis!Views /\ drawn' \in Axis!Views /\ view' \in Axis!Views \cup {None}
        /\ StillWithin' /\ Axis!ViewInside' /\ Axis!FitShowsEverything'
    BY <1>1, <1>3, <1>4, Draws
  <1>6. /\ now' \in Int
        /\ \A j \in Axis!Present' : /\ jobs'[j].created \in Int
                                    /\ jobs'[j].finished \in Int \cup {None}
                                    /\ jobs'[j].events \subseteq Int
    BY <1>3 DEF Past, PastAt, RecordsAt, There, Axis!Present
  <1>7. Axis!TypeOK'
    BY <1>1, <1>5, <1>6 DEF Axis!TypeOK
  <1>8. Axis!ZoomKeepsTime'
    BY <1>1 DEF Axis!ZoomKeepsTime
  <1> QED  BY <1>3, <1>5, <1>7, <1>8 DEF AxisInv

\* What the buttons, a drag and the wheel make of the view is a view.
LEMMA AxisMoves ==
    Axis!TimelineAssumption /\ AxisInv /\ [Axis!Next]_(Axis!vars) => AxisInv'
  <1> SUFFICES ASSUME Axis!TimelineAssumption, AxisInv, [Axis!Next]_(Axis!vars) PROVE AxisInv'
    OBVIOUS
  <1>0. /\ Second \in Nat \ {0} /\ None \notin Axis!Views /\ None \in Axis!Views \cup {None}
        /\ None \in Int \cup {None}
    BY DEF Axis!TimelineAssumption, Axis!Views
  <1>1. Axis!Range \in Axis!Views /\ Axis!Span(Axis!Range) >= Second
    BY ExtentHolds DEF AxisInv, Past, Axis!Range
  <1>2. Axis!Viewed \in Axis!Views /\ view \in Axis!Views \cup {None}
    BY <1>1 DEF AxisInv, Axis!TypeOK, Axis!Viewed
  <1>3. ASSUME NEW v \in Axis!Views \cup {None}, Axis!Show(v, None) PROVE AxisInv'
    BY <1>0, <1>3, ShowKeeps
  <1>4. ASSUME NEW v \in Axis!Views, Axis!Show(Axis!clamp(v, Axis!Range), None) PROVE AxisInv'
    <2>1. Axis!clamp(v, Axis!Range) \in Axis!Views
      BY <1>1, Clamped
    <2> QED  BY <1>3, <1>4, <2>1
  <1>5. CASE UNCHANGED Axis!vars
    BY <1>5 DEF Axis!vars, AxisInv, Past, StillWithin, Axis!TypeOK, Axis!ViewInside,
                Axis!FitShowsEverything, Axis!ZoomKeepsTime, Axis!Present, Axis!Range
  <1>6. CASE Axis!Clock
    BY <1>6, AxisClock
  <1>7. CASE Axis!Refresh
    BY <1>7, AxisRefresh
  <1>8. CASE Axis!Redraw
    BY <1>2, <1>3, <1>8 DEF Axis!Redraw
  <1>9. CASE Axis!Fit
    BY <1>0, <1>3, <1>9 DEF Axis!Fit
  <1>10. CASE Axis!Earliest
    <2> DEFINE v == [start |-> Axis!Range.start, end |-> Axis!Range.start + Axis!Span(Axis!Viewed)]
    <2>1. v \in Axis!Views
      BY <1>1, <1>2 DEF Axis!Views, Axis!Span
    <2> QED  BY <1>4, <1>10, <2>1 DEF Axis!Earliest
  <1>11. CASE Axis!Latest
    <2> DEFINE v == [start |-> Axis!Range.end - Axis!Span(Axis!Viewed), end |-> Axis!Range.end]
    <2>1. v \in Axis!Views
      BY <1>1, <1>2 DEF Axis!Views, Axis!Span
    <2> QED  BY <1>4, <1>11, <2>1 DEF Axis!Latest
  <1>12. ASSUME NEW sign \in {-1, 1}, Axis!Pan(sign) PROVE AxisInv'
    <2> DEFINE shift == sign * (Axis!Span(Axis!Viewed) \div 2)
               v == [start |-> Axis!Viewed.start + shift, end |-> Axis!Viewed.end + shift]
    <2>1. shift \in Int
      <3>1. Axis!Span(Axis!Viewed) \in Int
        BY <1>2 DEF Axis!Views, Axis!Span
      <3>2. Axis!Span(Axis!Viewed) \div 2 \in Int
        BY <3>1
      <3>3. sign \in Int
        OBVIOUS
      <3> QED  BY <3>2, <3>3
    <2> HIDE DEF shift
    <2>2. v \in Axis!Views
      BY <1>2, <2>1 DEF Axis!Views
    <2>3. Axis!Show(Axis!clamp(v, Axis!Range), None)
      BY <1>12 DEF Axis!Pan, Axis!pan, shift
    <2> QED  BY <1>4, <2>2, <2>3
  <1>13. ASSUME NEW fac \in Axis!Factors, NEW a \in 0 .. 2 PROVE
            LET w == Axis!zoom(Axis!Viewed, Axis!Range, fac[1], fac[2], a) IN
            /\ w \in Axis!Views /\ Within(w, Axis!Range) /\ Axis!Span(w) >= Second
            /\ Axis!Anchor(Axis!Viewed, a) \in Int
    BY <1>1, <1>2, ZoomTyped
  <1>14. ASSUME NEW fac \in Axis!Factors, NEW a \in 0 .. 2, Axis!Zoom(fac[1], fac[2], a) PROVE AxisInv'
    BY <1>3, <1>13, <1>14 DEF Axis!Zoom
  <1>15. ASSUME NEW fac \in Axis!Factors, NEW a \in 0 .. 2, Axis!Wheel(fac[1], fac[2], a) PROVE AxisInv'
    <2> DEFINE w == Axis!zoom(Axis!Viewed, Axis!Range, fac[1], fac[2], a)
               at == Axis!Anchor(Axis!Viewed, a)
    <2>1. Axis!Present # {} /\ Axis!Show(w, at)
      BY <1>15 DEF Axis!Wheel
    <2>2. Within(Axis!Viewed, Axis!Range)
      BY <1>0, <1>1, <2>1 DEF Axis!Viewed, AxisInv, StillWithin, Within, Axis!Views, Axis!Span
    <2>3. 2 * w.start <= at /\ at <= 2 * w.end
      BY <1>1, <1>2, <2>2, Zoomed
    <2>4. w \in Axis!Views /\ at \in Int /\ Within(w, Axis!Range) /\ Axis!Span(w) >= Second
      BY <1>13
    <2> HIDE DEF w, at
    <2>5. drawn' = w
      <3>1. jobs' = jobs /\ now' = now /\ Axis!renderBoard(w, jobs, now)
        BY <2>1 DEF Axis!Show
      <3>2. Axis!Range' = Axis!Range /\ Past'
        BY <3>1 DEF AxisInv, Past, Axis!Range
      <3>3. drawn' = Axis!clamp(w, Axis!Range)
        BY <1>0, <2>4, <3>1, <3>2, Draws
      <3> QED  BY <1>1, <2>4, <3>3, ClampedStays
    <2> QED  BY <2>1, <2>3, <2>4, <2>5, ShowKeeps
  <1> QED  BY <1>5, <1>6, <1>7, <1>8, <1>9, <1>10, <1>11, <1>12, <1>14, <1>15 DEF Axis!Next

\* The board stays within the time there is and shows a second of it at
\* least, fits every event when asked to, and keeps the time under the mouse
\* in sight of a zoom, for any number of tasks and however they come and go
\* (task-timeline.js:12-37, tasks.js:61-66, 104-113, 258-269).
THEOREM BoardShowsTime ==
    ASSUME Axis!TimelineAssumption
    PROVE  Axis!Spec => /\ []Axis!TypeOK /\ []Axis!ViewInside
                        /\ []Axis!FitShowsEverything /\ []Axis!ZoomKeepsTime
  <1>1. Axis!Init => AxisInv
    BY AxisInit
  <1>2. AxisInv /\ [Axis!Next]_(Axis!vars) => AxisInv'
    BY AxisMoves
  <1>3. AxisInv => /\ Axis!TypeOK /\ Axis!ViewInside
                   /\ Axis!FitShowsEverything /\ Axis!ZoomKeepsTime
    BY DEF AxisInv
  <1> QED  BY <1>1, <1>2, <1>3, PTL DEF Axis!Spec

-----------------------------------------------------------------------------
(* The lanes.                                                               *)

\* What the loop over the machines has built after n of them.
IsTurns(ms, n, f) ==
    f = [i \in 0 .. n |-> IF i = 0 THEN Lanes!Nowhere ELSE Lanes!placed(f[i - 1], ms[i])]

\* The loop ends, whatever the list.
LEMMA TurnsExist ==
    ASSUME NEW ms, NEW m \in Nat
    PROVE  \E f : IsTurns(ms, m, f)
  <1> DEFINE T == {n \in Nat : ~ \E f : IsTurns(ms, n, f)}
  <1> SUFFICES ASSUME T # {} PROVE FALSE
    OBVIOUS
  <1>1. PICK n \in T : \A k \in T : n <= k
    <2>1. T \subseteq Nat
      OBVIOUS
    <2> HIDE DEF T
    <2> QED  BY <2>1, LeastOf
  <1>2. n \in Nat /\ ~ \E f : IsTurns(ms, n, f)
    OBVIOUS
  <1>3. CASE n = 0
    <2> DEFINE g == [i \in 0 .. 0 |-> Lanes!Nowhere]
    <2>1. g = [i \in 0 .. 0 |-> IF i = 0 THEN Lanes!Nowhere ELSE Lanes!placed(g[i - 1], ms[i])]
      OBVIOUS
    <2> QED  BY <1>2, <1>3, <2>1 DEF IsTurns
  <1>4. CASE n # 0
    <2>1. n - 1 \in Nat /\ ~(n <= n - 1)
      BY <1>2, <1>4
    <2>2. n - 1 \notin T
      BY <1>1, <2>1
    <2>3. PICK f : IsTurns(ms, n - 1, f)
      BY <2>1, <2>2
    <2> DEFINE g == [i \in 0 .. n |-> IF i = n THEN Lanes!placed(f[n - 1], ms[n]) ELSE f[i]]
    <2>4. ASSUME NEW i \in 0 .. n
          PROVE  g[i] = IF i = 0 THEN Lanes!Nowhere ELSE Lanes!placed(g[i - 1], ms[i])
      <3>1. CASE i = n
        <4>1. i # 0 /\ g[i - 1] = f[n - 1] /\ g[i] = Lanes!placed(f[n - 1], ms[n])
          BY <1>2, <1>4, <3>1
        <4> QED  BY <3>1, <4>1
      <3>2. CASE i # n
        <4>1. i \in 0 .. n - 1 /\ g[i] = f[i]
          BY <1>2, <3>2
        <4>2. f[i] = IF i = 0 THEN Lanes!Nowhere ELSE Lanes!placed(f[i - 1], ms[i])
          BY <2>3, <4>1 DEF IsTurns
        <4>3. i # 0 => g[i - 1] = f[i - 1]
          BY <1>2, <4>1
        <4> QED  BY <4>1, <4>2, <4>3
      <3> QED  BY <3>1, <3>2
    <2>5. g = [i \in 0 .. n |-> g[i]]
      OBVIOUS
    <2> HIDE DEF g
    <2>6. IsTurns(ms, n, g)
      BY <2>4, <2>5 DEF IsTurns
    <2> QED  BY <1>2, <2>6
  <1> QED  BY <1>3, <1>4

LEMMA TurnsDefined ==
    ASSUME NEW ms, Len(ms) \in Nat
    PROVE  /\ Lanes!turns(ms)[0] = Lanes!Nowhere
           /\ \A n \in 1 .. Len(ms) :
                 Lanes!turns(ms)[n] = Lanes!placed(Lanes!turns(ms)[n - 1], ms[n])
  <1>1. \E f : IsTurns(ms, Len(ms), f)
    BY TurnsExist
  <1>2. Lanes!turns(ms) = CHOOSE f : IsTurns(ms, Len(ms), f)
    BY DEF Lanes!turns, IsTurns
  <1>3. IsTurns(ms, Len(ms), Lanes!turns(ms))
    BY <1>1, <1>2
  <1> DEFINE f == Lanes!turns(ms)
  <1> HIDE DEF f
  <1>4. f = [i \in 0 .. Len(ms) |-> IF i = 0 THEN Lanes!Nowhere ELSE Lanes!placed(f[i - 1], ms[i])]
    BY <1>3 DEF f, IsTurns
  <1>5. 0 \in 0 .. Len(ms) /\ \A n \in 1 .. Len(ms) : n \in 0 .. Len(ms) /\ n # 0
    OBVIOUS
  <1>6. f[0] = Lanes!Nowhere
    BY <1>4, <1>5
  <1>7. \A n \in 1 .. Len(ms) : f[n] = Lanes!placed(f[n - 1], ms[n])
    BY <1>4, <1>5
  <1> QED  BY <1>6, <1>7 DEF f

\* After n machines each of them is in the group of its host, and each group is
\* that of the resource of one of them.
LoopInv(ms, n) ==
    LET t == Lanes!turns(ms)[n] IN
    /\ DOMAIN t.key = Machines
    /\ DOMAIN t.byHost = {ms[i].host : i \in 1 .. n}
    /\ \A i \in 1 .. n : t.key[ms[i].id] = t.byHost[ms[i].host]
    /\ \A i \in 1 .. n : \E k \in 1 .. n : t.byHost[ms[i].host] = Lanes!resourceKey(ms[k])

\* If a host has one resource, the group is that of the machine's own resource.
OwnResource(ms, n) ==
    \A i \in 1 .. n : Lanes!turns(ms)[n].byHost[ms[i].host] = Lanes!resourceKey(ms[i])

\* What a turn does to the groups.
LEMMA LoopTurns ==
    ASSUME Lanes!TaskGroupsAssumption, NEW ms \in MachineLists, NEW n \in 1 .. Len(ms),
           LoopInv(ms, n - 1)
    PROVE  /\ LoopInv(ms, n)
           /\ \A i \in 1 .. n - 1 : Lanes!turns(ms)[n].byHost[ms[i].host]
                                    = Lanes!turns(ms)[n - 1].byHost[ms[i].host]
           /\ (\A i \in 1 .. n - 1 : ms[i].host # ms[n].host)
              => Lanes!turns(ms)[n].byHost[ms[n].host] = Lanes!resourceKey(ms[n])
  <1> DEFINE s == Lanes!turns(ms)[n - 1]
             t == Lanes!turns(ms)[n]
             key == IF ms[n].host \in DOMAIN s.byHost THEN s.byHost[ms[n].host]
                    ELSE Lanes!resourceKey(ms[n])
  <1>0. /\ ms \in Seq(Lanes!Listed) /\ Len(ms) \in Nat /\ n \in Nat /\ n - 1 \in Nat
        /\ n \in DOMAIN ms /\ \A i \in 1 .. n - 1 : i \in DOMAIN ms /\ i # n /\ i \in 1 .. n
        /\ n \in 1 .. n /\ \A i \in 1 .. n : i = n \/ i \in 1 .. n - 1
    BY DEF Lanes!TaskGroupsAssumption
  <1>a. ms[n] \in Lanes!Listed /\ \A i \in 1 .. n - 1 : ms[i] \in Lanes!Listed
    BY <1>0
  <1>b. ms[n].id \in Machines /\ \A i \in 1 .. n - 1 : ms[i].id \in Machines
    BY <1>a DEF Lanes!Listed
  <1>1. \A i \in 1 .. n - 1 : ms[i].id # ms[n].id
    BY <1>0 DEF Lanes!TaskGroupsAssumption
  <1>2. /\ DOMAIN s.key = Machines
        /\ DOMAIN s.byHost = {ms[i].host : i \in 1 .. n - 1}
        /\ \A i \in 1 .. n - 1 : s.key[ms[i].id] = s.byHost[ms[i].host]
        /\ \A i \in 1 .. n - 1 : \E k \in 1 .. n - 1 : s.byHost[ms[i].host] = Lanes!resourceKey(ms[k])
    BY DEF LoopInv
  <1>3. t = Lanes!placed(s, ms[n])
    BY <1>0, TurnsDefined
  <1>4. /\ t.key = [s.key EXCEPT ![ms[n].id] = key]
        /\ t.byHost = [h \in DOMAIN s.byHost \cup {ms[n].host} |->
                         IF h = ms[n].host THEN key ELSE s.byHost[h]]
    BY <1>3 DEF Lanes!placed
  <1>5. ms[n].host \in DOMAIN s.byHost => key = s.byHost[ms[n].host]
    OBVIOUS
  <1>6. (\A i \in 1 .. n - 1 : ms[i].host # ms[n].host) => key = Lanes!resourceKey(ms[n])
    BY <1>2
  <1>7. \E k \in 1 .. n : key = Lanes!resourceKey(ms[k])
    <2>1. CASE ms[n].host \in DOMAIN s.byHost
      <3>1. PICK i \in 1 .. n - 1 : ms[i].host = ms[n].host
        BY <1>2, <2>1
      <3>2. PICK k \in 1 .. n - 1 : s.byHost[ms[i].host] = Lanes!resourceKey(ms[k])
        BY <1>2
      <3> QED  BY <1>0, <1>5, <2>1, <3>1, <3>2
    <2>2. CASE ms[n].host \notin DOMAIN s.byHost
      BY <1>0, <2>2
    <2> QED  BY <2>1, <2>2
  <1> HIDE DEF s, t, key
  <1>8. DOMAIN t.key = Machines /\ t.key[ms[n].id] = key
    BY <1>b, <1>2, <1>4
  <1>9. \A i \in 1 .. n - 1 : t.key[ms[i].id] = s.key[ms[i].id]
    <2> TAKE i \in 1 .. n - 1
    <2>1. ms[i].id \in Machines /\ ms[i].id # ms[n].id
      BY <1>1, <1>b
    <2> QED  BY <1>2, <1>4, <2>1
  <1>10. DOMAIN t.byHost = {ms[i].host : i \in 1 .. n}
    <2>1. DOMAIN t.byHost = DOMAIN s.byHost \cup {ms[n].host}
      BY <1>4
    <2> QED  BY <1>0, <1>2, <2>1
  <1>11. t.byHost[ms[n].host] = key
    BY <1>4
  <1>12. \A i \in 1 .. n - 1 : t.byHost[ms[i].host] = s.byHost[ms[i].host]
    <2> TAKE i \in 1 .. n - 1
    <2>1. ms[i].host \in DOMAIN s.byHost
      BY <1>2
    <2>2. CASE ms[i].host = ms[n].host
      BY <1>5, <1>11, <2>1, <2>2
    <2>3. CASE ms[i].host # ms[n].host
      BY <1>4, <2>1, <2>3
    <2> QED  BY <2>2, <2>3
  <1>13. \A i \in 1 .. n : t.key[ms[i].id] = t.byHost[ms[i].host]
    BY <1>0, <1>2, <1>8, <1>9, <1>11, <1>12
  <1>14. \A i \in 1 .. n : \E k \in 1 .. n : t.byHost[ms[i].host] = Lanes!resourceKey(ms[k])
    <2> TAKE i \in 1 .. n
    <2>1. CASE i = n
      BY <1>7, <1>11, <2>1
    <2>2. CASE i \in 1 .. n - 1
      <3>1. PICK k \in 1 .. n - 1 : s.byHost[ms[i].host] = Lanes!resourceKey(ms[k])
        BY <1>2, <2>2
      <3> QED  BY <1>0, <1>12, <2>2, <3>1
    <2> QED  BY <1>0, <2>1, <2>2
  <1>15. LoopInv(ms, n)
    BY <1>8, <1>10, <1>13, <1>14 DEF LoopInv, t
  <1> QED  BY <1>6, <1>11, <1>12, <1>15 DEF s, t

LEMMA OwnResourceTurns ==
    ASSUME Lanes!TaskGroupsAssumption, Lanes!OneResourcePerHost,
           NEW ms \in MachineLists, NEW n \in 1 .. Len(ms),
           LoopInv(ms, n - 1), OwnResource(ms, n - 1)
    PROVE  OwnResource(ms, n)
  <1> DEFINE s == Lanes!turns(ms)[n - 1].byHost
             t == Lanes!turns(ms)[n].byHost
  <1>0. /\ Len(ms) \in Nat /\ n \in Nat /\ n \in DOMAIN ms
        /\ \A i \in 1 .. n - 1 : i \in DOMAIN ms /\ i # n
        /\ \A i \in 1 .. n : i = n \/ i \in 1 .. n - 1
    BY DEF Lanes!TaskGroupsAssumption
  <1>1. /\ \A i \in 1 .. n - 1 : t[ms[i].host] = s[ms[i].host]
        /\ (\A i \in 1 .. n - 1 : ms[i].host # ms[n].host) => t[ms[n].host] = Lanes!resourceKey(ms[n])
    BY LoopTurns
  <1>2. \A i \in 1 .. n - 1 : s[ms[i].host] = Lanes!resourceKey(ms[i])
    BY DEF OwnResource
  <1> HIDE DEF s, t
  <1>3. t[ms[n].host] = Lanes!resourceKey(ms[n])
    <2>1. ASSUME NEW i \in 1 .. n - 1, ms[i].host = ms[n].host
          PROVE  t[ms[n].host] = Lanes!resourceKey(ms[n])
      <3>1. Lanes!resourceKey(ms[i]) = Lanes!resourceKey(ms[n])
        BY <1>0, <2>1 DEF Lanes!OneResourcePerHost
      <3>2. t[ms[i].host] = Lanes!resourceKey(ms[i])
        BY <1>1, <1>2
      <3> QED  BY <2>1, <3>1, <3>2
    <2> QED  BY <1>1, <2>1
  <1>4. \A i \in 1 .. n : t[ms[i].host] = Lanes!resourceKey(ms[i])
    BY <1>0, <1>1, <1>2, <1>3
  <1> QED  BY <1>4 DEF OwnResource, t

LEMMA LoopHolds ==
    ASSUME Lanes!TaskGroupsAssumption, NEW ms \in MachineLists
    PROVE  /\ \A n \in 0 .. Len(ms) : LoopInv(ms, n)
           /\ Len(ms) \in Nat /\ DOMAIN ms = 1 .. Len(ms)
  <1>0. Len(ms) \in Nat /\ DOMAIN ms = 1 .. Len(ms)
    BY DEF Lanes!TaskGroupsAssumption
  <1> DEFINE T == {n \in 0 .. Len(ms) : ~LoopInv(ms, n)}
  <1>1. T = {}
    <2> SUFFICES ASSUME T # {} PROVE FALSE
      OBVIOUS
    <2>1. PICK n \in T : \A k \in T : n <= k
      <3>1. T \subseteq Nat
        OBVIOUS
      <3> HIDE DEF T
      <3> QED  BY <3>1, LeastOf
    <2>2. LoopInv(ms, 0)
      <3>1. 1 .. 0 = {}
        OBVIOUS
      <3> QED  BY <1>0, <3>1, TurnsDefined DEF LoopInv, Lanes!Nowhere
    <2>3. n \in 1 .. Len(ms) /\ n - 1 \in 0 .. Len(ms) /\ ~(n <= n - 1)
      BY <1>0, <2>2
    <2>4. n - 1 \notin T
      BY <2>1, <2>3
    <2>5. LoopInv(ms, n - 1)
      BY <2>3, <2>4
    <2>6. LoopInv(ms, n)
      BY <2>3, <2>5, LoopTurns
    <2> QED  BY <2>6
  <1> QED  BY <1>0, <1>1

LEMMA OwnResourceHolds ==
    ASSUME Lanes!TaskGroupsAssumption, Lanes!OneResourcePerHost, NEW ms \in MachineLists
    PROVE  OwnResource(ms, Len(ms))
  <1>0. Len(ms) \in Nat /\ \A n \in 0 .. Len(ms) : LoopInv(ms, n)
    BY LoopHolds
  <1> DEFINE T == {n \in 0 .. Len(ms) : ~OwnResource(ms, n)}
  <1>1. T = {}
    <2> SUFFICES ASSUME T # {} PROVE FALSE
      OBVIOUS
    <2>1. PICK n \in T : \A k \in T : n <= k
      <3>1. T \subseteq Nat
        OBVIOUS
      <3> HIDE DEF T
      <3> QED  BY <3>1, LeastOf
    <2>2. OwnResource(ms, 0)
      BY DEF OwnResource
    <2>3. n \in 1 .. Len(ms) /\ n - 1 \in 0 .. Len(ms) /\ ~(n <= n - 1)
      BY <1>0, <2>2
    <2>4. n - 1 \notin T
      BY <2>1, <2>3
    <2>5. OwnResource(ms, n - 1)
      BY <2>3, <2>4
    <2>6. OwnResource(ms, n)
      BY <1>0, <2>3, <2>5, OwnResourceTurns
    <2> QED  BY <2>6
  <1> QED  BY <1>0, <1>1

\* What is drawn follows from the list of machines and the tasks.
LanesInv ==
    /\ machines \in MachineLists /\ jobs \subseteq [machine: Machines, host: Hosts]
    /\ groups = Lanes!groupMachines(machines).key
    /\ lanes = [j \in jobs |-> Lanes!lane(machines, j)]

LEMMA LanesNext ==
    ASSUME Lanes!TaskGroupsAssumption, LanesInv, [Lanes!Next]_(Lanes!vars)
    PROVE  LanesInv'
  <1>1. CASE UNCHANGED Lanes!vars
    BY <1>1 DEF LanesInv, Lanes!vars
  <1>2. ASSUME machines' \in MachineLists, jobs' \subseteq [machine: Machines, host: Hosts], Lanes!draw
        PROVE  LanesInv'
    BY <1>2 DEF LanesInv, Lanes!draw
  <1>3. CASE Lanes!Configure
    BY <1>2, <1>3 DEF LanesInv, Lanes!Configure
  <1>4. CASE Lanes!Submit
    <2>1. PICK i \in DOMAIN machines :
             jobs' = jobs \cup {[machine |-> machines[i].id, host |-> machines[i].host]}
      BY <1>4 DEF Lanes!Submit
    <2>2. machines[i] \in Lanes!Listed
      BY <2>1 DEF LanesInv, Lanes!TaskGroupsAssumption
    <2>3. jobs' \subseteq [machine: Machines, host: Hosts]
      BY <2>1, <2>2 DEF LanesInv, Lanes!Listed
    <2> QED  BY <1>2, <1>4, <2>3 DEF LanesInv, Lanes!Submit
  <1>5. CASE Lanes!Compact
    BY <1>2, <1>5 DEF LanesInv, Lanes!Compact
  <1> QED  BY <1>1, <1>3, <1>4, <1>5 DEF Lanes!Next

\* The groups of a list of machines.
LEMMA GroupsAre ==
    ASSUME Lanes!TaskGroupsAssumption, NEW ms \in MachineLists
    PROVE  LET t == Lanes!groupMachines(ms) IN
           /\ DOMAIN t.key = Machines
           /\ DOMAIN t.byHost = {ms[i].host : i \in DOMAIN ms}
           /\ \A i \in DOMAIN ms : t.key[ms[i].id] = t.byHost[ms[i].host]
           /\ \A i \in DOMAIN ms : \E k \in DOMAIN ms : t.byHost[ms[i].host] = Lanes!resourceKey(ms[k])
  <1>1. LoopInv(ms, Len(ms)) /\ DOMAIN ms = 1 .. Len(ms)
    BY LoopHolds
  <1> QED  BY <1>1 DEF LoopInv, Lanes!groupMachines

LEMMA LanesTrue ==
    ASSUME Lanes!TaskGroupsAssumption, LanesInv
    PROVE  Lanes!TypeOK /\ Lanes!HistoryStaysOnHost
  <1> DEFINE t == Lanes!groupMachines(machines)
  <1>1. /\ DOMAIN t.key = Machines
        /\ DOMAIN t.byHost = {machines[i].host : i \in DOMAIN machines}
        /\ \A i \in DOMAIN machines : t.key[machines[i].id] = t.byHost[machines[i].host]
        /\ \A i \in DOMAIN machines :
              \E k \in DOMAIN machines : t.byHost[machines[i].host] = Lanes!resourceKey(machines[k])
    BY GroupsAre DEF LanesInv
  <1> HIDE DEF t
  <1>2. groups = t.key
    BY DEF LanesInv, t
  <1>3. Lanes!TypeOK
    BY <1>1, <1>2 DEF LanesInv, Lanes!TypeOK, Lanes!TaskGroupsAssumption
  <1>4. ASSUME NEW j \in jobs
        PROVE  LET g == Lanes!Group(lanes[j]) IN
               \/ \E i \in g : machines[i].host = j.host
               \/ g = {} /\ \A i \in DOMAIN machines : machines[i].host # j.host
    <2>1. lanes[j] = IF j.host \in DOMAIN t.byHost THEN t.byHost[j.host] ELSE <<"history", j.host>>
      BY DEF LanesInv, Lanes!lane, t
    <2>2. CASE j.host \in DOMAIN t.byHost
      <3>1. PICK i \in DOMAIN machines : machines[i].host = j.host
        BY <1>1, <2>2
      <3>2. lanes[j] = groups[machines[i].id]
        BY <1>1, <1>2, <2>1, <2>2, <3>1
      <3>3. i \in Lanes!Group(lanes[j])
        BY <3>1, <3>2 DEF Lanes!Group
      <3> QED  BY <3>1, <3>3
    <2>3. CASE j.host \notin DOMAIN t.byHost
      <3>1. \A i \in DOMAIN machines : machines[i].host # j.host
        BY <1>1, <2>3
      <3>2. ASSUME NEW i \in DOMAIN machines PROVE groups[machines[i].id] # lanes[j]
        <4>1. PICK k \in DOMAIN machines : groups[machines[i].id] = Lanes!resourceKey(machines[k])
          BY <1>1, <1>2
        <4>2. Lanes!resourceKey(machines[k]) # <<"history", j.host>>
          BY DEF Lanes!resourceKey, Lanes!Identity!machineResource
        <4> QED  BY <2>1, <2>3, <4>1, <4>2
      <3>3. Lanes!Group(lanes[j]) = {}
        BY <3>2 DEF Lanes!Group
      <3> QED  BY <3>1, <3>3
    <2> QED  BY <2>2, <2>3
  <1>5. Lanes!HistoryStaysOnHost
    BY <1>4 DEF Lanes!HistoryStaysOnHost
  <1> QED  BY <1>3, <1>5

LEMMA AliasesTrue ==
    ASSUME Lanes!TaskGroupsAssumption, Lanes!OneResourcePerHost, LanesInv
    PROVE  Lanes!AliasesTogether
  <1> DEFINE t == Lanes!groupMachines(machines)
  <1>1. /\ OwnResource(machines, Len(machines)) /\ DOMAIN machines = 1 .. Len(machines)
        /\ \A i \in DOMAIN machines : t.key[machines[i].id] = t.byHost[machines[i].host]
    BY OwnResourceHolds, LoopHolds, GroupsAre DEF LanesInv
  <1>2. groups = t.key
    BY DEF LanesInv
  <1>3. \A i \in DOMAIN machines : t.byHost[machines[i].host] = Lanes!resourceKey(machines[i])
    BY <1>1 DEF OwnResource, Lanes!groupMachines
  <1> HIDE DEF t
  <1>4. \A i \in DOMAIN machines : groups[machines[i].id] = Lanes!resourceKey(machines[i])
    BY <1>1, <1>2, <1>3
  <1> QED  BY <1>4 DEF Lanes!AliasesTogether, Lanes!Together

LEMMA LanesFollow ==
    ASSUME Lanes!TaskGroupsAssumption
    PROVE  Lanes!Spec => []LanesInv
  <1>1. Lanes!Init => LanesInv
    BY DEF Lanes!Init, LanesInv
  <1>2. LanesInv /\ [Lanes!Next]_(Lanes!vars) => LanesInv'
    BY LanesNext
  <1> QED  BY <1>1, <1>2, PTL DEF Lanes!Spec

\* A task stays in the lane of the host it ran on, also when its machine has
\* been given another host since, for any lists of machines (task-timeline.js:53-78).
THEOREM LanesAreHosts ==
    ASSUME Lanes!TaskGroupsAssumption
    PROVE  Lanes!Spec => []Lanes!TypeOK /\ []Lanes!HistoryStaysOnHost
  <1>1. Lanes!Spec => []LanesInv
    BY LanesFollow
  <1>2. LanesInv => Lanes!TypeOK /\ Lanes!HistoryStaysOnHost
    BY LanesTrue
  <1> QED  BY <1>1, <1>2, PTL

\* The entries of one resource share a lane, if the entries of a host name one
\* resource (task-timeline.js:53-62).
THEOREM AliasesShareALane ==
    ASSUME Lanes!TaskGroupsAssumption, Lanes!OneResourcePerHost
    PROVE  Lanes!Spec => []Lanes!AliasesTogether
  <1>1. Lanes!Spec => []LanesInv
    BY LanesFollow
  <1>2. LanesInv => Lanes!AliasesTogether
    BY AliasesTrue
  <1> QED  BY <1>1, <1>2, PTL

=============================================================================
