------------------------------ MODULE TaskGroups ------------------------------
(***************************************************************************)
(* The lanes of the task page: groupMachines of src/web/task-timeline.js    *)
(* puts the configured machines and the recorded tasks into groups, one for *)
(* each actual machine, while machines are configured again under the       *)
(* tasks they ran.  Which machines are one actual machine is decided by the *)
(* service (ResourceIdentity).                                              *)
(***************************************************************************)
EXTENDS Naturals, Sequences, FiniteSets

CONSTANTS
    Machines, Hosts, LoopbackHosts, Localhost, ResourceIDs, Ports, None,
    Lists,      \* the lists of machines that may be configured
    MaxJobs     \* bound: recorded tasks

VARIABLES
    machines,   \* the configured machines, in their order
    jobs,       \* recorded tasks: the machine chosen and the host it had then
    groups,     \* the lane drawn for each machine, by its key
    lanes       \* the lane drawn for each task

vars == <<machines, jobs, groups, lanes>>

Identity == INSTANCE ResourceIdentity
Listed == [id: Machines, host: Hosts, port: Ports, resourceID: ResourceIDs \cup {None}]

resourceKey(m) == Identity!machineResource(m)

\* An identifier names one machine (config.go:171).
TaskGroupsAssumption ==
    \A ms \in Lists :
       ms \in Seq(Listed) /\ \A i, k \in DOMAIN ms : ms[i].id = ms[k].id => i = k

\* The entries of a host name one resource.  Nothing checks it: it is left to
\* who writes the list, and two tunnels of a loopback host break it.
OneResourcePerHost ==
    \A ms \in Lists : \A i, k \in DOMAIN ms :
       ms[i].host = ms[k].host => resourceKey(ms[i]) = resourceKey(ms[k])

\* One turn of the loop over the machines: a machine joins the group of the
\* last machine with its host, or else the group of its resource.  There is a
\* group for each key, and byHost is the group a host was put into last.
placed(acc, m) ==
    LET key == IF m.host \in DOMAIN acc.byHost THEN acc.byHost[m.host] ELSE resourceKey(m)
    IN [key |-> [acc.key EXCEPT ![m.id] = key],
        byHost |-> [h \in DOMAIN acc.byHost \cup {m.host} |->
                      IF h = m.host THEN key ELSE acc.byHost[h]]]

Nowhere == [key |-> [m \in Machines |-> None], byHost |-> [h \in {} |-> None]]
\* The groups after every turn.
turns(ms) ==
    LET acc[n \in 0 .. Len(ms)] == IF n = 0 THEN Nowhere ELSE placed(acc[n - 1], ms[n])
    IN acc
groupMachines(ms) == turns(ms)[Len(ms)]

\* A form of lane that follows the machine a task was sent to.
laneByID(ms, job) ==
    IF \E i \in DOMAIN ms : ms[i].id = job.machine
    THEN groupMachines(ms).key[job.machine] ELSE <<"history", job.host>>

\* The group of a task: that of its recorded host, or a group of history.
lane(ms, job) ==
    LET byHost == groupMachines(ms).byHost
    IN IF job.host \in DOMAIN byHost THEN byHost[job.host] ELSE <<"history", job.host>>

\* The board as it is drawn after a refresh.
draw ==
    /\ groups' = groupMachines(machines').key
    /\ lanes' = [j \in jobs' |-> lane(machines', j)]

Init ==
    /\ machines \in Lists /\ jobs = {}
    /\ groups = groupMachines(machines).key /\ lanes = [j \in {} |-> None]

\* Another list of machines is saved, and the page refreshes.
Configure == machines' \in Lists /\ UNCHANGED jobs /\ draw

Submit ==
    /\ Cardinality(jobs) < MaxJobs
    /\ \E i \in DOMAIN machines :
          jobs' = jobs \cup {[machine |-> machines[i].id, host |-> machines[i].host]}
    /\ UNCHANGED machines
    /\ draw

\* A finished task is compacted away.
Compact == (\E j \in jobs : jobs' = jobs \ {j}) /\ UNCHANGED machines /\ draw

Next == Configure \/ Submit \/ Compact

Spec == Init /\ [][Next]_vars
-----------------------------------------------------------------------------
Group(key) == {i \in DOMAIN machines : groups[machines[i].id] = key}
Together(i, k) == groups[machines[i].id] = groups[machines[k].id]
Allocation(m) == Identity!machineAllocation(m.id, m)

\* Every variable has a value of its kind.
TypeOK ==
    /\ machines \in Lists /\ \A i \in DOMAIN machines : machines[i] \in Listed
    /\ jobs \subseteq [machine: Machines, host: Hosts]
    /\ DOMAIN groups = Machines /\ DOMAIN lanes = jobs

\* A task stays on the host it ran on: its lane holds a machine configured
\* with that host today, or no configured machine at all, although its
\* machine may have been given another host since (task-timeline.test.cjs:36).
HistoryStaysOnHost ==
    \A j \in jobs :
       LET g == Group(lanes[j]) IN
       \/ \E i \in g : machines[i].host = j.host
       \/ g = {} /\ \A i \in DOMAIN machines : machines[i].host # j.host

\* The entries of one physical resource share a lane (task-timeline.test.cjs:37).
AliasesTogether ==
    \A i, k \in DOMAIN machines :
       resourceKey(machines[i]) = resourceKey(machines[k])
       => Together(i, k)

=============================================================================
