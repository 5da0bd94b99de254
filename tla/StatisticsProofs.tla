--------------------------- MODULE StatisticsProofs ---------------------------
(***************************************************************************)
(* The three dialogs of statistics keep the promise of LatestAnswer, for    *)
(* any machines, groups, filters, ranges and tasks, any number of openings  *)
(* that overlap, and names of requests in any number: system metrics,       *)
(* hourly utilization, and idle machines.  Each is an instance with its     *)
(* variables under their own names; a theorem is about one of them.         *)
(***************************************************************************)
EXTENDS Naturals, FiniteSets, TLAPS

CONSTANTS
    None, Faults, MaxNow,
    Machines, Enabled, Tasks, Ranges, Generations,      \* metrics
    Groups, NoGroup, MaxOpenings,                       \* utilization
    Filters, NoFilter, Broken, Names, MaxRanking        \* idle machines

VARIABLES
    machines, machineId, taskId, follow, manualRange, net,
    period, group, day,
    filter, openEpoch, timer, running, exportable, boxed,
    now, demo, dialog, snapshot, since, openings, request, generation   \* of several

Metric == INSTANCE MetricsPanel
Usage == INSTANCE UtilizationPanel
Ranking == INSTANCE IdleRanking WITH MaxNow <- MaxRanking

-----------------------------------------------------------------------------
(* System metrics.                                                          *)

\* A request for metrics is of this generation and asks for the choices as
\* they are; what is shown answers them, and neither is older than they are.
RequestsAreCurrent ==
    \A r \in net : r.kind = "metrics" =>
        r.gen = generation /\ r.query = Metric!Query /\ (r.at # None => r.at \in since .. now)
CurvesAreCurrent ==
    snapshot # None => snapshot.query = Metric!Query /\ snapshot.at \in since .. now
MetricInv ==
    /\ Metric!TypeOK /\ since <= now
    /\ RequestsAreCurrent /\ CurvesAreCurrent

LEMMA MetricPanelIs ==
    /\ Metric!Panel!Changes <=> now' > now /\ UNCHANGED <<Metric!Query, since, Metric!Shown>>
    /\ Metric!Panel!Show <=>
           /\ \E at \in since .. now : Metric!Shown' = [query |-> Metric!Query, at |-> at]
           /\ UNCHANGED <<now, Metric!Query, since>>
    /\ Metric!Panel!Hide <=> Metric!Shown' = None /\ UNCHANGED <<now, Metric!Query, since>>
    /\ \A q \in Metric!Choices : Metric!Panel!Ask(q) <=>
           /\ Metric!Query' = q /\ since' = now /\ UNCHANGED now
           /\ Metric!Shown' = None \/ Metric!Shown' = [query |-> q, at |-> now]
  BY DEF Metric!Panel!Changes, Metric!Panel!Show, Metric!Panel!Hide, Metric!Panel!Ask,
         Metric!Panel!Answer

LEMMA MetricStays ==
    ASSUME UNCHANGED <<now, Metric!Query, since, Metric!Shown>>
    PROVE  UNCHANGED Metric!Panel!vars
  BY DEF Metric!Panel!vars

\* The kinds of the choices.
LEMMA MetricChoices ==
    ASSUME NEW m \in Machines \cup {None}, NEW t \in Tasks \cup {None}, NEW f \in BOOLEAN,
           NEW r \in Ranges \cup {None}
    PROVE  Metric!Choice(m, t, f, r) \in Metric!Choices
  BY DEF Metric!Choice, Metric!Choices

LEMMA QueryIsChoice ==
    ASSUME machineId \in Machines \cup {None}, taskId \in Tasks \cup {None}, follow \in BOOLEAN,
           manualRange \in Ranges \cup {None}
    PROVE  Metric!Query \in Metric!Choices
  BY MetricChoices DEF Metric!Query

\* A step after which nothing is in flight but requests for the machines and at
\* most one for the new choices, and nothing is shown but an answer to them.
LEMMA MetricAsks ==
    ASSUME Metric!MetricsPanelAssumption, MetricInv, UNCHANGED now, since' = now,
           NEW configs, configs \subseteq Metric!Reads("config"),
           net' \in {configs, configs \cup {Metric!Config(generation')},
                     configs \cup {Metric!Ask(generation', Metric!Query')}},
           generation' \in Generations,
           snapshot' = None \/ snapshot' = Metric!Answer(Metric!Query', now),
           machineId' \in Machines \cup {None}, taskId' \in Tasks \cup {None},
           follow' \in BOOLEAN, manualRange' \in Ranges \cup {None},
           dialog' \in {"open", "closing", "closed"}, demo' \in BOOLEAN,
           machines' \in {{}, Machines}
    PROVE  MetricInv' /\ Metric!Panel!Next
  <1>0. now \in 0 .. MaxNow /\ MaxNow \in Nat
    BY DEF MetricInv, Metric!TypeOK, Metric!MetricsPanelAssumption
  <1>1. Metric!Query' \in Metric!Choices
    BY MetricChoices DEF Metric!Query
  <1>2. configs \subseteq Metric!Requests /\ \A r \in configs : r.kind = "config"
    BY DEF MetricInv, Metric!TypeOK, Metric!Reads
  <1>3. Metric!Config(generation') \in Metric!Requests /\ Metric!Config(generation').kind = "config"
    BY DEF Metric!Config, Metric!Requests
  <1>4. DEFINE ask == Metric!Ask(generation', Metric!Query')
  <1>5. /\ ask \in Metric!Requests /\ ask.gen = generation' /\ ask.query = Metric!Query'
        /\ ask.at = None
    BY <1>1 DEF Metric!Ask, Metric!Requests
  <1>6. net' \subseteq Metric!Requests /\ RequestsAreCurrent'
    <2> HIDE DEF ask
    <2>1. \A r \in net' : r \in configs \/ r = Metric!Config(generation') \/ r = ask
      BY DEF ask
    <2> QED  BY <1>2, <1>3, <1>5, <2>1 DEF RequestsAreCurrent
  <1>7. snapshot' \in {None} \cup [query: Metric!Choices, at: 0 .. MaxNow]
        /\ (snapshot' # None => snapshot'.query = Metric!Query' /\ snapshot'.at = now)
    BY <1>0, <1>1 DEF Metric!Answer
  <1>8. MetricInv'
    BY <1>0, <1>6, <1>7 DEF MetricInv, Metric!TypeOK, CurvesAreCurrent
  <1>9. Metric!Shown' = None \/ Metric!Shown' = [query |-> Metric!Query', at |-> now]
    BY DEF Metric!Shown, Metric!Answer
  <1>10. Metric!Panel!Ask(Metric!Query')
    BY <1>1, <1>9, MetricPanelIs
  <1> QED  BY <1>1, <1>8, <1>10 DEF Metric!Panel!Next

LEMMA MetricLoads ==
    ASSUME Metric!MetricsPanelAssumption, MetricInv, UNCHANGED <<now, dialog, demo>>,
           NEW configs, configs \subseteq Metric!Reads("config"), NEW list,
           Metric!load(configs, list), machines' \in {{}, Machines},
           machineId' \in Machines \cup {None}, taskId' \in Tasks \cup {None},
           follow' \in BOOLEAN, manualRange' \in Ranges \cup {None}
    PROVE  MetricInv' /\ Metric!Panel!Next
  <1>1. /\ since' = now /\ generation' \in Generations
        /\ net' \in {configs, configs \cup {Metric!Ask(generation', Metric!Query')}}
        /\ snapshot' = None \/ snapshot' = Metric!Answer(Metric!Query', now)
    BY DEF Metric!load, Metric!cancel
  <1>2. dialog' \in {"open", "closing", "closed"} /\ demo' \in BOOLEAN
    BY DEF MetricInv, Metric!TypeOK
  <1> QED  BY <1>1, <1>2, MetricAsks

\* Every step keeps what is shown current, and implements a step or a stutter.
LEMMA MetricStep ==
    ASSUME Metric!MetricsPanelAssumption, MetricInv, [Metric!Next]_(Metric!vars)
    PROVE  MetricInv' /\ [Metric!Panel!Next]_(Metric!Panel!vars)
  <1>0. /\ now \in Nat /\ since \in Nat /\ MaxNow \in Nat /\ Enabled \subseteq Machines
        /\ machineId \in Machines \cup {None} /\ taskId \in Tasks \cup {None}
        /\ follow \in BOOLEAN /\ manualRange \in Ranges \cup {None}
        /\ machines \in {{}, Machines} /\ Metric!Default \subseteq Machines
        /\ generation \in Generations
    BY DEF MetricInv, Metric!TypeOK, Metric!MetricsPanelAssumption, Metric!Default
  <1>1. CASE Metric!AgentSamples
    <2>1. UNCHANGED <<Metric!Query, since, Metric!Shown>>
      BY <1>1 DEF Metric!AgentSamples, Metric!choices, Metric!Query, Metric!Shown
    <2>2. Metric!Panel!Next
      BY <1>0, <1>1, <2>1, MetricPanelIs DEF Metric!AgentSamples, Metric!Panel!Next
    <2>3. MetricInv'
      BY <1>0, <1>1, <2>1 DEF Metric!AgentSamples, Metric!choices, MetricInv, Metric!TypeOK,
             RequestsAreCurrent, CurvesAreCurrent, Metric!Requests
    <2> QED  BY <2>2, <2>3
  <1>2. CASE \E r \in net : Metric!Serve(r)
    <2> PICK r \in net : Metric!Serve(r)
      BY <1>2
    <2>1. UNCHANGED <<now, Metric!Query, since, Metric!Shown>>
      BY DEF Metric!Serve, Metric!choices, Metric!Query, Metric!Shown
    <2> DEFINE d == [r EXCEPT !.at = now]
    <2>2. r \in [kind: {"metrics"}, gen: Generations, query: Metric!Choices, at: 0 .. MaxNow \cup {None}]
      BY DEF Metric!Serve, MetricInv, Metric!TypeOK, Metric!Requests
    <2>3. /\ d \in Metric!Requests /\ d.kind = "metrics" /\ d.gen = r.gen /\ d.query = r.query
          /\ d.at = now
      BY <1>0, <2>2 DEF Metric!Requests, MetricInv, Metric!TypeOK
    <2>4. net' = (net \ {r}) \cup {d}
      BY DEF Metric!Serve
    <2> HIDE DEF d
    <2>5. RequestsAreCurrent' /\ net' \subseteq Metric!Requests
      BY <1>0, <2>1, <2>2, <2>3, <2>4 DEF MetricInv, RequestsAreCurrent, Metric!Serve,
             Metric!TypeOK
    <2>6. MetricInv'
      BY <2>1, <2>5 DEF Metric!Serve, Metric!choices, MetricInv, Metric!TypeOK, CurvesAreCurrent
    <2> QED  BY <2>1, <2>6, MetricStays
  \* What takes a request away, and what it shows.
  <1>a. ASSUME UNCHANGED <<now, dialog, demo, machines, Metric!choices, generation, since>>,
               net' \subseteq net,
               \/ snapshot' = snapshot \/ snapshot' = None
               \/ /\ dialog = "open"
                  /\ \E at \in since .. now : snapshot' = [query |-> Metric!Query, at |-> at]
        PROVE  MetricInv' /\ [Metric!Panel!Next]_(Metric!Panel!vars)
    <2>1. UNCHANGED <<now, Metric!Query, since>>
      BY <1>a DEF Metric!choices, Metric!Query
    <2>2. RequestsAreCurrent' /\ net' \subseteq Metric!Requests
      BY <1>a, <2>1 DEF MetricInv, RequestsAreCurrent, Metric!TypeOK
    <2>3. Metric!Query \in Metric!Choices /\ since .. now \subseteq 0 .. MaxNow
      BY <1>0, QueryIsChoice DEF MetricInv, Metric!TypeOK
    <2>4. CurvesAreCurrent' /\ snapshot' \in {None} \cup [query: Metric!Choices, at: 0 .. MaxNow]
      BY <1>a, <2>1, <2>3 DEF MetricInv, CurvesAreCurrent, Metric!TypeOK
    <2>5. MetricInv'
      BY <1>a, <2>1, <2>2, <2>4 DEF MetricInv, Metric!TypeOK, Metric!choices
    <2>6. CASE snapshot' = snapshot
      BY <1>a, <2>1, <2>5, <2>6, MetricStays DEF Metric!Shown
    <2>7. CASE snapshot' = None
      BY <2>1, <2>5, <2>7, MetricPanelIs DEF Metric!Shown, Metric!Panel!Next
    <2>8. CASE /\ dialog = "open"
               /\ \E at \in since .. now : snapshot' = [query |-> Metric!Query, at |-> at]
      BY <1>a, <2>1, <2>5, <2>8, MetricPanelIs DEF Metric!Shown, Metric!Panel!Next
    <2> QED  BY <1>a, <2>6, <2>7, <2>8
  <1>3. CASE \E r \in net : Metric!Draw(r)
    <2> PICK r \in net : Metric!Draw(r)
      BY <1>3
    <2>1. r.query = Metric!Query /\ r.at \in since .. now
      BY DEF Metric!Draw, MetricInv, RequestsAreCurrent
    <2>2. \/ snapshot' = snapshot
          \/ dialog = "open" /\ snapshot' = [query |-> Metric!Query, at |-> r.at]
      BY <2>1 DEF Metric!Draw, Metric!Answer
    <2>3. net' \subseteq net /\ UNCHANGED <<now, dialog, demo, machines, Metric!choices, generation, since>>
      BY DEF Metric!Draw
    <2> QED  BY <1>a, <2>1, <2>2, <2>3
  <1>4. CASE \E r \in net : Metric!Fail(r)
    <2>1. /\ net' \subseteq net /\ (snapshot' = snapshot \/ snapshot' = None)
          /\ UNCHANGED <<now, dialog, demo, machines, Metric!choices, generation, since>>
      BY <1>4 DEF Metric!Fail
    <2> QED  BY <1>a, <2>1
  <1>5. CASE \E r \in net : Metric!MachinesRead(r)
    <2> PICK r \in net : Metric!MachinesRead(r)
      BY <1>5
    <2>1. CASE r.gen = generation /\ dialog = "open"
      <3>1. /\ Metric!load(Metric!Reads("config") \ {r}, Machines) /\ machines' = Machines
            /\ machineId' \in Machines \cup {None}
            /\ UNCHANGED <<now, dialog, demo, taskId, follow, manualRange>>
        BY <1>0, <2>1 DEF Metric!MachinesRead
      <3>2. Metric!Reads("config") \ {r} \subseteq Metric!Reads("config")
        OBVIOUS
      <3> QED  BY <1>0, <3>1, <3>2, MetricLoads
    <2>2. CASE ~(r.gen = generation /\ dialog = "open")
      <3>1. /\ net' \subseteq net /\ snapshot' = snapshot
            /\ UNCHANGED <<now, dialog, demo, machines, Metric!choices, generation, since>>
        BY <2>2 DEF Metric!MachinesRead, Metric!choices
      <3> QED  BY <1>a, <3>1
    <2> QED  BY <2>1, <2>2
  <1>6. CASE \/ \E m \in Machines \cup {None} : Metric!Open(m, None)
             \/ \E m \in Machines, t \in Tasks : Metric!Open(m, t)
    <2>1. PICK m \in Machines \cup {None}, t \in Tasks \cup {None} : Metric!Open(m, t)
      BY <1>6
    <2>2. Metric!Reads("config") \subseteq Metric!Reads("config")
      OBVIOUS
    <2>3. /\ machineId' \in Machines \cup {None} /\ taskId' \in Tasks \cup {None}
          /\ follow' \in BOOLEAN /\ manualRange' \in Ranges \cup {None} /\ dialog' = "open"
          /\ demo' = FALSE /\ machines' = machines /\ generation' \in Generations
          /\ net' = Metric!Reads("config") \cup {Metric!Config(generation')}
          /\ snapshot' = None /\ since' = now /\ now' = now
      BY <2>1 DEF Metric!Open, Metric!cancel
    <2> QED  BY <1>0, <2>2, <2>3, MetricAsks
  <1>7. CASE Metric!OpenInDemo
    <2>1. Metric!Reads("config") \subseteq Metric!Reads("config")
      OBVIOUS
    <2>2. /\ machineId' \in Machines \cup {None} /\ taskId' \in Tasks \cup {None}
          /\ follow' \in BOOLEAN /\ manualRange' \in Ranges \cup {None} /\ dialog' = "open"
          /\ demo' = TRUE /\ machines' = Machines /\ generation' \in Generations
          /\ net' = Metric!Reads("config")
          /\ snapshot' = Metric!Answer(Metric!Query', now) /\ since' = now /\ now' = now
      BY <1>0, <1>7 DEF Metric!OpenInDemo, Metric!cancel
    <2> QED  BY <1>0, <2>1, <2>2, MetricAsks
  <1>8. CASE \/ Metric!Select \/ Metric!setRange \/ Metric!WholeTask \/ Metric!Live
             \/ Metric!Refresh \/ Metric!Tick
    <2>1. Metric!Reads("config") \subseteq Metric!Reads("config")
      OBVIOUS
    <2>2. Metric!Chooses
      BY <1>8 DEF Metric!Select, Metric!setRange, Metric!WholeTask, Metric!Live, Metric!Refresh,
             Metric!Tick
    <2>3. /\ Metric!load(Metric!Reads("config"), machines)
          /\ UNCHANGED <<now, dialog, demo>> /\ machines' \in {{}, Machines}
      BY <1>0, <2>2 DEF Metric!Chooses
    <2>4. /\ machineId' \in Machines \cup {None} /\ taskId' \in Tasks \cup {None}
          /\ follow' \in BOOLEAN /\ manualRange' \in Ranges \cup {None}
      BY <1>0, <1>8 DEF Metric!Select, Metric!setRange, Metric!WholeTask, Metric!Live,
             Metric!Refresh, Metric!Tick, Metric!choices
    <2> QED  BY <2>1, <2>3, <2>4, MetricLoads
  <1>9. CASE Metric!Close
    <2>1. UNCHANGED <<now, Metric!Query, since>> /\ Metric!Shown' = None
      BY <1>9 DEF Metric!Close, Metric!choices, Metric!Query, Metric!Shown
    <2>2. MetricInv'
      BY <1>9, <2>1 DEF Metric!Close, Metric!choices, MetricInv, Metric!TypeOK,
             RequestsAreCurrent, CurvesAreCurrent
    <2> QED  BY <2>1, <2>2, MetricPanelIs DEF Metric!Panel!Next
  <1>10. CASE Metric!Closed
    <2>1. UNCHANGED <<now, Metric!Query, since>> /\ Metric!Shown' = None
      BY <1>10 DEF Metric!Closed, Metric!choices, Metric!Query, Metric!Shown
    <2>2. /\ net' \subseteq Metric!Requests /\ \A r \in net' : r.kind = "config"
          /\ generation' \in Generations
      BY <1>10 DEF Metric!Closed, Metric!cancel, Metric!Reads, MetricInv, Metric!TypeOK
    <2>3. MetricInv'
      BY <1>10, <2>1, <2>2 DEF Metric!Closed, Metric!choices, MetricInv, Metric!TypeOK,
             RequestsAreCurrent, CurvesAreCurrent
    <2> QED  BY <2>1, <2>3, MetricPanelIs DEF Metric!Panel!Next
  <1>11. CASE UNCHANGED Metric!vars
    <2>1. /\ UNCHANGED <<now, dialog, demo, machines, Metric!choices, generation, since>>
          /\ net' \subseteq net /\ snapshot' = snapshot
      BY <1>11 DEF Metric!vars
    <2> QED  BY <1>a, <2>1
  <1> QED  BY <1>1, <1>2, <1>3, <1>4, <1>5, <1>6, <1>7, <1>8, <1>9, <1>10, <1>11
             DEF Metric!Next, Metric!Reader, Metric!Answers

LEMMA MetricStarts ==
    ASSUME Metric!MetricsPanelAssumption, Metric!Init
    PROVE  MetricInv /\ Metric!Panel!Init
  <1>1. Metric!Query \in Metric!Choices
    BY QueryIsChoice DEF Metric!Init
  <1>2. 0 \in 0 .. MaxNow
    BY DEF Metric!MetricsPanelAssumption
  <1>3. MetricInv
    <2>1. Metric!TypeOK
      BY <1>2 DEF Metric!Init, Metric!TypeOK
    <2>2. since <= now /\ RequestsAreCurrent /\ CurvesAreCurrent
      BY DEF Metric!Init, RequestsAreCurrent, CurvesAreCurrent
    <2> QED  BY <2>1, <2>2 DEF MetricInv
  <1> QED  BY <1>1, <1>3 DEF Metric!Init, Metric!Panel!Init, Metric!Shown

\* What the dialog of metrics shows answers the machine or task and the range
\* beside it and is no older than their choice, through late answers, closing
\* and reopening (metrics.js:62-110).
THEOREM MetricsImplement ==
    ASSUME Metric!MetricsPanelAssumption
    PROVE  Metric!Spec => Metric!Implements /\ []Metric!CurvesMatch
  <1>1. Metric!Init => MetricInv /\ Metric!Panel!Init
    BY MetricStarts
  <1>2. MetricInv /\ [Metric!Next]_(Metric!vars)
        => MetricInv' /\ [Metric!Panel!Next]_(Metric!Panel!vars)
    BY MetricStep
  <1>3. MetricInv => Metric!CurvesMatch
    BY DEF MetricInv, Metric!TypeOK, CurvesAreCurrent, Metric!CurvesMatch, Metric!Panel!Matches,
           Metric!Shown
  <1> QED  BY <1>1, <1>2, <1>3, PTL DEF Metric!Spec, Metric!Implements, Metric!Panel!Spec

-----------------------------------------------------------------------------
(* Hourly utilization.                                                      *)

Orders == [query: Usage!Choices, at: 0 .. MaxNow \cup {None}]
Tables == [query: Usage!Choices, at: 0 .. MaxNow]

\* The request in flight and the table answer the choices as they are now,
\* also while the dialog is closed; then there is no table.
RequestIsCurrent ==
    request # None =>
        request.query = Usage!Query /\ (request.at # None => request.at \in since .. now)
TableIsCurrent ==
    snapshot # None => snapshot.query = Usage!Query /\ snapshot.at \in since .. now
UsageInv ==
    /\ Usage!TypeOK /\ since <= now
    /\ RequestIsCurrent /\ TableIsCurrent
    /\ dialog = "closed" => snapshot = None

\* What the promise is made of.
LEMMA UsagePanelIs ==
    /\ Usage!Panel!Changes <=> now' > now /\ UNCHANGED <<Usage!Query, since, Usage!Shown>>
    /\ Usage!Panel!Show <=>
           /\ \E at \in since .. now : Usage!Shown' = [query |-> Usage!Query, at |-> at]
           /\ UNCHANGED <<now, Usage!Query, since>>
    /\ Usage!Panel!Hide <=> Usage!Shown' = None /\ UNCHANGED <<now, Usage!Query, since>>
  BY DEF Usage!Panel!Changes, Usage!Panel!Show, Usage!Panel!Hide, Usage!Panel!Answer

LEMMA UsageAsks ==
    ASSUME Usage!Query' \in Usage!Choices, since' = now, Usage!Shown' = None, UNCHANGED now
    PROVE  Usage!Panel!Next
  <1>1. PICK q \in Usage!Choices : q = Usage!Query'
    OBVIOUS
  <1>2. Usage!Panel!Ask(q)
    BY <1>1 DEF Usage!Panel!Ask
  <1> QED  BY <1>2 DEF Usage!Panel!Next

LEMMA UsageStays ==
    ASSUME UNCHANGED <<now, Usage!Query, since, Usage!Shown>>
    PROVE  UNCHANGED Usage!Panel!vars
  BY DEF Usage!Panel!vars

\* load() empties the table and asks for the choices as they are after the
\* handler, whether or not the dialog is open.
LEMMA UsageLoads ==
    ASSUME Usage!UtilizationAssumption, UsageInv, Usage!load, period' \in Usage!Periods,
           group' \in Groups, openings' \in 0 .. MaxOpenings, UNCHANGED <<now, demo, dialog, day>>
    PROVE  UsageInv' /\ Usage!Panel!Next
  <1>1. Usage!Query' \in Usage!Choices
    BY DEF Usage!Query, Usage!Choices
  <1>2. snapshot' = None /\ since' = now
    BY DEF Usage!load
  <1>3. \/ request' = None
        \/ request' \in Orders /\ request'.query = Usage!Query' /\ request'.at = None
    BY <1>1 DEF Usage!load, Orders
  <1>4. now \in 0 .. MaxNow /\ MaxNow \in Nat
    BY DEF UsageInv, Usage!TypeOK, Usage!UtilizationAssumption
  <1>5. Usage!TypeOK'
    BY <1>2, <1>3, <1>4 DEF Usage!TypeOK, UsageInv, Orders
  <1>6. RequestIsCurrent' /\ TableIsCurrent' /\ since' <= now'
    BY <1>2, <1>3, <1>4 DEF RequestIsCurrent, TableIsCurrent
  <1>7. Usage!Shown' = None
    BY <1>2 DEF Usage!Shown
  <1>8. Usage!Panel!Next
    BY <1>1, <1>2, <1>7, UsageAsks
  <1> QED  BY <1>2, <1>5, <1>6, <1>8 DEF UsageInv

\* Every step keeps what is shown current, and implements a step or a stutter.
LEMMA UsageStep ==
    ASSUME Usage!UtilizationAssumption, UsageInv, [Usage!Next]_(Usage!vars)
    PROVE  UsageInv' /\ [Usage!Panel!Next]_(Usage!Panel!vars)
  <1>0. now \in Nat /\ since \in Nat /\ MaxNow \in Nat /\ NoGroup \in Groups
    BY DEF UsageInv, Usage!TypeOK, Usage!UtilizationAssumption
  <1>1. CASE Usage!HistoryGrows
    <2>1. UNCHANGED <<Usage!Query, since, Usage!Shown>>
      BY <1>1 DEF Usage!HistoryGrows, Usage!inputs, Usage!Query, Usage!Shown
    <2>2. Usage!Panel!Next
      BY <1>0, <1>1, <2>1, UsagePanelIs DEF Usage!HistoryGrows, Usage!Panel!Next
    <2>3. UsageInv'
      BY <1>0, <1>1, <2>1 DEF Usage!HistoryGrows, Usage!inputs, UsageInv, Usage!TypeOK, RequestIsCurrent, TableIsCurrent
    <2> QED  BY <2>2, <2>3
  <1>2. CASE Usage!SwitchDemo
    <2>1. UNCHANGED <<now, Usage!Query, since, Usage!Shown>>
      BY <1>2 DEF Usage!SwitchDemo, Usage!inputs, Usage!Query, Usage!Shown
    <2>2. UsageInv'
      BY <1>2, <2>1 DEF Usage!SwitchDemo, Usage!inputs, UsageInv, Usage!TypeOK, RequestIsCurrent, TableIsCurrent
    <2> QED  BY <2>1, <2>2, UsageStays
  <1>3. CASE Usage!Serve
    <2>1. UNCHANGED <<now, Usage!Query, since, Usage!Shown>>
      BY <1>3 DEF Usage!Serve, Usage!inputs, Usage!Query, Usage!Shown
    <2>2. request \in Orders
      BY <1>3 DEF Usage!Serve, UsageInv, Usage!TypeOK, Orders
    <2>3. request' \in Orders /\ request'.query = request.query /\ request'.at = now
      BY <1>0, <1>3, <2>2 DEF Usage!Serve, Orders, UsageInv, Usage!TypeOK
    <2>4. Usage!TypeOK' /\ RequestIsCurrent' /\ TableIsCurrent'
      BY <1>0, <1>3, <2>1, <2>3 DEF Usage!Serve, Usage!inputs, UsageInv, Usage!TypeOK, RequestIsCurrent, TableIsCurrent, Orders
    <2>5. UsageInv'
      BY <1>3, <2>4 DEF Usage!Serve, UsageInv
    <2> QED  BY <2>1, <2>5, UsageStays
  <1>4. CASE Usage!Answered
    <2>1. UNCHANGED <<now, Usage!Query, since, dialog>> /\ request' = None
      BY <1>4 DEF Usage!Answered, Usage!Query
    <2>2. /\ request \in Tables /\ request.query = Usage!Query /\ request.at \in since .. now
          /\ request.query.period \in Usage!Periods
      BY <1>4 DEF Usage!Answered, UsageInv, Usage!TypeOK, RequestIsCurrent, Tables, Usage!Choices
    <2>3. CASE dialog = "open"
      <3>1. snapshot' = request /\ day' \in Usage!Days("week")
        BY <1>4, <2>2, <2>3 DEF Usage!Answered, Usage!Days, Usage!First, Usage!Periods, Usage!Pattern, UsageInv, Usage!TypeOK
      <3>2. Usage!Shown' = [query |-> Usage!Query, at |-> request.at]
        BY <2>1, <2>2, <2>3, <3>1 DEF Usage!Shown, Tables
      <3>3. Usage!Panel!Next
        BY <2>1, <2>2, <3>2, UsagePanelIs DEF Usage!Panel!Next
      <3>4. Usage!TypeOK'
        BY <1>4, <2>1, <2>2, <3>1 DEF Usage!Answered, UsageInv, Usage!TypeOK, Tables
      <3>5. UsageInv'
        BY <1>4, <2>1, <2>2, <2>3, <3>1, <3>4 DEF Usage!Answered, UsageInv, RequestIsCurrent, TableIsCurrent
      <3> QED  BY <3>3, <3>5
    <2>4. CASE dialog # "open"
      <3>1. UNCHANGED <<snapshot, day>>
        BY <1>4, <2>4 DEF Usage!Answered
      <3>2. UsageInv'
        BY <1>4, <2>1, <3>1 DEF Usage!Answered, UsageInv, Usage!TypeOK, RequestIsCurrent, TableIsCurrent
      <3>3. UNCHANGED Usage!Shown
        BY <2>1, <3>1 DEF Usage!Shown
      <3> QED  BY <2>1, <3>2, <3>3, UsageStays
    <2> QED  BY <2>3, <2>4
  <1>5. CASE Usage!Fail
    <2>1. UNCHANGED <<now, Usage!Query, since, dialog, demo, Usage!inputs>>
      BY <1>5 DEF Usage!Fail, Usage!inputs, Usage!Query
    <2>2. CASE request # None /\ request' = None /\ snapshot' = None /\ UNCHANGED openings
      <3>1. UsageInv'
        BY <2>1, <2>2 DEF Usage!inputs, UsageInv, Usage!TypeOK, RequestIsCurrent, TableIsCurrent
      <3>2. Usage!Panel!Next
        BY <2>1, <2>2, UsagePanelIs DEF Usage!Shown, Usage!Panel!Next
      <3> QED  BY <3>1, <3>2
    <2>3. CASE openings > 0 /\ openings' = openings - 1 /\ UNCHANGED <<request, snapshot>>
      <3>1. openings' \in 0 .. MaxOpenings
        BY <2>3 DEF UsageInv, Usage!TypeOK, Usage!UtilizationAssumption
      <3>2. UsageInv'
        BY <2>1, <2>3, <3>1 DEF Usage!inputs, UsageInv, Usage!TypeOK, RequestIsCurrent, TableIsCurrent
      <3>3. UNCHANGED Usage!Shown
        BY <2>1, <2>3 DEF Usage!Shown
      <3> QED  BY <2>1, <3>2, <3>3, UsageStays
    <2> QED  BY <1>5, <2>2, <2>3 DEF Usage!Fail
  <1>6. CASE Usage!Open
    <2>1. UNCHANGED <<now, Usage!Query, since>> /\ Usage!Shown' = Usage!Shown
      BY <1>6 DEF Usage!Open, Usage!inputs, Usage!Query, Usage!Shown, UsageInv
    <2>2. openings' \in 0 .. MaxOpenings
      BY <1>6 DEF Usage!Open, UsageInv, Usage!TypeOK, Usage!UtilizationAssumption
    <2>3. UsageInv'
      BY <1>6, <2>1, <2>2 DEF Usage!Open, Usage!inputs, UsageInv, Usage!TypeOK, RequestIsCurrent, TableIsCurrent
    <2> QED  BY <2>1, <2>3, UsageStays
  <1>7. CASE Usage!Opened
    <2>1. openings' \in 0 .. MaxOpenings
      BY <1>7 DEF Usage!Opened, UsageInv, Usage!TypeOK, Usage!UtilizationAssumption
    <2> QED  BY <1>0, <1>7, <2>1, UsageLoads DEF Usage!Opened, UsageInv, Usage!TypeOK
  <1>8. CASE Usage!Choose
    BY <1>8, UsageLoads DEF Usage!Choose, UsageInv, Usage!TypeOK
  <1>9. CASE Usage!ChooseDay
    <2>1. UNCHANGED <<now, Usage!Query, since, Usage!Shown>>
      BY <1>9 DEF Usage!ChooseDay, Usage!Query, Usage!Shown
    <2>2. day' \in Usage!Days("week")
      BY <1>9 DEF Usage!ChooseDay, Usage!Days, Usage!Pattern
    <2>3. UsageInv'
      BY <1>9, <2>1, <2>2 DEF Usage!ChooseDay, UsageInv, Usage!TypeOK, RequestIsCurrent, TableIsCurrent
    <2> QED  BY <2>1, <2>3, UsageStays
  <1>10. CASE Usage!Close
    <2>1. UNCHANGED <<now, Usage!Query, since>> /\ Usage!Shown' = None
      BY <1>10 DEF Usage!Close, Usage!inputs, Usage!Query, Usage!Shown
    <2>2. UsageInv'
      BY <1>10, <2>1 DEF Usage!Close, Usage!inputs, UsageInv, Usage!TypeOK, RequestIsCurrent, TableIsCurrent
    <2> QED  BY <2>1, <2>2, UsagePanelIs DEF Usage!Panel!Next
  <1>11. CASE Usage!Closed
    <2>1. UNCHANGED <<now, Usage!Query, since>> /\ Usage!Shown' = None
      BY <1>11 DEF Usage!Closed, Usage!inputs, Usage!Query, Usage!Shown
    <2>2. UsageInv'
      BY <1>11, <2>1 DEF Usage!Closed, Usage!inputs, UsageInv, Usage!TypeOK, RequestIsCurrent, TableIsCurrent
    <2> QED  BY <2>1, <2>2, UsagePanelIs DEF Usage!Panel!Next
  <1>12. CASE UNCHANGED Usage!vars
    <2>1. UNCHANGED <<now, Usage!Query, since, Usage!Shown>>
      BY <1>12 DEF Usage!vars, Usage!inputs, Usage!Query, Usage!Shown
    <2>2. UsageInv'
      BY <1>12, <2>1 DEF Usage!vars, Usage!inputs, UsageInv, Usage!TypeOK, RequestIsCurrent, TableIsCurrent
    <2> QED  BY <2>1, <2>2, UsageStays
  <1> QED  BY <1>1, <1>2, <1>3, <1>4, <1>5, <1>6, <1>7, <1>8, <1>9, <1>10, <1>11, <1>12 DEF Usage!Next

\* The answer chooses the day where the chosen one is not covered.
LEMMA UsageStarts ==
    ASSUME Usage!UtilizationAssumption, Usage!Init
    PROVE  UsageInv /\ Usage!Panel!Init
  <1>1. NoGroup \in Groups /\ MaxOpenings \in Nat /\ MaxNow \in Nat
    BY DEF Usage!UtilizationAssumption
  <1>2. Usage!Query \in Usage!Choices
    BY <1>1 DEF Usage!Init, Usage!Query, Usage!Choices, Usage!Periods
  <1>3. 1 \in Usage!Days("week") /\ 0 \in 0 .. MaxOpenings /\ 0 \in 0 .. MaxNow
    BY <1>1 DEF Usage!Days
  <1>4. Usage!TypeOK
    BY <1>1, <1>3 DEF Usage!Init, Usage!TypeOK, Usage!Periods
  <1>5. UsageInv
    BY <1>4 DEF Usage!Init, UsageInv, RequestIsCurrent, TableIsCurrent
  <1>6. Usage!Panel!Init
    BY <1>2 DEF Usage!Init, Usage!Panel!Init, Usage!Shown
  <1> QED  BY <1>5, <1>6

LEMMA DayStep ==
    ASSUME Usage!UtilizationAssumption, UsageInv, Usage!DayIsCovered, [Usage!Next]_(Usage!vars)
    PROVE  Usage!DayIsCovered'
  <1>1. snapshot' = None \/ UNCHANGED <<snapshot, day>> => Usage!DayIsCovered'
    BY DEF Usage!DayIsCovered
  <1>2. CASE Usage!HistoryGrows \/ Usage!SwitchDemo \/ Usage!Serve \/ Usage!Open \/ Usage!Close
             \/ Usage!Closed \/ UNCHANGED Usage!vars
    BY <1>1, <1>2 DEF Usage!HistoryGrows, Usage!SwitchDemo, Usage!Serve, Usage!Open, Usage!Close,
           Usage!Closed, Usage!vars, Usage!inputs
  <1>3. CASE Usage!Opened \/ Usage!Choose \/ Usage!Fail
    BY <1>1, <1>3 DEF Usage!Opened, Usage!Choose, Usage!Fail, Usage!load, Usage!inputs
  <1>4. CASE Usage!Answered
    BY <1>1, <1>4 DEF Usage!Answered, Usage!DayIsCovered, Usage!Days, Usage!First, Usage!Pattern
  <1>5. CASE Usage!ChooseDay
    BY <1>5 DEF Usage!ChooseDay, Usage!DayIsCovered
  <1> QED  BY <1>2, <1>3, <1>4, <1>5 DEF Usage!Next

\* What the utilization dialog shows answers the period and the group beside
\* it and is no older than their choice, through aborted and late requests and
\* openings that go on in later ones; and it covers the day whose hours are
\* drawn (utilization.js:32-70).
THEOREM UtilizationImplements ==
    ASSUME Usage!UtilizationAssumption
    PROVE  Usage!Spec => Usage!Implements /\ []Usage!DayIsCovered
  <1>1. Usage!Init => UsageInv /\ Usage!Panel!Init
    BY UsageStarts
  <1>2. UsageInv /\ [Usage!Next]_(Usage!vars) => UsageInv' /\ [Usage!Panel!Next]_(Usage!Panel!vars)
    BY UsageStep
  <1>3. Usage!Init => Usage!DayIsCovered
    BY DEF Usage!Init, Usage!DayIsCovered
  <1>4. UsageInv /\ Usage!DayIsCovered /\ [Usage!Next]_(Usage!vars) => Usage!DayIsCovered'
    BY DayStep
  <1> QED  BY <1>1, <1>2, <1>3, <1>4, PTL DEF Usage!Spec, Usage!Implements, Usage!Panel!Spec

-----------------------------------------------------------------------------
(* Idle machines.                                                           *)

\* What is asked for and what can be exported answers the filter as it is; and
\* so does what is in sight once nothing is asked for.
AnswersFilter(a) == a.query = filter /\ a.at \in since .. now
RankingIsCurrent ==
    /\ request # None => request.query = filter /\ (request.at # None => request.at \in since .. now)
    /\ snapshot # None /\ dialog = "open" /\ (request = None \/ (exportable /\ ~boxed))
       => AnswersFilter(snapshot)
\* One opening at most belongs to the dialog, and its timer does not run yet.
OneOpening ==
    /\ \A o \in openings : o.epoch = openEpoch => timer = None
    /\ \A o, p \in openings : o.epoch = openEpoch /\ p.epoch = openEpoch => o = p
RankingInv ==
    /\ Ranking!TypeOK /\ since <= now
    /\ RankingIsCurrent /\ OneOpening /\ Ranking!NoTimerIsLost

Rankings == [query: Filters, at: 0 .. MaxRanking]
Inquiries == [gen: Names, query: Filters, at: 0 .. MaxRanking \cup {None}]
Steps == [epoch: Names, stage: {"config", "loading"}, load: Names \cup {None}]

LEMMA RankingPanelIs ==
    /\ Ranking!Panel!Changes <=> now' > now /\ UNCHANGED <<Ranking!Query, since, Ranking!Exported>>
    /\ Ranking!Panel!Show <=>
           /\ \E at \in since .. now : Ranking!Exported' = [query |-> Ranking!Query, at |-> at]
           /\ UNCHANGED <<now, Ranking!Query, since>>
    /\ Ranking!Panel!Hide <=> Ranking!Exported' = None /\ UNCHANGED <<now, Ranking!Query, since>>
    /\ \A q \in Filters : Ranking!Panel!Ask(q) <=>
           /\ Ranking!Query' = q /\ since' = now /\ UNCHANGED now
           /\ Ranking!Exported' = None \/ Ranking!Exported' = [query |-> q, at |-> now]
  BY DEF Ranking!Panel!Changes, Ranking!Panel!Show, Ranking!Panel!Hide, Ranking!Panel!Ask,
         Ranking!Panel!Answer

LEMMA RankingStays ==
    ASSUME UNCHANGED <<now, Ranking!Query, since, Ranking!Exported>>
    PROVE  UNCHANGED Ranking!Panel!vars
  BY DEF Ranking!Panel!vars

\* load(): the old ranking stays, but is not exported.
LEMMA RankingLoads ==
    ASSUME Ranking!IdleRankingAssumption, RankingInv, Ranking!load, filter' \in Filters,
           UNCHANGED <<now, demo, dialog>>
    PROVE  /\ now' \in 0 .. MaxRanking /\ since' \in 0 .. MaxRanking /\ since' <= now'
           /\ generation' \in Names /\ request' \in {None} \cup Inquiries
           /\ snapshot' \in {None} \cup Rankings /\ exportable' \in BOOLEAN /\ boxed' \in BOOLEAN
           /\ RankingIsCurrent' /\ Ranking!Panel!Next
  <1>0. now \in 0 .. MaxRanking /\ MaxRanking \in Nat /\ snapshot \in {None} \cup Rankings
    BY DEF RankingInv, Ranking!TypeOK, Ranking!IdleRankingAssumption, Rankings
  <1>1. generation' \in Names /\ exportable' = FALSE /\ boxed' = FALSE /\ since' = now
    BY DEF Ranking!load
  <1>2. \/ request' = None /\ snapshot' = None
        \/ /\ request' \in Inquiries /\ request'.query = filter' /\ request'.at = None
           /\ snapshot' = snapshot
    BY <1>1 DEF Ranking!load, Inquiries
  <1>a. None \notin Inquiries
    BY DEF Ranking!IdleRankingAssumption, Inquiries
  <1>3. RankingIsCurrent'
    BY <1>1, <1>2, <1>a DEF RankingIsCurrent
  <1>4. Ranking!Exported' = None
    BY <1>1 DEF Ranking!Exported
  <1>5. Ranking!Panel!Ask(filter')
    BY <1>1, <1>4, RankingPanelIs DEF Ranking!Query
  <1>6. Ranking!Panel!Next
    BY <1>5 DEF Ranking!Panel!Next
  <1>7. now' \in 0 .. MaxRanking /\ since' \in 0 .. MaxRanking /\ since' <= now'
    BY <1>0, <1>1
  <1>8. request' \in {None} \cup Inquiries /\ snapshot' \in {None} \cup Rankings
    BY <1>0, <1>2
  <1> QED  BY <1>1, <1>3, <1>6, <1>7, <1>8

\* The timers and the openings, whose steps load() has no part in.
LEMMA TimersStep ==
    ASSUME Ranking!IdleRankingAssumption, RankingInv, [Ranking!Next]_(Ranking!vars)
    PROVE  /\ openEpoch' \in Names /\ openings' \subseteq Steps
           /\ timer' \in Names \cup {None} /\ running' \subseteq Names
           /\ OneOpening' /\ Ranking!NoTimerIsLost'
  <1>0. /\ openEpoch \in Names /\ openings \subseteq Steps /\ timer \in Names \cup {None}
        /\ running \subseteq Names /\ generation \in Names /\ None \notin Names
        /\ OneOpening /\ Ranking!NoTimerIsLost
    BY DEF RankingInv, Ranking!TypeOK, Steps, Ranking!IdleRankingAssumption
  <1>1. CASE UNCHANGED <<openEpoch, openings, timer, running>> /\ (dialog' = "closed" => dialog = "closed")
    BY <1>0, <1>1 DEF OneOpening, Ranking!NoTimerIsLost
  <1>2. CASE Ranking!Open
    <2> DEFINE o == [epoch |-> openEpoch', stage |-> "config", load |-> None]
    <2>1. /\ openEpoch' \in Names \ {openEpoch} /\ \A p \in openings : p.epoch # openEpoch'
          /\ timer' = None /\ running' = running \ {timer} /\ dialog' = "open"
          /\ openings' = openings \cup {o}
      BY <1>2 DEF Ranking!Open, Ranking!newEpoch, Ranking!clearInterval, Ranking!Epochs
    <2>2. o \in Steps
      BY <2>1 DEF Steps
    <2> HIDE DEF o
    <2> QED  BY <1>0, <2>1, <2>2 DEF OneOpening, Ranking!NoTimerIsLost
  <1>3. CASE Ranking!Closed
    <2>1. /\ openEpoch' \in Names \ {openEpoch} /\ \A p \in openings : p.epoch # openEpoch'
          /\ timer' = None /\ running' = running \ {timer} /\ openings' = openings
      BY <1>3 DEF Ranking!Closed, Ranking!newEpoch, Ranking!clearInterval, Ranking!Epochs
    <2> QED  BY <1>0, <2>1 DEF OneOpening, Ranking!NoTimerIsLost
  \* An opening that ends, or goes on.
  <1>4. CASE openings' \subseteq openings /\ UNCHANGED <<openEpoch, timer, running, dialog>>
    BY <1>0, <1>4 DEF OneOpening, Ranking!NoTimerIsLost
  <1>5. CASE \E o \in openings : Ranking!ConfigRead(o)
    <2> PICK o \in openings : Ranking!ConfigRead(o)
      BY <1>5
    <2>1. CASE Ranking!Mine(o)
      <3> DEFINE s == [epoch |-> o.epoch, stage |-> "loading", load |-> generation']
      <3>1. /\ openings' = (openings \ {o}) \cup {s} /\ generation' \in Names
            /\ UNCHANGED <<dialog, openEpoch, timer, running>> /\ o.epoch = openEpoch
        BY <2>1 DEF Ranking!ConfigRead, Ranking!timers, Ranking!load, Ranking!Mine
      <3>2. s \in Steps /\ s.epoch = openEpoch
        BY <1>0, <3>1 DEF Steps
      <3> HIDE DEF s
      <3> QED  BY <1>0, <3>1, <3>2 DEF OneOpening, Ranking!NoTimerIsLost
    <2>2. CASE ~Ranking!Mine(o)
      BY <1>4, <2>2 DEF Ranking!ConfigRead, Ranking!timers
    <2> QED  BY <2>1, <2>2
  <1>6. CASE \E o \in openings : Ranking!ConfigFails(o)
    BY <1>4, <1>6 DEF Ranking!ConfigFails, Ranking!timers
  <1>7. CASE \E o \in openings : Ranking!Loaded(o)
    <2> PICK o \in openings : Ranking!Loaded(o)
      BY <1>7
    <2>1. CASE Ranking!Mine(o)
      <3>1. /\ openings' = openings \ {o} /\ timer' = o.epoch /\ running' = running \cup {o.epoch}
            /\ UNCHANGED <<dialog, openEpoch>> /\ o.epoch = openEpoch /\ dialog = "open"
        BY <2>1 DEF Ranking!Loaded, Ranking!Mine
      <3>2. timer = None /\ running = {} /\ \A p \in openings \ {o} : p.epoch # openEpoch
        BY <1>0, <3>1 DEF OneOpening, Ranking!NoTimerIsLost
      <3> QED  BY <1>0, <3>1, <3>2 DEF OneOpening, Ranking!NoTimerIsLost
    <2>2. CASE ~Ranking!Mine(o)
      BY <1>4, <2>2 DEF Ranking!Loaded, Ranking!timers
    <2> QED  BY <2>1, <2>2
  <1> QED  BY <1>1, <1>2, <1>3, <1>5, <1>6, <1>7
             DEF Ranking!Next, Ranking!RankingChanges, Ranking!SwitchDemo, Ranking!Serve,
                 Ranking!Answered, Ranking!Fail, Ranking!Choose, Ranking!Refresh, Ranking!Tick,
                 Ranking!ToggleAvailable, Ranking!Close, Ranking!vars, Ranking!timers

\* Every step keeps what can be exported current, and implements a step or a stutter.
LEMMA RankingStep ==
    ASSUME Ranking!IdleRankingAssumption, RankingInv, [Ranking!Next]_(Ranking!vars)
    PROVE  RankingInv' /\ [Ranking!Panel!Next]_(Ranking!Panel!vars)
  <1>0. /\ now \in 0 .. MaxRanking /\ since \in 0 .. MaxRanking /\ MaxRanking \in Nat
        /\ now \in Nat /\ since \in Nat /\ since <= now
        /\ demo \in BOOLEAN /\ dialog \in {"open", "closing", "closed"} /\ filter \in Filters
        /\ generation \in Names /\ request \in {None} \cup Inquiries
        /\ snapshot \in {None} \cup Rankings /\ exportable \in BOOLEAN /\ boxed \in BOOLEAN
        /\ RankingIsCurrent
    BY DEF RankingInv, Ranking!TypeOK, Ranking!IdleRankingAssumption, Rankings, Inquiries
  <1>a. ASSUME now' \in 0 .. MaxRanking, since' \in 0 .. MaxRanking, since' <= now',
               demo' \in BOOLEAN, dialog' \in {"open", "closing", "closed"}, filter' \in Filters,
               generation' \in Names, request' \in {None} \cup Inquiries,
               snapshot' \in {None} \cup Rankings, exportable' \in BOOLEAN, boxed' \in BOOLEAN,
               RankingIsCurrent'
        PROVE  RankingInv'
    BY <1>a, TimersStep DEF RankingInv, Ranking!TypeOK, Rankings, Inquiries, Steps
  <1>b. ASSUME Ranking!load, filter' \in Filters, UNCHANGED <<now, demo, dialog>>
        PROVE  RankingInv' /\ Ranking!Panel!Next
    BY <1>0, <1>a, <1>b, RankingLoads
  \* A step that asks for nothing.
  <1>c. ASSUME UNCHANGED <<now, since, filter, demo, generation>>,
               dialog' \in {"open", "closing", "closed"}, request' \in {None} \cup Inquiries,
               snapshot' \in {None} \cup Rankings, exportable' \in BOOLEAN, boxed' \in BOOLEAN,
               RankingIsCurrent'
        PROVE  RankingInv' /\ [Ranking!Panel!Next]_(Ranking!Panel!vars)
    <2>1. RankingInv' /\ UNCHANGED <<now, Ranking!Query, since>>
      BY <1>0, <1>a, <1>c DEF Ranking!Query
    <2>2. Ranking!Exported' = None \/ (Ranking!Exported' \in Rankings /\ AnswersFilter(Ranking!Exported)')
      BY <1>c DEF Ranking!Exported, RankingIsCurrent, AnswersFilter
    <2>3. CASE Ranking!Exported' = None
      BY <2>1, <2>3, RankingPanelIs DEF Ranking!Panel!Next
    <2>4. CASE Ranking!Exported' \in Rankings /\ AnswersFilter(Ranking!Exported)'
      <3>1. \E at \in since .. now : Ranking!Exported' = [query |-> Ranking!Query, at |-> at]
        BY <2>1, <2>4 DEF Rankings, AnswersFilter, Ranking!Query
      <3> QED  BY <2>1, <3>1, RankingPanelIs DEF Ranking!Panel!Next
    <2> QED  BY <2>1, <2>2, <2>3, <2>4
  <1>1. CASE Ranking!RankingChanges
    <2>1. UNCHANGED <<Ranking!Query, since, Ranking!Exported>>
      BY <1>1 DEF Ranking!RankingChanges, Ranking!observed, Ranking!Query, Ranking!Exported
    <2>2. Ranking!Panel!Next
      BY <1>0, <1>1, <2>1, RankingPanelIs DEF Ranking!RankingChanges, Ranking!Panel!Next
    <2>3. RankingIsCurrent' /\ now' \in 0 .. MaxRanking /\ since <= now'
      BY <1>0, <1>1 DEF Ranking!RankingChanges, Ranking!observed, RankingIsCurrent, AnswersFilter
    <2>4. RankingInv'
      BY <1>0, <1>1, <1>a, <2>3 DEF Ranking!RankingChanges, Ranking!observed
    <2> QED  BY <2>2, <2>4
  <1>2. CASE Ranking!SwitchDemo
    <2>1. UNCHANGED <<now, Ranking!Query, since, Ranking!Exported>>
      BY <1>2 DEF Ranking!SwitchDemo, Ranking!observed, Ranking!Query, Ranking!Exported
    <2>2. RankingIsCurrent' /\ demo' \in BOOLEAN
      BY <1>0, <1>2 DEF Ranking!SwitchDemo, Ranking!observed, RankingIsCurrent, AnswersFilter
    <2>3. RankingInv'
      BY <1>0, <1>2, <1>a, <2>2 DEF Ranking!SwitchDemo, Ranking!observed
    <2> QED  BY <2>1, <2>3, RankingStays
  <1>3. CASE Ranking!Serve
    <2>1. request \in Inquiries
      BY <1>0, <1>3 DEF Ranking!Serve
    <2>2. request' \in Inquiries /\ request'.query = request.query /\ request'.at = now
          /\ request' = [request EXCEPT !.at = now]
      BY <1>0, <1>3, <2>1 DEF Ranking!Serve, Inquiries
    <2>3. UNCHANGED <<now, since, filter, demo, generation, dialog, snapshot, exportable, boxed>>
          /\ request # None
      BY <1>3 DEF Ranking!Serve, Ranking!observed
    <2>4. RankingIsCurrent'
      <3>1. request' # None /\ request'.query = filter' /\ request'.at \in since' .. now'
        BY <1>0, <2>1, <2>2, <2>3 DEF Ranking!IdleRankingAssumption, Inquiries, RankingIsCurrent
      <3> QED  BY <1>0, <2>3, <3>1 DEF RankingIsCurrent, AnswersFilter
    <2> QED  BY <1>0, <1>c, <2>2, <2>3, <2>4
  <1>4. CASE Ranking!Answered
    <2>1. /\ UNCHANGED <<now, since, filter, demo, generation, dialog>> /\ request' = None
          /\ boxed' = FALSE /\ request \in Inquiries /\ request.at # None
          /\ request.query = filter /\ request.at \in since .. now
      BY <1>0, <1>4 DEF Ranking!Answered, RankingIsCurrent
    <2>2. CASE dialog = "open"
      <3>1. /\ snapshot' \in Rankings /\ snapshot'.query = filter /\ snapshot'.at = request.at
            /\ exportable' = TRUE
        BY <1>4, <2>1, <2>2 DEF Ranking!Answered, Rankings, Inquiries
      <3>2. RankingIsCurrent'
        BY <2>1, <3>1 DEF RankingIsCurrent, AnswersFilter
      <3> QED  BY <1>0, <1>c, <2>1, <3>1, <3>2
    <2>3. CASE dialog # "open"
      <3>1. UNCHANGED <<snapshot, exportable>>
        BY <1>4, <2>3 DEF Ranking!Answered
      <3>2. RankingIsCurrent'
        BY <2>1, <2>3, <3>1 DEF RankingIsCurrent
      <3> QED  BY <1>0, <1>c, <2>1, <3>1, <3>2
    <2> QED  BY <2>2, <2>3
  <1>5. CASE Ranking!Fail \/ Ranking!Open \/ Ranking!Closed
    <2>1. /\ UNCHANGED <<now, since, filter, demo, generation, boxed>>
          /\ dialog' \in {"open", "closing", "closed"} /\ snapshot' = None /\ exportable' = FALSE
          /\ request' = request \/ request' = None
      BY <1>0, <1>5 DEF Ranking!Fail, Ranking!Open, Ranking!Closed, Ranking!observed
    <2>2. RankingIsCurrent'
      BY <1>0, <2>1 DEF RankingIsCurrent
    <2> QED  BY <1>0, <1>c, <2>1, <2>2
  <1>6. CASE \E o \in openings : Ranking!ConfigRead(o)
    <2> PICK o \in openings : Ranking!ConfigRead(o)
      BY <1>6
    <2>1. CASE Ranking!Mine(o)
      <3>1. Ranking!load /\ filter' \in Filters /\ UNCHANGED <<now, demo, dialog>>
        BY <2>1 DEF Ranking!ConfigRead
      <3> QED  BY <1>b, <3>1
    <2>2. CASE ~Ranking!Mine(o)
      <3>1. UNCHANGED <<now, since, filter, demo, generation, dialog, request, snapshot, exportable,
                        boxed>>
        BY <2>2 DEF Ranking!ConfigRead, Ranking!observed
      <3>2. RankingIsCurrent'
        BY <1>0, <3>1 DEF RankingIsCurrent, AnswersFilter
      <3> QED  BY <1>0, <1>c, <3>1, <3>2
    <2> QED  BY <2>1, <2>2
  <1>7. CASE \/ \E o \in openings : Ranking!ConfigFails(o) \/ Ranking!Loaded(o)
             \/ UNCHANGED Ranking!vars
    <2>1. UNCHANGED <<now, since, filter, demo, generation, dialog, request, snapshot, exportable,
                      boxed>>
      BY <1>7 DEF Ranking!ConfigFails, Ranking!Loaded, Ranking!vars, Ranking!observed
    <2>2. RankingIsCurrent'
      BY <1>0, <2>1 DEF RankingIsCurrent, AnswersFilter
    <2> QED  BY <1>0, <1>c, <2>1, <2>2
  <1>8. CASE Ranking!Choose \/ Ranking!Refresh \/ Ranking!Tick
    <2>1. Ranking!load /\ filter' \in Filters /\ UNCHANGED <<now, demo, dialog>>
      BY <1>0, <1>8 DEF Ranking!Choose, Ranking!Refresh, Ranking!Tick
    <2> QED  BY <1>b, <2>1
  <1>9. CASE Ranking!ToggleAvailable
    <2>1. /\ UNCHANGED <<now, since, filter, demo, generation, dialog, request, snapshot>>
          /\ exportable' = TRUE /\ boxed' = (request # None) /\ dialog = "open"
      BY <1>9 DEF Ranking!ToggleAvailable
    <2>2. RankingIsCurrent'
      BY <1>0, <2>1 DEF RankingIsCurrent, AnswersFilter
    <2> QED  BY <1>0, <1>c, <2>1, <2>2
  <1>10. CASE Ranking!Close
    <2>1. /\ UNCHANGED <<now, since, filter, demo, generation, request, snapshot, exportable, boxed>>
          /\ dialog' = "closing"
      BY <1>10 DEF Ranking!Close, Ranking!observed
    <2>2. RankingIsCurrent'
      BY <1>0, <2>1 DEF RankingIsCurrent
    <2> QED  BY <1>0, <1>c, <2>1, <2>2
  <1> QED  BY <1>1, <1>2, <1>3, <1>4, <1>5, <1>6, <1>7, <1>8, <1>9, <1>10 DEF Ranking!Next

LEMMA RankingStarts ==
    ASSUME Ranking!IdleRankingAssumption, Ranking!Init
    PROVE  RankingInv /\ Ranking!Panel!Init
  <1>1. 0 \in 0 .. MaxRanking /\ NoFilter \in Filters
    BY DEF Ranking!IdleRankingAssumption
  <1>2. Ranking!TypeOK
    BY <1>1 DEF Ranking!Init, Ranking!TypeOK
  <1>3. since <= now /\ RankingIsCurrent /\ OneOpening /\ Ranking!NoTimerIsLost
    BY DEF Ranking!Init, RankingIsCurrent, OneOpening, Ranking!NoTimerIsLost
  <1>4. Ranking!Panel!Init
    BY <1>1 DEF Ranking!Init, Ranking!Panel!Init, Ranking!Exported, Ranking!Query
  <1> QED  BY <1>2, <1>3, <1>4 DEF RankingInv

\* What can be exported from the dialog of idle machines answers the filter
\* beside it and is no older than its choice, and one timer runs at most, in
\* an open dialog only (idle-ranking.js:24-70).
THEOREM RankingImplements ==
    ASSUME Ranking!IdleRankingAssumption
    PROVE  Ranking!Spec => Ranking!Implements /\ []Ranking!NoTimerIsLost
  <1>1. Ranking!Init => RankingInv /\ Ranking!Panel!Init
    BY RankingStarts
  <1>2. RankingInv /\ [Ranking!Next]_(Ranking!vars)
        => RankingInv' /\ [Ranking!Panel!Next]_(Ranking!Panel!vars)
    BY RankingStep
  <1>3. RankingInv => Ranking!NoTimerIsLost
    BY DEF RankingInv
  <1> QED  BY <1>1, <1>2, <1>3, PTL DEF Ranking!Spec, Ranking!Implements, Ranking!Panel!Spec

-----------------------------------------------------------------------------
(* The kinds of the variables, from the same invariants.                    *)

LEMMA MetricTypes ==
    ASSUME Metric!MetricsPanelAssumption
    PROVE  Metric!Spec => []Metric!TypeOK
  <1>1. Metric!Init => MetricInv
    BY MetricStarts
  <1>2. MetricInv /\ [Metric!Next]_(Metric!vars) => MetricInv'
    BY MetricStep
  <1>3. MetricInv => Metric!TypeOK
    BY DEF MetricInv
  <1> QED  BY <1>1, <1>2, <1>3, PTL DEF Metric!Spec

LEMMA UsageTypes ==
    ASSUME Usage!UtilizationAssumption
    PROVE  Usage!Spec => []Usage!TypeOK
  <1>1. Usage!Init => UsageInv
    BY UsageStarts
  <1>2. UsageInv /\ [Usage!Next]_(Usage!vars) => UsageInv'
    BY UsageStep
  <1>3. UsageInv => Usage!TypeOK
    BY DEF UsageInv
  <1> QED  BY <1>1, <1>2, <1>3, PTL DEF Usage!Spec

LEMMA RankingTypes ==
    ASSUME Ranking!IdleRankingAssumption
    PROVE  Ranking!Spec => []Ranking!TypeOK
  <1>1. Ranking!Init => RankingInv
    BY RankingStarts
  <1>2. RankingInv /\ [Ranking!Next]_(Ranking!vars) => RankingInv'
    BY RankingStep
  <1>3. RankingInv => Ranking!TypeOK
    BY DEF RankingInv
  <1> QED  BY <1>1, <1>2, <1>3, PTL DEF Ranking!Spec

=============
