--------------------------- MODULE DashboardProofs ---------------------------
(***************************************************************************)
(* Proofs about the monitoring page, for any number of commands and saves,  *)
(* other windows that edit them, and requests that are lost.                *)
(***************************************************************************)
EXTENDS Dashboard, TLAPS

\* A command that runs is on the list of commands.
LEMMA EnabledIsSaved ==
    ASSUME NEW c, NEW e, NEW id \in enabledCustoms(c)
    PROVE  id \in customChoices(c, e)
  BY DEF enabledCustoms, savedCustoms, customChoices

\* Every editor the page ends with shows a command of the list beside it.
LEMMA EditorsShowAChoice ==
    ASSUME NEW c, NEW e, NEW selected, NEW editor \in syncCustomEditor(c, e, selected)
    PROVE  editor.id \in customChoices(c, editor.edits)
  <1>1. CASE selected \in customChoices(c, e)
    BY <1>1 DEF syncCustomEditor
  <1>2. CASE selected \notin customChoices(c, e) /\ customChoices(c, e) # {}
    <2>1. syncCustomEditor(c, e, selected) = {[edits |-> e, id |-> id] : id \in customChoices(c, e)}
      BY <1>2 DEF syncCustomEditor
    <2>2. PICK id \in customChoices(c, e) : editor = [edits |-> e, id |-> id]
      BY <2>1
    <2> QED  BY <2>2
  <1>3. CASE customChoices(c, e) = {}
    <2>1. syncCustomEditor(c, e, selected) = {[edits |-> {id}, id |-> id] : id \in NewIDs}
      BY <1>3 DEF syncCustomEditor
    <2>2. PICK id \in NewIDs : editor = [edits |-> {id}, id |-> id]
      BY <2>1
    <2> QED  BY <2>2 DEF customChoices
  <1> QED  BY <1>1, <1>2, <1>3

\* What follows every assignment of a configuration.
LEMMA ShownAfterSync ==
    ASSUME NEW c, NEW e, NEW selected, config' = c, ShowEditor(syncCustomEditor(c, e, selected))
    PROVE  EditorShowsAChoice'
  <1>1. PICK editor \in syncCustomEditor(c, e, selected) : edits' = editor.edits /\ customID' = editor.id
    BY DEF ShowEditor
  <1>2. customID' \in customChoices(c, edits')
    BY <1>1, EditorsShowAChoice
  <1> QED  BY <1>2 DEF EditorShowsAChoice, customChoices, savedCustoms

LEMMA ShownAfterLoad ==
    ASSUME NEW c, loadConfig(c)
    PROVE  EditorShowsAChoice'
  <1>1. CASE enabledCustoms(c) = {}
    BY <1>1, ShownAfterSync DEF loadConfig, resetCustomEditor
  <1>2. CASE enabledCustoms(c) # {}
    <2>1. PICK editor \in {[edits |-> {}, id |-> id] : id \in enabledCustoms(c)} :
              edits' = editor.edits /\ customID' = editor.id
      BY <1>2 DEF loadConfig, ShowEditor
    <2>2. customID' \in customChoices(c, edits') /\ config' = c
      BY <2>1, EnabledIsSaved DEF loadConfig
    <2> QED  BY <2>2 DEF EditorShowsAChoice, customChoices, savedCustoms
  <1> QED  BY <1>1, <1>2

-----------------------------------------------------------------------------
(* What holds between the editor, the controls and the requests under way.  *)

Saves == Customs \cup {"settings"}
DashInv == DOMAIN net = Callers /\ EditorShowsAChoice /\ BusyHasAWrite

LEMMA DashInit == Init => DashInv
  BY DEF Init, DashInv, Callers, EditorShowsAChoice, BusyHasAWrite

\* A step that leaves the editor, or shows another of its commands.
LEMMA EditorStep ==
    ASSUME DashInv, [Next]_vars
    PROVE  EditorShowsAChoice'
  <1>1. UNCHANGED <<config, edits, customID>> => EditorShowsAChoice'
    BY DEF DashInv, EditorShowsAChoice, customChoices, savedCustoms
  <1>2. CASE Serve \/ AnotherWindow \/ \E c \in Callers : Fail(c)
    BY <1>1, <1>2 DEF Serve, AnotherWindow, Fail
  <1>3. CASE OpenDialog \/ ExitDemo \/ TogglePause \/ Look \/ PollStarts \/ PollAnswered
    BY <1>1, <1>3 DEF OpenDialog, ExitDemo, TogglePause, Look, PollStarts, PollAnswered
  <1>4. CASE openSettings \/ CloseSettings \/ SubmitSettings
             \/ \E v \in Verbs : \E c \in Customs : SaveCustom(c, v)
    BY <1>1, <1>4 DEF openSettings, CloseSettings, SubmitSettings, SaveCustom
  <1>5. CASE StartupEnds
    BY <1>1, <1>5, ShownAfterLoad, ShownAfterSync DEF StartupEnds, enterDemo
  <1>6. CASE DialogLoaded \/ DemoExited
    BY <1>1, <1>6, ShownAfterLoad DEF DialogLoaded, DemoExited
  <1>7. CASE EnterDemo
    BY <1>7, ShownAfterSync DEF EnterDemo, enterDemo
  <1>8. CASE TypeCommand
    BY <1>8 DEF TypeCommand, DashInv, EditorShowsAChoice, customChoices, savedCustoms
  <1>9. CASE AddCommand
    BY <1>9 DEF AddCommand, EditorShowsAChoice, customChoices
  <1>10. CASE SelectCommand
    BY <1>10, ShownAfterSync DEF SelectCommand
  <1>11. CASE \E v \in Verbs : SaveLocally(v)
    BY <1>11, ShownAfterSync DEF SaveLocally
  <1>12. CASE \E c \in Customs : CustomSaved(c)
    BY <1>1, <1>12, ShownAfterSync DEF CustomSaved
  <1>13. CASE SettingsSaved
    BY <1>1, <1>13, ShownAfterSync DEF SettingsSaved, resetCustomEditor
  <1>14. CASE UNCHANGED vars
    BY <1>1, <1>14 DEF vars
  <1> QED  BY <1>2, <1>3, <1>4, <1>5, <1>6, <1>7, <1>8, <1>9, <1>10, <1>11, <1>12, <1>13, <1>14
             DEF Next

\* A request that is answered or lost stays in flight until its handler runs.
LEMMA AnswersFly ==
    ASSUME DashInv, NEW c \in Callers, net[c].stage = "sent", NEW body, Answer(c, body)
    PROVE  DOMAIN net' = Callers /\ \A d \in Callers : InFlight(d) => InFlight(d)'
  BY DEF DashInv, Answer, InFlight

LEMMA ControlStep ==
    ASSUME DashInv, [Next]_vars
    PROVE  DOMAIN net' = Callers /\ BusyHasAWrite'
  <1>0. DOMAIN net = Callers /\ Saves \subseteq Callers
    BY DEF DashInv, Saves, Callers
  <1>a. ASSUME DOMAIN net' = Callers, busy' = busy,
               \A d \in Saves : InFlight(d) => InFlight(d)'
        PROVE  DOMAIN net' = Callers /\ BusyHasAWrite'
    BY <1>a DEF DashInv, BusyHasAWrite, Saves
  <1>b. ASSUME UNCHANGED <<net, busy>>
        PROVE  DOMAIN net' = Callers /\ BusyHasAWrite'
    BY <1>0, <1>a, <1>b DEF InFlight
  <1>c. ASSUME NEW c \in Callers \ Saves, NEW r,
               net' = [net EXCEPT ![c] = r], busy' = busy
        PROVE  DOMAIN net' = Callers /\ BusyHasAWrite'
    BY <1>0, <1>a, <1>c DEF InFlight
  <1>d. ASSUME NEW c \in Saves, NEW r,
               net' = [net EXCEPT ![c] = r], busy' = FALSE \/ r.stage # "idle"
        PROVE  DOMAIN net' = Callers /\ BusyHasAWrite'
    BY <1>0, <1>d DEF InFlight, BusyHasAWrite, Saves
  <1>1. CASE Serve
    <2>1. PICK c \in Callers : \E body : net[c].stage = "sent" /\ Answer(c, body)
      BY <1>0, <1>1 DEF Serve, ServeConfig, ServeStatus, ServeSettings, ServeCommand, Save, Saves, Callers
    <2>2. busy' = busy
      BY <1>1 DEF Serve
    <2> QED  BY <1>a, <2>1, <2>2, <1>0, AnswersFly
  <1>2. CASE \E c \in Callers : Fail(c)
    BY <1>0, <1>a, <1>2 DEF Fail, Failed, InFlight
  <1>3. CASE AnotherWindow \/ EnterDemo \/ TogglePause \/ Look
    BY <1>b, <1>3 DEF AnotherWindow, EnterDemo, TogglePause, Look
  <1>4. CASE TypeCommand \/ AddCommand \/ SelectCommand \/ openSettings \/ CloseSettings
             \/ \E v \in Verbs : SaveLocally(v)
    BY <1>b, <1>4 DEF TypeCommand, AddCommand, SelectCommand, openSettings, CloseSettings, SaveLocally
  <1>5. CASE StartupEnds \/ OpenDialog \/ DialogLoaded
    BY <1>c, <1>5 DEF StartupEnds, OpenDialog, DialogLoaded, Saves, Customs, Callers
  <1>6. CASE ExitDemo \/ DemoExited \/ PollStarts \/ PollAnswered
    BY <1>c, <1>6 DEF ExitDemo, DemoExited, PollStarts, PollAnswered, Saves, Customs, Callers
  <1>7. CASE SettingsSaved \/ \E c \in Customs : CustomSaved(c)
    BY <1>d, <1>7 DEF CustomSaved, SettingsSaved, Saves
  <1>8. CASE SubmitSettings \/ \E v \in Verbs : \E c \in Customs : SaveCustom(c, v)
    BY <1>d, <1>8 DEF SubmitSettings, SaveCustom, Sent, Saves
  <1>9. CASE UNCHANGED vars
    BY <1>b, <1>9 DEF vars
  <1> QED  BY <1>1, <1>2, <1>3, <1>4, <1>5, <1>6, <1>7, <1>8, <1>9 DEF Next

LEMMA DashHolds == Spec => []DashInv
  <1>1. DashInv /\ [Next]_vars => DashInv'
    BY EditorStep, ControlStep DEF DashInv
  <1> QED  BY <1>1, DashInit, PTL DEF Spec

-----------------------------------------------------------------------------
(* The kinds of the variables: what a caller is answered has the kind it    *)
(* reads, and the saves that are under way fit into the bound.              *)

\* What the request r of the caller c may hold.
Fit(c, r) ==
    /\ r.stage = "sent" /\ c = "settings" => r.body \in Config
    /\ r.stage = "sent" /\ c \in Customs => r.id \in CommandIDs /\ r.body \in CommandState
    /\ r.stage = "answered" => r.body \in (IF c = "poll" THEN States ELSE Config)
NetTyped == DOMAIN net = Callers /\ \A c \in Callers : Fit(c, net[c])

\* The saves under way, counted by their callers.
Weight(c, r) == IF c \in Saves /\ r.stage = "sent" THEN 1 ELSE 0
Count(n) == Weight("custom", n["custom"]) + Weight("again", n["again"])
            + Weight("settings", n["settings"])
SavesFit == server.version + Count(net) <= MaxSaves

DashTyped == TypeOK /\ NetTyped /\ SavesFit

\* The bound on the saves is a bound on this count.
LEMMA MaySaveCounts ==
    ASSUME server.version \in Nat, MaxSaves \in Nat
    PROVE  MaySave <=> server.version + Count(net) < MaxSaves
  <1>1. Saves = {"custom", "again", "settings"}
    BY DEF Saves, Customs
  <1>2. \A c \in Saves : Unserved(c) = Weight(c, net[c])
    BY DEF Unserved, Weight
  <1>3. MaySave <=> server.version + Weight("custom", net["custom"]) + Weight("again", net["again"])
                    + Weight("settings", net["settings"]) < MaxSaves
    BY <1>1, <1>2 DEF MaySave
  <1>4. \A c, r : Weight(c, r) \in {0, 1}
    BY DEF Weight
  <1>5. \A v, m \in Nat : \A a, b, c : a \in {0, 1} /\ b \in {0, 1} /\ c \in {0, 1}
                           => (v + a + b + c < m <=> v + (a + b + c) < m)
    OBVIOUS
  <1> QED  BY <1>3, <1>4, <1>5 DEF Count

LEMMA WeightsAre ==
    ASSUME NEW c, NEW r
    PROVE  /\ Weight(c, r) \in {0, 1} /\ (r.stage # "sent" => Weight(c, r) = 0)
           /\ (c \in Saves /\ r.stage = "sent" => Weight(c, r) = 1)
  BY DEF Weight

\* One caller's request changes.
LEMMA NetChange ==
    ASSUME NetTyped, NEW c \in Callers, NEW r, Fit(c, r), net' = [net EXCEPT ![c] = r]
    PROVE  NetTyped' /\ Count(net') = Count(net) - Weight(c, net[c]) + Weight(c, r)
  <1>1. DOMAIN net = Callers /\ DOMAIN net' = Callers
    BY DEF NetTyped
  <1>2. net'[c] = r /\ \A d \in Callers : d # c => net'[d] = net[d]
    BY <1>1
  <1>3. NetTyped'
    <2>1. \A d \in Callers : Fit(d, net'[d])
      BY <1>2 DEF NetTyped
    <2> QED  BY <1>1, <2>1 DEF NetTyped, Fit
  <1>4. /\ Saves \subseteq Callers /\ Saves = {"custom", "again", "settings"}
    BY DEF Callers, Saves, Customs
  <1>5. /\ \A d \in Saves : Weight(d, net[d]) \in {0, 1}
        /\ Weight(c, net[c]) \in {0, 1} /\ Weight(c, r) \in {0, 1}
    BY WeightsAre
  <1>6. CASE c \in Saves
    BY <1>2, <1>3, <1>4, <1>5, <1>6 DEF Count
  <1>7. CASE c \notin Saves
    <2>1. Weight(c, net[c]) = 0 /\ Weight(c, r) = 0
      BY <1>7 DEF Weight
    <2> QED  BY <1>2, <1>3, <1>4, <1>5, <1>7, <2>1 DEF Count
  <1> QED  BY <1>6, <1>7

\* A caller's request ends, or is one that writes nothing.
LEMMA RequestMoves ==
    ASSUME DashboardAssumption, NetTyped, SavesFit, server \in Config, server' = server,
           NEW c \in Callers, NEW r, Fit(c, r), net' = [net EXCEPT ![c] = r],
           Weight(c, r) = 0
    PROVE  NetTyped' /\ SavesFit'
  <1>1. NetTyped' /\ Count(net') = Count(net) - Weight(c, net[c]) + Weight(c, r)
    BY NetChange
  <1>2. Weight(c, net[c]) \in {0, 1} /\ Count(net) \in Nat
    BY WeightsAre DEF Count
  <1>3. server.version \in Nat
    BY DEF Config, DashboardAssumption
  <1> QED  BY <1>1, <1>2, <1>3 DEF SavesFit, DashboardAssumption

LEMMA EditorsTyped ==
    ASSUME NEW c, NEW e \in SUBSET CommandIDs, NEW selected \in CommandIDs \cup {None},
           ShowEditor(syncCustomEditor(c, e, selected))
    PROVE  edits' \subseteq CommandIDs /\ customID' \in CommandIDs \cup {None}
  <1>1. PICK editor \in syncCustomEditor(c, e, selected) : edits' = editor.edits /\ customID' = editor.id
    BY DEF ShowEditor
  <1>2. customChoices(c, e) \subseteq CommandIDs /\ NewIDs \subseteq CommandIDs
    BY DEF customChoices, savedCustoms, NewIDs
  <1>3. editor.edits \subseteq CommandIDs /\ editor.id \in CommandIDs \cup {None}
    <2>1. CASE selected \in customChoices(c, e)
      BY <1>1, <2>1 DEF syncCustomEditor
    <2>2. CASE selected \notin customChoices(c, e) /\ customChoices(c, e) # {}
      <3>1. PICK id \in customChoices(c, e) : editor = [edits |-> e, id |-> id]
        BY <1>1, <2>2 DEF syncCustomEditor
      <3> QED  BY <1>2, <3>1
    <2>3. CASE customChoices(c, e) = {}
      <3>1. PICK id \in NewIDs : editor = [edits |-> {id}, id |-> id]
        BY <1>1, <2>3 DEF syncCustomEditor
      <3> QED  BY <1>2, <3>1
    <2> QED  BY <2>1, <2>2, <2>3
  <1> QED  BY <1>1, <1>3

LEMMA LoadTyped ==
    ASSUME NEW c \in Config, loadConfig(c), customID \in CommandIDs \cup {None}
    PROVE  /\ config' \in Config
           /\ edits' \subseteq CommandIDs /\ customID' \in CommandIDs \cup {None}
  <1>1. CASE enabledCustoms(c) = {}
    BY <1>1, EditorsTyped DEF loadConfig, resetCustomEditor
  <1>2. CASE enabledCustoms(c) # {}
    <2>1. PICK editor \in {[edits |-> {}, id |-> id] : id \in enabledCustoms(c)} :
              edits' = editor.edits /\ customID' = editor.id
      BY <1>2 DEF loadConfig, ShowEditor
    <2> QED  BY <2>1 DEF loadConfig, enabledCustoms
  <1> QED  BY <1>1, <1>2

\* The configurations and the samples of the page itself.
LEMMA OwnConfigs ==
    ASSUME DashboardAssumption
    PROVE  /\ BuiltIn \in Config /\ DemoConfig \in Config
           /\ NoStates \in States /\ [source |-> "demo", version |-> 0] \in States
           /\ \A c \in Config : Sampled(c) \in States
  <1>1. MaxSaves \in Nat /\ 0 \in 0..MaxSaves
    BY DEF DashboardAssumption
  <1>2. NoCommands \in [CommandIDs -> CommandState]
    BY DEF NoCommands, CommandState
  <1> QED  BY <1>1, <1>2 DEF BuiltIn, DemoConfig, NoStates, Sampled, Config, States

LEMMA DashTypedInit ==
    ASSUME DashboardAssumption, Init
    PROVE  DashTyped
  <1>1. server \in Config /\ server.version = 0
    BY DEF DashboardAssumption, Init, Config, CommandState
  <1>2. DOMAIN net = Callers /\ \A c \in Callers : net[c] = Loading \/ net[c] = Idle
    BY DEF Init
  <1>3. \A c \in Saves : net[c] = Idle
    BY DEF Init, Callers, Saves, Customs
  <1>4. NetTyped
    <2> QED  BY <1>2, <1>3 DEF NetTyped, Fit, Loading, Sent, Idle, Saves
  <1>5. SavesFit
    <2>1. Count(net) = 0
      BY <1>3 DEF Count, Weight, Idle, Saves, Customs
    <2> QED  BY <1>1, <2>1 DEF SavesFit, DashboardAssumption
  <1>6. config \in Config /\ states \in States
    BY OwnConfigs DEF Init
  <1> QED  BY <1>1, <1>2, <1>4, <1>5, <1>6 DEF DashTyped, TypeOK, Init

\* What a save stores.
Written(s, v, m, cs) == [s EXCEPT !.version = v, !.machines = m, !.customs = cs]
LEMMA SavedTyped ==
    ASSUME NEW s \in Config, NEW v \in 0..MaxSaves, NEW m \in BOOLEAN,
           NEW cs \in [CommandIDs -> CommandState]
    PROVE  Written(s, v, m, cs) \in Config /\ Written(s, v, m, cs).version = v
  BY DEF Written, Config

\* Steps of the service: an answer, and a save when the caller wrote something.
LEMMA ServeTyped ==
    ASSUME DashboardAssumption, DashTyped, Serve
    PROVE  DashTyped'
  <1>0. server \in Config /\ server.version \in Nat /\ server.customs \in [CommandIDs -> CommandState]
    BY DEF DashTyped, TypeOK, Config, DashboardAssumption
  <1>1. server' \in Config /\ NetTyped' /\ SavesFit'
    <2>a. ASSUME NEW c \in Callers, NEW body, Answer(c, body), UNCHANGED server,
                 body \in (IF c = "poll" THEN States ELSE Config)
          PROVE  server' \in Config /\ NetTyped' /\ SavesFit'
      <3> DEFINE r == [stage |-> "answered", op |-> net[c].op, body |-> body]
      <3>1. net' = [net EXCEPT ![c] = r]
        BY <2>a DEF Answer
      <3>2. Fit(c, r) /\ Weight(c, r) = 0
        BY <2>a DEF Fit, Weight
      <3> HIDE DEF r
      <3> QED  BY <1>0, <2>a, <3>1, <3>2, RequestMoves DEF DashTyped
    <2>b. ASSUME NEW c \in Saves, NEW machines \in BOOLEAN,
                 NEW customs \in [CommandIDs -> CommandState],
                 net[c].stage = "sent", Save(c, machines, customs)
          PROVE  server' \in Config /\ NetTyped' /\ SavesFit'
      <3> DEFINE r == [stage |-> "answered", op |-> net[c].op, body |-> server']
      <3>1. net' = [net EXCEPT ![c] = r]
        BY <2>b DEF Save, Answer
      <3>2. Weight(c, net[c]) = 1 /\ Weight(c, r) = 0 /\ c \in Callers
        BY <2>b DEF Weight, Saves, Callers
      <3>3. Saves = {"custom", "again", "settings"} /\ \A d \in Saves : Weight(d, net[d]) \in {0, 1}
        BY WeightsAre DEF Saves, Customs
      <3>4. Count(net) \in Nat /\ Count(net) >= 1
        BY <2>b, <3>2, <3>3 DEF Count
      <3>5. server' = Written(server, server.version + 1, machines, customs)
        BY <2>b, Zenon DEF Save, Written
      <3>6. server.version + 1 \in 0..MaxSaves
        BY <1>0, <3>4 DEF DashTyped, SavesFit, DashboardAssumption
      <3> HIDE DEF r
      <3>7. server' \in Config /\ server'.version = server.version + 1
        BY <1>0, <3>5, <3>6, SavedTyped
      <3>8. Fit(c, r)
        BY <2>b, <3>7 DEF Fit, Saves, Customs, r
      <3> HIDE DEF r
      <3>9. NetTyped /\ c \in Callers
        BY <3>2 DEF DashTyped
      <3>10. NetTyped' /\ Count(net') = Count(net) - Weight(c, net[c]) + Weight(c, r)
        BY <3>1, <3>8, <3>9, NetChange
      <3>11. Count(net') = Count(net) - 1
        BY <3>2, <3>4, <3>10
      <3> QED  BY <1>0, <3>4, <3>7, <3>10, <3>11 DEF SavesFit, DashTyped, DashboardAssumption
    <2>1. CASE \E c \in {"startup", "dialog", "exit"} : ServeConfig(c)
      <3>1. PICK c \in {"startup", "dialog", "exit"} : ServeConfig(c)
        BY <2>1
      <3>2. c \in Callers /\ Answer(c, server) /\ UNCHANGED server /\ c # "poll"
        BY <3>1 DEF ServeConfig, Callers
      <3> QED  BY <1>0, <2>a, <3>2
    <2>2. CASE ServeStatus
      <3>1. Answer("poll", Sampled(server)) /\ UNCHANGED server /\ "poll" \in Callers
        BY <2>2 DEF ServeStatus, Callers
      <3> QED  BY <1>0, <2>a, <3>1, OwnConfigs
    <2>3. CASE ServeSettings
      <3>1. net["settings"].stage = "sent" /\ "settings" \in Callers /\ "settings" \in Saves
        BY <2>3 DEF ServeSettings, Callers, Saves
      <3>2. net["settings"].body \in Config
        BY <3>1 DEF DashTyped, NetTyped, Fit
      <3>3. /\ net["settings"].body.machines \in BOOLEAN
            /\ net["settings"].body.customs \in [CommandIDs -> CommandState]
        BY <3>2 DEF Config
      <3>4. Save("settings", net["settings"].body.machines, net["settings"].body.customs)
        BY <2>3 DEF ServeSettings
      <3> HIDE DEF Config
      <3> QED  BY <2>b, <3>1, <3>3, <3>4
    <2>4. CASE \E c \in Customs : ServeCommand(c)
      <3>0. PICK c \in Customs : ServeCommand(c)
        BY <2>4
      <3>1. net[c].stage = "sent" /\ c \in Callers /\ c \in Saves
        BY <3>0 DEF ServeCommand, Callers, Saves
      <3>2. net[c].id \in CommandIDs /\ net[c].body \in CommandState
        BY <3>1 DEF DashTyped, NetTyped, Fit
      <3> DEFINE customs == [server.customs EXCEPT ![net[c].id] = net[c].body]
      <3>3. customs \in [CommandIDs -> CommandState]
        BY <1>0, <3>2
      <3>4. Save(c, server.machines, customs) /\ server.machines \in BOOLEAN
        BY <1>0, <3>0 DEF ServeCommand, Config
      <3> HIDE DEF customs
      <3> QED  BY <2>b, <3>1, <3>3, <3>4
    <2> QED  BY <2>1, <2>2, <2>3, <2>4 DEF Serve
  <1>2. DOMAIN net' = Callers
    BY <1>1 DEF NetTyped
  <1> QED  BY <1>1, <1>2 DEF DashTyped, TypeOK, Serve

LEMMA WindowTyped ==
    ASSUME DashboardAssumption, DashTyped, AnotherWindow
    PROVE  DashTyped'
  <1>0. server \in Config /\ server.version \in Nat /\ server.customs \in [CommandIDs -> CommandState]
    BY DEF DashTyped, TypeOK, Config, DashboardAssumption
  <1>2. server.version + Count(net) < MaxSaves
    BY <1>0, MaySaveCounts DEF AnotherWindow, DashboardAssumption
  <1>3. Count(net) \in Nat
    BY WeightsAre DEF Count
  <1>4. PICK id \in CommandIDs, s \in CommandState \ {"absent"} :
            server' = [server EXCEPT !.version = @ + 1, !.customs[id] = s]
    BY Zenon DEF AnotherWindow
  <1>5. server.version + 1 \in 0..MaxSaves
    BY <1>0, <1>2, <1>3 DEF DashboardAssumption
  <1>6. [server.customs EXCEPT ![id] = s] \in [CommandIDs -> CommandState]
    BY <1>0
  <1>7. server' = [server EXCEPT !.version = server.version + 1,
                                 !.customs = [server.customs EXCEPT ![id] = s]]
    BY <1>4, Zenon
  <1>8. server' \in Config /\ server'.version = server.version + 1
    BY <1>0, <1>5, <1>6, <1>7 DEF Config
  <1>9. UNCHANGED <<config, states, demo, paused, busy, draft, edits, customID, timer, net, rendered>>
    BY DEF AnotherWindow
  <1>10. SavesFit'
    BY <1>0, <1>2, <1>3, <1>8, <1>9 DEF SavesFit, DashboardAssumption
  <1>11. NetTyped'
    BY <1>9 DEF DashTyped, NetTyped
  <1> QED  BY <1>8, <1>9, <1>10, <1>11 DEF DashTyped, TypeOK

\* Handlers of the page that only change requests, or only one flag.
LEMMA RequestTyped ==
    ASSUME DashboardAssumption, DashTyped, NEW c \in Callers,
           \/ Fail(c)
           \/ OpenDialog \/ ExitDemo \/ PollStarts
    PROVE  DashTyped'
  <1>0. server \in Config /\ NetTyped /\ SavesFit
    BY DEF DashTyped, TypeOK
  <1>1. NetTyped' /\ SavesFit'
    <2>1. CASE Fail(c)
      <3>1. net' = [net EXCEPT ![c] = Failed] /\ server' = server
        BY <2>1 DEF Fail
      <3>2. Fit(c, Failed) /\ Weight(c, Failed) = 0
        BY DEF Fit, Weight, Failed
      <3> QED  BY <1>0, <3>1, <3>2, RequestMoves
    <2>2. CASE OpenDialog \/ ExitDemo
      <3>1. PICK d \in {"dialog", "exit"} : net' = [net EXCEPT ![d] = Loading] /\ server' = server
        BY <2>2 DEF OpenDialog, ExitDemo
      <3>2. d \in Callers /\ Fit(d, Loading) /\ Weight(d, Loading) = 0
        BY DEF Fit, Weight, Loading, Sent, Callers, Saves, Customs
      <3> QED  BY <1>0, <3>1, <3>2, RequestMoves
    <2>3. CASE PollStarts
      <3> DEFINE r == Sent("status", None, None)
      <3>1. net' = [net EXCEPT !["poll"] = r] /\ server' = server
        BY <2>3 DEF PollStarts
      <3>2. "poll" \in Callers /\ Fit("poll", r) /\ Weight("poll", r) = 0
        BY DEF Fit, Weight, Sent, Callers, Saves, Customs
      <3> HIDE DEF r
      <3> QED  BY <1>0, <3>1, <3>2, RequestMoves
    <2> QED  BY <2>1, <2>2, <2>3
  <1>2. DOMAIN net' = Callers
    BY <1>1 DEF NetTyped
  <1> QED  BY <1>1, <1>2 DEF DashTyped, TypeOK, Fail, OpenDialog, ExitDemo, PollStarts

\* What an answer holds.
LEMMA AnswersTyped ==
    ASSUME NetTyped, NEW c \in Callers, net[c].stage = "answered"
    PROVE  net[c].body \in (IF c = "poll" THEN States ELSE Config)
  BY DEF NetTyped, Fit

\* A caller's request ends.
LEMMA RequestEnds ==
    ASSUME DashboardAssumption, DashTyped, NEW c \in Callers,
           net' = [net EXCEPT ![c] = Idle], server' = server
    PROVE  NetTyped' /\ SavesFit' /\ DOMAIN net' = Callers /\ server' \in Config
  <1>1. Fit(c, Idle) /\ Weight(c, Idle) = 0
    BY DEF Fit, Weight, Idle
  <1>2. NetTyped' /\ SavesFit'
    BY <1>1, RequestMoves DEF DashTyped, TypeOK
  <1> QED  BY <1>2 DEF NetTyped, DashTyped, TypeOK

\* What the page is drawn from has its kind.
LEMMA RenderTyped ==
    ASSUME config' \in Config, busy' \in BOOLEAN, render
    PROVE  rendered' \in [empty: BOOLEAN, locked: BOOLEAN]
  BY DEF Config, render

LEMMA EnteredTyped ==
    ASSUME DashboardAssumption, NEW c, enterDemo(c)
    PROVE  /\ config' \in Config /\ states' \in States /\ demo' \in BOOLEAN /\ paused' \in BOOLEAN
           /\ edits' \subseteq CommandIDs /\ customID' \in CommandIDs \cup {None}
  <1>1. edits' \subseteq CommandIDs /\ customID' \in CommandIDs \cup {None}
    BY EditorsTyped DEF enterDemo
  <1> QED  BY <1>1, OwnConfigs DEF enterDemo

LEMMA LoadingTyped ==
    ASSUME DashboardAssumption, DashTyped, StartupEnds \/ DialogLoaded \/ DemoExited
    PROVE  DashTyped'
  <1>0. /\ NetTyped /\ customID \in CommandIDs \cup {None}
        /\ "startup" \in Callers /\ "dialog" \in Callers /\ "exit" \in Callers
    BY DEF DashTyped, TypeOK, Callers
  <1>1. CASE StartupEnds
    <2>1. NetTyped' /\ SavesFit' /\ DOMAIN net' = Callers /\ server' \in Config
      BY <1>0, <1>1, RequestEnds DEF StartupEnds
    <2>2. net["startup"].stage = "answered" => net["startup"].body \in Config
      BY <1>0, AnswersTyped
    <2>3. /\ config' \in Config /\ states' \in States /\ demo' \in BOOLEAN /\ paused' \in BOOLEAN
          /\ edits' \subseteq CommandIDs /\ customID' \in CommandIDs \cup {None}
      <3>1. CASE net["startup"].stage = "answered" /\ StartInDemo /\ enterDemo(net["startup"].body)
        BY <3>1, EnteredTyped
      <3>2. CASE /\ net["startup"].stage = "answered" /\ loadConfig(net["startup"].body)
                 /\ UNCHANGED <<states, demo, paused>>
        BY <1>0, <2>2, <3>2, LoadTyped DEF DashTyped, TypeOK
      <3>3. CASE UNCHANGED <<config, states, demo, paused, edits, customID>>
        BY <3>3 DEF DashTyped, TypeOK
      <3> QED  BY <1>1, <3>1, <3>2, <3>3 DEF StartupEnds
    <2>4. rendered' \in [empty: BOOLEAN, locked: BOOLEAN]
      BY <1>1, <2>3, RenderTyped DEF DashTyped, TypeOK, StartupEnds
    <2> QED  BY <1>1, <2>1, <2>3, <2>4 DEF DashTyped, TypeOK, StartupEnds
  <1>2. CASE DialogLoaded
    <2>1. NetTyped' /\ SavesFit' /\ DOMAIN net' = Callers /\ server' \in Config
      BY <1>0, <1>2, RequestEnds DEF DialogLoaded
    <2>2. net["dialog"].stage = "answered" => net["dialog"].body \in Config
      BY <1>0, AnswersTyped
    <2>3. /\ config' \in Config
          /\ edits' \subseteq CommandIDs /\ customID' \in CommandIDs \cup {None}
      BY <1>0, <1>2, <2>2, LoadTyped DEF DialogLoaded, DashTyped, TypeOK
    <2> QED  BY <1>2, <2>1, <2>3 DEF DashTyped, TypeOK, DialogLoaded
  <1>3. CASE DemoExited
    <2>1. NetTyped' /\ SavesFit' /\ DOMAIN net' = Callers /\ server' \in Config
      BY <1>0, <1>3, RequestEnds DEF DemoExited
    <2>2. net["exit"].stage = "answered" => net["exit"].body \in Config
      BY <1>0, AnswersTyped
    <2>3. /\ config' \in Config
          /\ edits' \subseteq CommandIDs /\ customID' \in CommandIDs \cup {None}
      BY <1>0, <1>3, <2>2, LoadTyped DEF DemoExited, DashTyped, TypeOK
    <2>4. states' \in States /\ demo' \in BOOLEAN
      BY <1>3, OwnConfigs DEF DemoExited, DashTyped, TypeOK
    <2>5. rendered' \in [empty: BOOLEAN, locked: BOOLEAN]
      BY <1>3, <2>3, RenderTyped DEF DashTyped, TypeOK, DemoExited
    <2> QED  BY <1>3, <2>1, <2>3, <2>4, <2>5 DEF DashTyped, TypeOK, DemoExited
  <1> QED  BY <1>1, <1>2, <1>3

\* A handler that leaves the requests and the stored configuration.
LEMMA PageTyped ==
    ASSUME DashboardAssumption, DashTyped, UNCHANGED <<server, net>>, TypeOK'
    PROVE  DashTyped'
  BY DEF DashTyped, NetTyped, SavesFit

LEMMA EditorTyped ==
    ASSUME DashboardAssumption, DashTyped,
           \/ EnterDemo \/ TogglePause \/ Look \/ TypeCommand \/ AddCommand \/ SelectCommand
           \/ openSettings \/ CloseSettings \/ \E v \in Verbs : SaveLocally(v)
    PROVE  DashTyped'
  <1>0. /\ TypeOK /\ edits \in SUBSET CommandIDs /\ customID \in CommandIDs \cup {None}
        /\ customChoices(config, edits) \subseteq CommandIDs
    BY DEF DashTyped, TypeOK, customChoices, savedCustoms
  <1>1. CASE EnterDemo
    <2>0. rendered' \in [empty: BOOLEAN, locked: BOOLEAN]
      BY <1>0, <1>1, EnteredTyped, RenderTyped DEF TypeOK, EnterDemo
    <2>1. TypeOK'
      BY <1>0, <1>1, <2>0, EnteredTyped DEF TypeOK, EnterDemo
    <2> QED  BY <1>1, <2>1, PageTyped DEF EnterDemo
  <1>2. CASE TogglePause \/ Look \/ TypeCommand \/ openSettings \/ CloseSettings
    <2>0. rendered' \in [empty: BOOLEAN, locked: BOOLEAN]
      BY <1>0, <1>2, RenderTyped DEF TypeOK, TogglePause, Look, TypeCommand, openSettings, CloseSettings
    <2>1. TypeOK'
      BY <1>0, <1>2, <2>0 DEF TypeOK, TogglePause, Look, TypeCommand, openSettings, CloseSettings
    <2> QED  BY <1>2, <2>1, PageTyped DEF TogglePause, Look, TypeCommand, openSettings, CloseSettings
  <1>3. CASE AddCommand
    <2>1. edits' \subseteq CommandIDs /\ customID' \in CommandIDs
      BY <1>0, <1>3 DEF AddCommand, NewIDs
    <2>0. rendered' \in [empty: BOOLEAN, locked: BOOLEAN]
      BY <1>0, <1>3, RenderTyped DEF TypeOK, AddCommand
    <2>2. TypeOK'
      BY <1>0, <1>3, <2>0, <2>1 DEF TypeOK, AddCommand
    <2> QED  BY <1>3, <2>2, PageTyped DEF AddCommand
  <1>4. CASE SelectCommand
    <2>1. PICK id \in customChoices(config, edits) : ShowEditor(syncCustomEditor(config, edits, id))
      BY <1>4 DEF SelectCommand
    <2>2. edits' \subseteq CommandIDs /\ customID' \in CommandIDs \cup {None}
      BY <1>0, <2>1, EditorsTyped
    <2>0. rendered' \in [empty: BOOLEAN, locked: BOOLEAN]
      BY <1>0, <1>4, RenderTyped DEF TypeOK, SelectCommand
    <2>3. TypeOK'
      BY <1>0, <1>4, <2>0, <2>2 DEF TypeOK, SelectCommand
    <2> QED  BY <1>4, <2>3, PageTyped DEF SelectCommand
  <1>5. CASE \E v \in Verbs : SaveLocally(v)
    <2>1. PICK v \in Verbs : SaveLocally(v)
      BY <1>5
    <2> DEFINE e == IF v = "stop" THEN edits ELSE edits \ {customID}
    <2>2. Value(v) \in CommandState
      BY DEF Verbs, Value, CommandState
    <2>3. customID \in CommandIDs
      BY <1>0, <2>1 DEF SaveLocally, MaySaveCustom
    <2>4. config' = [config EXCEPT !.customs[customID] = Value(v)]
      BY <2>1, Zenon DEF SaveLocally
    <2>5. config \in Config /\ config.customs \in [CommandIDs -> CommandState]
      BY <1>0 DEF TypeOK, Config
    <2>6. config' = [config EXCEPT !.customs = [config.customs EXCEPT ![customID] = Value(v)]]
      BY <2>4, Zenon
    <2>7. [config.customs EXCEPT ![customID] = Value(v)] \in [CommandIDs -> CommandState]
      BY <2>2, <2>3, <2>5
    <2>8. config' \in Config
      BY <2>5, <2>6, <2>7 DEF Config
    <2>9. e \in SUBSET CommandIDs
      BY <1>0
    <2>10. ShowEditor(syncCustomEditor(config', e, customID))
      BY <2>1, Zenon DEF SaveLocally
    <2> HIDE DEF e
    <2>11. edits' \subseteq CommandIDs /\ customID' \in CommandIDs \cup {None}
      BY <1>0, <2>9, <2>10, EditorsTyped
    <2>12. UNCHANGED <<server, states, demo, paused, busy, draft, timer, net>> /\ render
      BY <2>1, Zenon DEF SaveLocally
    <2>0. rendered' \in [empty: BOOLEAN, locked: BOOLEAN]
      BY <1>0, <2>8, <2>12, RenderTyped DEF TypeOK
    <2>13. TypeOK'
      BY <1>0, <2>0, <2>8, <2>11, <2>12 DEF TypeOK
    <2> QED  BY <2>12, <2>13, PageTyped
  <1> QED  BY <1>1, <1>2, <1>3, <1>4, <1>5

\* A save begins only when the service has one left for it.
LEMMA SaveStarts ==
    ASSUME DashboardAssumption, DashTyped, MaySave, NEW c \in Saves,
           ~InFlight(c), NEW r, Fit(c, r), net' = [net EXCEPT ![c] = r], server' = server
    PROVE  NetTyped' /\ SavesFit' /\ DOMAIN net' = Callers
  <1>1. NetTyped /\ c \in Callers /\ server.version \in Nat
    BY DEF DashTyped, Saves, Callers, TypeOK, Config, DashboardAssumption
  <1>2. NetTyped' /\ Count(net') = Count(net) - Weight(c, net[c]) + Weight(c, r)
    BY <1>1, NetChange
  <1>3. Weight(c, net[c]) = 0 /\ Weight(c, r) \in {0, 1}
    BY DEF InFlight, Weight
  <1>4. Count(net) \in Nat
    BY WeightsAre DEF Count
  <1>5. server.version + Count(net) < MaxSaves
    BY <1>1, MaySaveCounts DEF DashboardAssumption
  <1>6. server'.version + Count(net') <= MaxSaves
    BY <1>1, <1>2, <1>3, <1>4, <1>5 DEF DashboardAssumption
  <1> QED  BY <1>2, <1>6 DEF SavesFit, NetTyped

LEMMA SavingTyped ==
    ASSUME DashboardAssumption, DashTyped, SubmitSettings \/ \E v \in Verbs : \E c \in Customs : SaveCustom(c, v)
    PROVE  DashTyped'
  <1>0. TypeOK
    BY DEF DashTyped
  <1>1. CASE SubmitSettings
    <2>1. PICK m \in BOOLEAN :
              net' = [net EXCEPT !["settings"] = Sent("settings", None, [draft EXCEPT !.machines = m])]
      BY <1>1, Zenon DEF SubmitSettings
    <2> DEFINE r == Sent("settings", None, [draft EXCEPT !.machines = m])
    <2>2. draft \in Config
      BY <1>0, <1>1 DEF TypeOK, SubmitSettings
    <2>3. [draft EXCEPT !.machines = m] \in Config
      BY <2>2 DEF Config
    <2>4. Fit("settings", r)
      BY <2>3 DEF Fit, Sent, Customs
    <2> HIDE DEF r
    <2>5. /\ MaySave /\ ~InFlight("settings") /\ busy' = TRUE
          /\ UNCHANGED <<server, config, states, demo, paused, draft, edits, customID, timer, rendered>>
          /\ "settings" \in Saves
      BY <1>1, Zenon DEF SubmitSettings, Saves
    <2>6. NetTyped' /\ SavesFit' /\ DOMAIN net' = Callers
      BY <2>1, <2>4, <2>5, SaveStarts DEF r
    <2>7. TypeOK'
      BY <1>0, <2>5, <2>6 DEF TypeOK
    <2> QED  BY <2>6, <2>7 DEF DashTyped
  <1>2. CASE \E v \in Verbs : \E c \in Customs : SaveCustom(c, v)
    <2>1. PICK v \in Verbs, c \in Customs : SaveCustom(c, v)
      BY <1>2
    <2> DEFINE r == Sent(v, customID, Value(v))
    <2>2. customID \in CommandIDs
      BY <1>0, <2>1 DEF TypeOK, SaveCustom, MaySaveCustom
    <2>3. Value(v) \in CommandState
      BY DEF Verbs, Value, CommandState
    <2>4. Fit(c, r) /\ c \in Saves
      BY <2>2, <2>3 DEF Fit, Sent, Saves, Customs
    <2>5. /\ MaySave /\ ~InFlight(c) /\ busy' = TRUE /\ net' = [net EXCEPT ![c] = r]
          /\ UNCHANGED <<server, config, states, demo, paused, draft, edits, customID, timer>>
          /\ render
      BY <2>1, Zenon DEF SaveCustom
    <2> HIDE DEF r
    <2>6. NetTyped' /\ SavesFit' /\ DOMAIN net' = Callers
      BY <2>4, <2>5, SaveStarts
    <2>7. rendered' \in [empty: BOOLEAN, locked: BOOLEAN]
      BY <1>0, <2>5, RenderTyped DEF TypeOK
    <2>8. TypeOK'
      BY <1>0, <2>5, <2>6, <2>7 DEF TypeOK
    <2> QED  BY <2>6, <2>8 DEF DashTyped
  <1> QED  BY <1>1, <1>2

LEMMA EndsTyped ==
    ASSUME DashboardAssumption, DashTyped, PollAnswered \/ SettingsSaved \/ \E c \in Customs : CustomSaved(c)
    PROVE  DashTyped'
  <1>0. /\ NetTyped /\ TypeOK /\ edits \in SUBSET CommandIDs /\ customID \in CommandIDs \cup {None}
        /\ "poll" \in Callers /\ Customs \subseteq Callers /\ "settings" \in Callers
    BY DEF DashTyped, TypeOK, Callers
  <1>1. CASE PollAnswered
    <2>1. NetTyped' /\ SavesFit' /\ DOMAIN net' = Callers /\ server' \in Config
      BY <1>0, <1>1, RequestEnds DEF PollAnswered
    <2>2. net["poll"].stage = "answered" => net["poll"].body \in States
      BY <1>0, AnswersTyped
    <2>3. rendered' \in [empty: BOOLEAN, locked: BOOLEAN]
      BY <1>0, <1>1, RenderTyped DEF TypeOK, PollAnswered
    <2> QED  BY <1>0, <1>1, <2>1, <2>2, <2>3 DEF DashTyped, TypeOK, PollAnswered
  <1>2. CASE \E c \in Customs : CustomSaved(c)
    <2>0. PICK c \in Customs : CustomSaved(c)
      BY <1>2
    <2> DEFINE r == net[c]
               left == IF r.stage = "answered" /\ r.op # "stop" THEN edits \ {customID} ELSE edits
    <2>1. NetTyped' /\ SavesFit' /\ DOMAIN net' = Callers /\ server' \in Config
      BY <1>0, <2>0, RequestEnds DEF CustomSaved
    <2>2. r.stage = "answered" => r.body \in Config
      BY <1>0, AnswersTyped DEF Customs
    <2>3. left \in SUBSET CommandIDs
      BY <1>0
    <2>4. \/ UNCHANGED <<config, states, edits, customID>>
          \/ /\ r.stage = "answered" /\ config' = r.body /\ states' = NoStates
             /\ ShowEditor(syncCustomEditor(r.body, left, customID))
      BY <2>0 DEF CustomSaved
    <2> HIDE DEF left
    <2>5. /\ config' \in Config /\ states' \in States
          /\ edits' \subseteq CommandIDs /\ customID' \in CommandIDs \cup {None}
      <3>1. CASE UNCHANGED <<config, states, edits, customID>>
        BY <1>0, <3>1 DEF TypeOK
      <3>2. CASE /\ r.stage = "answered" /\ config' = r.body /\ states' = NoStates
                 /\ ShowEditor(syncCustomEditor(r.body, left, customID))
        BY <1>0, <2>2, <2>3, <3>2, EditorsTyped, OwnConfigs
      <3> QED  BY <2>4, <3>1, <3>2
    <2>6. UNCHANGED <<demo, paused, draft, timer>> /\ busy' = FALSE /\ render
      BY <2>0 DEF CustomSaved
    <2>7. rendered' \in [empty: BOOLEAN, locked: BOOLEAN]
      BY <2>5, <2>6, RenderTyped
    <2> QED  BY <1>0, <2>1, <2>5, <2>6, <2>7 DEF DashTyped, TypeOK
  <1>3. CASE SettingsSaved
    <2> DEFINE r == net["settings"]
    <2>1. NetTyped' /\ SavesFit' /\ DOMAIN net' = Callers /\ server' \in Config
      BY <1>0, <1>3, RequestEnds DEF SettingsSaved
    <2>2. net["settings"].stage = "answered" => net["settings"].body \in Config
      BY <1>0, AnswersTyped
    <2>3. /\ config' \in Config /\ states' \in States /\ draft' \in Config \cup {None}
          /\ edits' \subseteq CommandIDs /\ customID' \in CommandIDs \cup {None}
      <3>1. CASE UNCHANGED <<config, edits, customID, states, draft>>
        BY <1>0, <3>1 DEF TypeOK
      <3>2. CASE /\ r.stage = "answered" /\ config' = r.body /\ states' = NoStates /\ draft' = None
                 /\ ShowEditor(syncCustomEditor(r.body, {}, customID))
        BY <1>0, <2>2, <3>2, EditorsTyped, OwnConfigs
      <3> QED  BY <1>3, <3>1, <3>2 DEF SettingsSaved, resetCustomEditor
    <2>4. rendered' \in [empty: BOOLEAN, locked: BOOLEAN]
      BY <1>3, <2>3, RenderTyped DEF SettingsSaved
    <2> QED  BY <1>0, <1>3, <2>1, <2>3, <2>4 DEF DashTyped, TypeOK, SettingsSaved
  <1> QED  BY <1>1, <1>2, <1>3

LEMMA DashTypedHolds ==
    ASSUME DashboardAssumption
    PROVE  Spec => []DashTyped
  <1>1. Init => DashTyped
    BY DashTypedInit
  <1>2. DashTyped /\ [Next]_vars => DashTyped'
    <2> SUFFICES ASSUME DashTyped, [Next]_vars
                 PROVE  DashTyped'
      OBVIOUS
    <2>1. CASE Serve \/ AnotherWindow
      BY <2>1, ServeTyped, WindowTyped
    <2>2. CASE (\E c \in Callers : Fail(c)) \/ OpenDialog \/ ExitDemo \/ PollStarts
      <3>1. "poll" \in Callers
        BY DEF Callers
      <3> QED  BY <2>2, <3>1, RequestTyped
    <2>3. CASE StartupEnds \/ DialogLoaded \/ DemoExited
      BY <2>3, LoadingTyped
    <2>4. CASE EnterDemo \/ TogglePause \/ Look \/ TypeCommand \/ AddCommand \/ SelectCommand
               \/ openSettings \/ CloseSettings \/ \E v \in Verbs : SaveLocally(v)
      BY <2>4, EditorTyped
    <2>5. CASE SubmitSettings \/ \E v \in Verbs : \E c \in Customs : SaveCustom(c, v)
      BY <2>5, SavingTyped
    <2>6. CASE PollAnswered \/ SettingsSaved \/ \E c \in Customs : CustomSaved(c)
      BY <2>6, EndsTyped
    <2>7. CASE UNCHANGED vars
      BY <2>7 DEF vars, DashTyped, TypeOK, NetTyped, SavesFit
    <2> QED  BY <2>1, <2>2, <2>3, <2>4, <2>5, <2>6, <2>7 DEF Next
  <1> QED  BY <1>1, <1>2, PTL DEF Spec

\* Every variable of the page keeps its kind.
LEMMA DashTypes ==
    ASSUME DashboardAssumption
    PROVE  Spec => []TypeOK
  <1>1. DashTyped => TypeOK
    BY DEF DashTyped
  <1> QED  BY <1>1, DashTypedHolds, PTL

-----------------------------------------------------------------------------
\* The command in the editor is one of the list beside it, whichever of the
\* answers that replace the configuration came last (app.js:136-152).
THEOREM EditorTrue == Spec => []EditorShowsAChoice
  <1>1. DashInv => EditorShowsAChoice
    BY DEF DashInv
  <1> QED  BY <1>1, DashHolds, PTL

\* Controls that a save holds back have a save that releases them, however
\* saves of commands and of the settings overlap (app.js:206-231, 283-288).
THEOREM ControlsReleased == Spec => []BusyHasAWrite
  <1>1. DashInv => BusyHasAWrite
    BY DEF DashInv
  <1> QED  BY <1>1, DashHolds, PTL

-----------------------------------------------------------------------------
(* The made-up configuration of the demonstration stays in it: no answer    *)
(* brings it, no draft is made of it, and so no save sends it.              *)

FromService(c, r) ==
    /\ r.stage = "answered" /\ c # "poll" => r.body.source = "service"
    /\ r.stage = "sent" /\ c = "settings" => r.body.source # "demo"
NetReal == server.source = "service" /\ \A c \in Callers : FromService(c, net[c])

\* While it is shown there are machines on the page, and so no second button
\* for the settings.
ShownInDemo == config.source = "demo" => demo /\ config.machines /\ ~rendered.empty
DraftReal == draft # None => draft.source # "demo"
RealInv == NetReal /\ ShownInDemo /\ DraftReal

LEMMA RealInit == Init => RealInv
  BY DEF Init, RealInv, NetReal, FromService, ShownInDemo, DraftReal, BuiltIn, Loading, Sent, Idle

LEMMA RealRequest ==
    ASSUME DashTyped, NetReal, server'.source = "service", NEW c \in Callers, NEW r,
           FromService(c, r), net' = [net EXCEPT ![c] = r]
    PROVE  NetReal'
  <1>1. DOMAIN net = Callers
    BY DEF DashTyped, NetTyped
  <1>2. \A d \in Callers : net'[d] = (IF d = c THEN r ELSE net[d])
    BY <1>1
  <1>3. \A d \in Callers : FromService(d, net'[d])
    BY <1>2 DEF NetReal
  <1> QED  BY <1>3 DEF NetReal, FromService

\* A request that ends, is lost, or asks for something to read.
LEMMA RealReading ==
    ASSUME DashTyped, NetReal, server' = server, NEW c \in Callers,
           \/ net' = [net EXCEPT ![c] = Idle]
           \/ net' = [net EXCEPT ![c] = Failed]
           \/ net' = [net EXCEPT ![c] = Loading] /\ c # "settings"
           \/ net' = [net EXCEPT ![c] = Sent("status", None, None)] /\ c = "poll"
    PROVE  NetReal'
  <1>1. FromService(c, Idle) /\ FromService(c, Failed)
    BY DEF FromService, Idle, Failed
  <1>2. c # "settings" => FromService(c, Loading) /\ FromService(c, Sent("status", None, None))
    BY DEF FromService, Loading, Sent
  <1> QED  BY <1>1, <1>2, RealRequest DEF NetReal

LEMMA RealStored ==
    ASSUME DashTyped, NetReal, Serve \/ AnotherWindow
    PROVE  NetReal'
  <1>0. server \in Config /\ server.source = "service" /\ Customs \subseteq Callers
    BY DEF DashTyped, TypeOK, NetReal, Callers
  <1>a. ASSUME NEW c \in Callers, NEW body, Answer(c, body), server'.source = "service",
               c = "poll" \/ body.source = "service"
        PROVE  NetReal'
    <2> DEFINE r == [stage |-> "answered", op |-> net[c].op, body |-> body]
    <2>1. net' = [net EXCEPT ![c] = r]
      BY <1>a DEF Answer
    <2>2. FromService(c, r)
      BY <1>a DEF FromService
    <2> HIDE DEF r
    <2> QED  BY <1>a, <2>1, <2>2, RealRequest
  <1>b. ASSUME NEW c \in Callers, NEW machines, NEW customs, Save(c, machines, customs)
        PROVE  NetReal'
    <2>1. server'.source = "service"
      BY <1>0, <1>b DEF Save, Config
    <2> QED  BY <1>a, <1>b, <2>1 DEF Save
  <1>1. CASE \E c \in {"startup", "dialog", "exit"} : ServeConfig(c)
    BY <1>0, <1>a, <1>1 DEF ServeConfig, Callers
  <1>2. CASE ServeStatus
    BY <1>0, <1>a, <1>2 DEF ServeStatus, Callers
  <1>3. CASE ServeSettings \/ \E c \in Customs : ServeCommand(c)
    BY <1>0, <1>b, <1>3 DEF ServeSettings, ServeCommand, Callers
  <1>4. CASE AnotherWindow
    <2>1. server'.source = server.source /\ net' = net
      BY <1>0, <1>4 DEF AnotherWindow, Config
    <2> QED  BY <1>0, <2>1 DEF NetReal
  <1> QED  BY <1>1, <1>2, <1>3, <1>4 DEF Serve

LEMMA RealNet ==
    ASSUME DashTyped, RealInv, [Next]_vars
    PROVE  NetReal'
  <1>0. NetReal /\ Callers = {"startup", "dialog", "exit", "poll", "settings", "custom", "again"}
    BY DEF RealInv, Callers, Customs
  <1>a. UNCHANGED <<server, net>> => NetReal'
    BY <1>0 DEF NetReal
  <1>1. CASE Serve \/ AnotherWindow
    BY <1>0, <1>1, RealStored
  <1>2. CASE \E c \in Callers : Fail(c)
    BY <1>0, <1>2, RealReading DEF Fail
  <1>3. CASE StartupEnds \/ DialogLoaded \/ DemoExited \/ PollAnswered
    BY <1>0, <1>3, RealReading DEF StartupEnds, DialogLoaded, DemoExited, PollAnswered
  <1>4. CASE OpenDialog \/ ExitDemo \/ PollStarts
    BY <1>0, <1>4, RealReading DEF OpenDialog, ExitDemo, PollStarts
  <1>5. CASE SettingsSaved \/ \E c \in Customs : CustomSaved(c)
    BY <1>0, <1>5, RealReading DEF SettingsSaved, CustomSaved, Customs
  <1>6. CASE \E v \in Verbs : \E c \in Customs : SaveCustom(c, v)
    <2>1. PICK v \in Verbs, c \in Customs : SaveCustom(c, v)
      BY <1>6
    <2>2. c \in Callers /\ FromService(c, Sent(v, customID, Value(v)))
      BY <1>0 DEF FromService, Sent, Customs
    <2>3. net' = [net EXCEPT ![c] = Sent(v, customID, Value(v))] /\ server' = server
      BY <2>1 DEF SaveCustom
    <2>4. server'.source = "service"
      BY <1>0, <2>3 DEF NetReal
    <2> HIDE DEF Sent, Value
    <2> QED  BY <1>0, <2>2, <2>3, <2>4, RealRequest
  <1>7. CASE SubmitSettings
    <2>1. PICK m \in BOOLEAN :
              net' = [net EXCEPT !["settings"] = Sent("settings", None, [draft EXCEPT !.machines = m])]
      BY <1>7, Zenon DEF SubmitSettings
    <2>2. draft \in Config /\ draft.source # "demo"
      BY <1>7 DEF SubmitSettings, DashTyped, TypeOK, RealInv, DraftReal
    <2> DEFINE d == [draft EXCEPT !.machines = m]
    <2>3. d.source # "demo"
      BY <2>2 DEF Config
    <2> HIDE DEF d
    <2>4. FromService("settings", Sent("settings", None, d))
      BY <2>3 DEF FromService, Sent
    <2>5. server' = server /\ server'.source = "service"
      BY <1>0, <1>7 DEF SubmitSettings, NetReal
    <2> QED  BY <1>0, <2>1, <2>4, <2>5, RealRequest DEF d
  <1>8. CASE EnterDemo \/ TogglePause \/ Look \/ TypeCommand \/ AddCommand \/ SelectCommand
             \/ openSettings \/ CloseSettings \/ \E v \in Verbs : SaveLocally(v)
    BY <1>a, <1>8 DEF EnterDemo, TogglePause, Look, TypeCommand, AddCommand, SelectCommand,
           openSettings, CloseSettings, SaveLocally
  <1>9. CASE UNCHANGED vars
    BY <1>a, <1>9 DEF vars
  <1> QED  BY <1>1, <1>2, <1>3, <1>4, <1>5, <1>6, <1>7, <1>8, <1>9 DEF Next

\* A page that is drawn again without a new configuration.
LEMMA DrawnInDemo ==
    ASSUME ShownInDemo, config \in Config, UNCHANGED <<config, demo>>,
           render \/ rendered' = rendered
    PROVE  ShownInDemo'
  <1>1. config.machines \in BOOLEAN
    BY DEF Config
  <1>2. rendered'.empty = rendered.empty \/ rendered'.empty = ~config.machines
    BY DEF render
  <1> QED  BY <1>1, <1>2 DEF ShownInDemo

LEMMA RealShown ==
    ASSUME DashTyped, RealInv, [Next]_vars
    PROVE  ShownInDemo'
  <1>0. ShownInDemo /\ NetReal /\ config \in Config /\ Customs \subseteq Callers
    BY DEF RealInv, DashTyped, TypeOK, Callers
  <1>a. config'.source = "service" => ShownInDemo'
    BY DEF ShownInDemo
  <1>b. \A c \in Callers : net[c].stage = "answered" /\ c # "poll" => net[c].body.source = "service"
    BY <1>0 DEF NetReal, FromService
  <1>c. ASSUME NEW c, enterDemo(c), render
        PROVE  ShownInDemo'
    BY <1>c DEF enterDemo, render, ShownInDemo, DemoConfig
  <1>1. CASE Serve \/ AnotherWindow \/ \E c \in Callers : Fail(c)
    BY <1>0, <1>1, DrawnInDemo DEF Serve, AnotherWindow, Fail
  <1>2. CASE StartupEnds
    <2>1. net["startup"].stage = "answered" => net["startup"].body.source = "service"
      BY <1>b DEF Callers
    <2> QED  BY <1>0, <1>2, <1>a, <1>c, <2>1, DrawnInDemo DEF StartupEnds, loadConfig
  <1>3. CASE DialogLoaded
    <2>1. net["dialog"].stage = "answered" => net["dialog"].body.source = "service"
      BY <1>b DEF Callers
    <2> QED  BY <1>0, <1>3, <1>a, <2>1, DrawnInDemo DEF DialogLoaded, loadConfig
  <1>4. CASE DemoExited
    <2>1. net["exit"].stage = "answered" => net["exit"].body.source = "service"
      BY <1>b DEF Callers
    <2> QED  BY <1>0, <1>4, <1>a, <2>1, DrawnInDemo DEF DemoExited, loadConfig
  <1>5. CASE EnterDemo
    BY <1>5, <1>c DEF EnterDemo
  <1>6. CASE OpenDialog \/ ExitDemo \/ TogglePause \/ Look \/ PollStarts \/ PollAnswered
    BY <1>0, <1>6, DrawnInDemo DEF OpenDialog, ExitDemo, TogglePause, Look, PollStarts, PollAnswered
  <1>7. CASE AddCommand \/ SelectCommand \/ openSettings \/ CloseSettings \/ SubmitSettings
             \/ \E v \in Verbs : \E c \in Customs : SaveCustom(c, v)
    BY <1>0, <1>7, DrawnInDemo DEF AddCommand, SelectCommand, openSettings, CloseSettings,
           SubmitSettings, SaveCustom
  <1>8. CASE TypeCommand
    <2>1. UNCHANGED <<config, demo>> /\ rendered'.empty = rendered.empty
      BY <1>8 DEF TypeCommand, DashTyped, TypeOK
    <2> QED  BY <1>0, <2>1 DEF ShownInDemo
  <1>9. CASE \E v \in Verbs : SaveLocally(v)
    <2>1. PICK v \in Verbs : SaveLocally(v)
      BY <1>9
    <2>2. config' = [config EXCEPT !.customs = [config.customs EXCEPT ![customID] = Value(v)]]
      BY <2>1, Zenon DEF SaveLocally
    <2>3. config'.source = config.source /\ config'.machines = config.machines
      BY <1>0, <2>2 DEF Config
    <2>4. demo' = demo /\ render
      BY <2>1, Zenon DEF SaveLocally
    <2>5. rendered'.empty = ~config.machines
      BY <2>3, <2>4 DEF render
    <2> QED  BY <1>0, <2>3, <2>4, <2>5 DEF ShownInDemo
  <1>10. CASE \E c \in Customs : CustomSaved(c)
    <2>1. PICK c \in Customs : CustomSaved(c)
      BY <1>10
    <2>2. net[c].stage = "answered" => net[c].body.source = "service"
      BY <1>0, <1>b DEF Customs
    <2> QED  BY <1>0, <1>a, <2>1, <2>2, DrawnInDemo DEF CustomSaved
  <1>11. CASE SettingsSaved
    <2>1. net["settings"].stage = "answered" => net["settings"].body.source = "service"
      BY <1>b DEF Callers
    <2> QED  BY <1>0, <1>11, <1>a, <2>1, DrawnInDemo DEF SettingsSaved
  <1>12. CASE UNCHANGED vars
    BY <1>0, <1>12, DrawnInDemo DEF vars
  <1> QED  BY <1>1, <1>2, <1>3, <1>4, <1>5, <1>6, <1>7, <1>8, <1>9, <1>10, <1>11, <1>12 DEF Next

LEMMA RealDraft ==
    ASSUME RealInv, [Next]_vars
    PROVE  DraftReal'
  <1>1. draft' = draft \/ draft' = None => DraftReal'
    BY DEF RealInv, DraftReal
  <1>2. CASE Serve \/ AnotherWindow \/ \E c \in Callers : Fail(c)
    BY <1>1, <1>2 DEF Serve, AnotherWindow, Fail
  <1>3. CASE StartupEnds \/ OpenDialog \/ DialogLoaded \/ EnterDemo \/ ExitDemo \/ DemoExited
             \/ TogglePause \/ Look \/ PollStarts \/ PollAnswered
    BY <1>1, <1>3 DEF StartupEnds, OpenDialog, DialogLoaded, EnterDemo, ExitDemo, DemoExited,
           TogglePause, Look, PollStarts, PollAnswered
  <1>4. CASE TypeCommand \/ AddCommand \/ SelectCommand \/ \E c \in Customs : CustomSaved(c)
    BY <1>1, <1>4 DEF TypeCommand, AddCommand, SelectCommand, CustomSaved
  <1>5. CASE \E v \in Verbs : SaveLocally(v) \/ \E c \in Customs : SaveCustom(c, v)
    BY <1>1, <1>5 DEF SaveLocally, SaveCustom
  <1>6. CASE openSettings
    BY <1>6 DEF openSettings, RealInv, ShownInDemo, DraftReal
  <1>7. CASE CloseSettings \/ SubmitSettings \/ SettingsSaved
    BY <1>1, <1>7 DEF CloseSettings, SubmitSettings, SettingsSaved
  <1>8. CASE UNCHANGED vars
    BY <1>1, <1>8 DEF vars
  <1> QED  BY <1>2, <1>3, <1>4, <1>5, <1>6, <1>7, <1>8 DEF Next

\* Only a handler that is not in the demonstration sends a command.
LEMMA CommandsBegin ==
    ASSUME DashTyped, Next, NEW c \in Customs, net[c].stage = "idle", net'[c].stage = "sent"
    PROVE  ~demo
  <1>0. DOMAIN net = Callers /\ Customs \subseteq Callers
    BY DEF DashTyped, NetTyped, Callers
  <1>1. CASE \E v \in Verbs : \E d \in Customs : SaveCustom(d, v)
    BY <1>1 DEF SaveCustom, StaysLocal
  <1>a. ASSUME NEW d \in Callers, NEW r, net' = [net EXCEPT ![d] = r],
               r.stage = "sent" => d \notin Customs
        PROVE  FALSE
    BY <1>0, <1>a
  <1>2. CASE Serve
    <2>1. PICK d \in Callers : \E body : Answer(d, body)
      BY <1>2 DEF Serve, ServeConfig, ServeStatus, ServeSettings, ServeCommand, Save, Callers
    <2> QED  BY <1>a, <2>1 DEF Answer
  <1>3. CASE (\E d \in Callers : Fail(d)) \/ SettingsSaved \/ \E d \in Customs : CustomSaved(d)
    BY <1>0, <1>3, <1>a DEF Fail, CustomSaved, SettingsSaved, Callers, Idle, Failed
  <1>4. CASE StartupEnds \/ DialogLoaded \/ DemoExited \/ PollAnswered
    BY <1>a, <1>4 DEF StartupEnds, DialogLoaded, DemoExited, PollAnswered, Callers, Idle
  <1>5. CASE OpenDialog \/ ExitDemo \/ PollStarts
    BY <1>a, <1>5 DEF OpenDialog, ExitDemo, PollStarts, Callers, Customs
  <1>6. CASE SubmitSettings
    <2>1. PICK r : net' = [net EXCEPT !["settings"] = r]
      BY <1>6, Zenon DEF SubmitSettings
    <2> QED  BY <1>a, <2>1 DEF Callers, Customs
  <1>7. CASE AnotherWindow \/ EnterDemo \/ TogglePause \/ Look \/ TypeCommand \/ AddCommand
             \/ SelectCommand \/ openSettings \/ CloseSettings \/ \E v \in Verbs : SaveLocally(v)
    BY <1>7 DEF AnotherWindow, EnterDemo, TogglePause, Look, TypeCommand, AddCommand, SelectCommand,
           openSettings, CloseSettings, SaveLocally
  <1> QED  BY <1>1, <1>2, <1>3, <1>4, <1>5, <1>6, <1>7 DEF Next

\* No save of a command begins in the demonstration, and nothing the settings
\* send is made of its configuration, whichever of the two buttons opened them
\* and whatever was answered in between (app.js:149, 194, 206-231, 270-288).
THEOREM DemoLocal ==
    ASSUME DashboardAssumption
    PROVE  Spec => [][DemoIsLocal]_vars
  <1>1. DashTyped /\ RealInv /\ [Next]_vars => RealInv'
    BY RealNet, RealShown, RealDraft DEF RealInv
  <1>2. RealInv' => (net'["settings"].stage = "sent" => net'["settings"].body.source # "demo")
    BY DEF RealInv, NetReal, FromService, Callers
  <1>3. DashTyped /\ RealInv /\ [Next]_vars => [DemoIsLocal]_vars
    <2> SUFFICES ASSUME DashTyped, RealInv, Next
                 PROVE  DemoIsLocal
      OBVIOUS
    <2> QED  BY <1>1, <1>2, CommandsBegin DEF DemoIsLocal
  <1> QED  BY <1>1, <1>3, RealInit, DashTypedHolds, PTL DEF Spec

=============================================================================
