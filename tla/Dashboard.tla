------------------------------ MODULE Dashboard ------------------------------
(***************************************************************************)
(* The monitoring page (src/web/app.js) and the two HTTP resources it       *)
(* edits: the configuration and the custom commands.  The page is one       *)
(* thread: a handler runs to its next await, and the rest of it runs when   *)
(* its answer arrives, whatever the page has become in between.  Every      *)
(* handler that awaits is therefore two actions, and a request in flight    *)
(* is what is between them.                                                 *)
(*                                                                         *)
(* A configuration is told apart by where it comes from, by the number of   *)
(* the save that produced it, by whether it has machines and by the custom  *)
(* commands; a table of sampled states by where it comes from and by the    *)
(* save whose workers sampled it.                                           *)
(***************************************************************************)
EXTENDS Naturals

CONSTANTS
    CommandIDs,     \* identifiers a custom command may get
    None,           \* no command selected, no draft
    ServerStart,    \* the custom commands the service starts with
    StartInDemo,    \* the page was opened with ?demo=1
    OtherClients,   \* another window edits custom commands too
    Lossy,          \* callers whose requests may be lost
    Polls,          \* bound: whether there is time for the poll timer to fire
    Dialogs,        \* bound: whether dialogs that load the configuration are opened
    MaxSaves        \* bound: saves the service handles in a behaviour

DashboardAssumption ==
    /\ None \notin CommandIDs
    /\ ServerStart \in [CommandIDs -> {"absent", "stopped", "running"}]
    /\ StartInDemo \in BOOLEAN /\ OtherClients \in BOOLEAN /\ Polls \in BOOLEAN /\ Dialogs \in BOOLEAN
    /\ MaxSaves \in Nat

VARIABLES
    server,         \* the stored configuration
    config, states, demo, paused, busy, draft,      \* globals of the page
    edits,          \* customEdits: commands with unsaved text
    customID,       \* the command in the editor
    timer,          \* the poll chain: "off", "due" or "waiting" for its answer
    net,            \* the request each caller has in flight
    rendered        \* what the last render() left: #empty shown, the editor locked

vars == <<server, config, states, demo, paused, busy, draft, edits, customID, timer, net, rendered>>

\* Saves of commands may overlap, because the end of any save clears busy.
Customs == {"custom", "again"}      \* bound: two of them at a time
Callers == {"startup", "dialog", "exit", "poll", "settings"} \cup Customs
CommandState == {"absent", "stopped", "running"}
Config == [source: {"builtin", "service", "demo"}, version: 0..MaxSaves,
           machines: BOOLEAN, customs: [CommandIDs -> CommandState]]
States == [source: {"none", "service", "demo"}, version: 0..MaxSaves]

NoCommands == [id \in CommandIDs |-> "absent"]
BuiltIn == [source |-> "builtin", version |-> 0, machines |-> FALSE, customs |-> NoCommands]
DemoConfig == [source |-> "demo", version |-> 0, machines |-> TRUE, customs |-> NoCommands]
NoStates == [source |-> "none", version |-> 0]
Sampled(c) == [source |-> "service", version |-> c.version]

Idle == [stage |-> "idle"]
Failed == [stage |-> "failed"]
Sent(op, id, body) == [stage |-> "sent", op |-> op, id |-> id, body |-> body]
Loading == Sent("load", None, None)
InFlight(c) == net[c].stage # "idle"
Unserved(c) == IF net[c].stage = "sent" THEN 1 ELSE 0
MaySave == server.version + Unserved("custom") + Unserved("again") + Unserved("settings") < MaxSaves

\* #empty, with the buttons of the demonstration and of the settings, is shown
\* when there are no machines, and the controls of the editor follow busy: both
\* as the page was drawn last, whatever the variables have become since.
render == rendered' = [empty |-> ~config'.machines, locked |-> busy']

-----------------------------------------------------------------------------
(* The command editor.  An editor is the unsaved texts and the selection;   *)
(* an operator returns the editors the code can end with, because the order *)
(* of the list, which decides what "the first" is, is not modelled.         *)

savedCustoms(c) == {id \in CommandIDs : c.customs[id] # "absent"}
enabledCustoms(c) == {id \in CommandIDs : c.customs[id] = "running"}
customChoices(c, e) == savedCustoms(c) \cup e

\* A new identifier is random: it is on no list, stored, shown or being saved.
NewIDs == {id \in CommandIDs : /\ server.customs[id] = "absent"
                               /\ \A c \in Customs : net[c].stage = "sent" => net[c].id # id}

syncCustomEditor(c, e, selected) ==
    IF selected \in customChoices(c, e) THEN {[edits |-> e, id |-> selected]}
    ELSE IF customChoices(c, e) # {}
         THEN {[edits |-> e, id |-> id] : id \in customChoices(c, e)}
         ELSE {[edits |-> {id}, id |-> id] : id \in NewIDs}

resetCustomEditor(c) == syncCustomEditor(c, {}, customID)

ShowEditor(editors) ==
    \E editor \in editors : edits' = editor.edits /\ customID' = editor.id

loadConfig(c) ==
    /\ config' = c
    /\ ShowEditor(IF enabledCustoms(c) = {} THEN resetCustomEditor(c)
                  ELSE {[edits |-> {}, id |-> id] : id \in enabledCustoms(c)})

-----------------------------------------------------------------------------
Init ==
    /\ server \in {[source |-> "service", version |-> 0, machines |-> m, customs |-> ServerStart] : m \in BOOLEAN}
    /\ config = BuiltIn /\ states = NoStates
    /\ demo = FALSE /\ paused = FALSE /\ busy = FALSE /\ draft = None
    /\ edits = {} /\ customID = None
    /\ timer = "off"
    /\ net = [c \in Callers |-> IF c = "startup" THEN Loading ELSE Idle]
    /\ rendered = [empty |-> FALSE, locked |-> FALSE]

\* A modal dialog makes the page below it inert.
PageActive == draft = None

\* The service handles a request; its handlers serialise on one mutex.
Answer(c, body) == net' = [net EXCEPT ![c] = [stage |-> "answered", op |-> @.op, body |-> body]]
Save(c, machines, customs) ==
    /\ server' = [server EXCEPT !.version = @ + 1, !.machines = machines, !.customs = customs]
    /\ Answer(c, server')

ServeConfig(c) ==
    /\ net[c].stage = "sent" /\ net[c].op = "load"
    /\ Answer(c, server)
    /\ UNCHANGED server

ServeStatus ==
    /\ net["poll"].stage = "sent"
    /\ Answer("poll", Sampled(server))
    /\ UNCHANGED server

ServeSettings ==
    /\ net["settings"].stage = "sent"
    /\ Save("settings", net["settings"].body.machines, net["settings"].body.customs)

ServeCommand(c) ==
    LET r == net[c] IN
    /\ r.stage = "sent"
    /\ r.op = "delete" => server.customs[r.id] # "absent"
    /\ Save(c, server.machines, [server.customs EXCEPT ![r.id] = r.body])

Serve ==
    /\ \/ \E c \in {"startup", "dialog", "exit"} : ServeConfig(c)
       \/ \E c \in Customs : ServeCommand(c)
       \/ ServeStatus \/ ServeSettings
    /\ UNCHANGED <<config, states, demo, paused, busy, draft, edits, customID, timer, rendered>>

\* The request or its answer is lost, or the service refuses.
Fail(c) ==
    /\ c \in Lossy /\ net[c].stage \in {"sent", "answered"}
    /\ net' = [net EXCEPT ![c] = Failed]
    /\ UNCHANGED <<server, config, states, demo, paused, busy, draft, edits, customID, timer, rendered>>

AnotherWindow ==
    /\ OtherClients /\ MaySave
    /\ \E id \in CommandIDs, s \in CommandState \ {"absent"} :
          server' = [server EXCEPT !.version = @ + 1, !.customs[id] = s]
    /\ UNCHANGED <<config, states, demo, paused, busy, draft, edits, customID, timer, net, rendered>>

-----------------------------------------------------------------------------
enterDemo(c) ==
    /\ demo' = TRUE /\ paused' = FALSE
    /\ config' = DemoConfig
    /\ states' = [source |-> "demo", version |-> 0]
    /\ ShowEditor(syncCustomEditor(DemoConfig, {}, None))

\* The first load ends, well or not, and then the poll chain starts.
StartupEnds ==
    LET r == net["startup"] IN
    /\ r.stage \in {"answered", "failed"}
    /\ net' = [net EXCEPT !["startup"] = Idle]
    /\ timer' = "due"
    /\ UNCHANGED <<server, busy, draft>>
    /\ \/ /\ r.stage = "answered" /\ StartInDemo
          /\ enterDemo(r.body) /\ render
       \/ /\ r.stage = "answered" /\ ~StartInDemo
          /\ loadConfig(r.body) /\ render
          /\ UNCHANGED <<states, demo, paused>>
       \/ /\ r.stage = "failed"
          /\ UNCHANGED <<config, states, demo, paused, edits, customID, rendered>>

\* Opening the batch, utilization or idle dialog loads the configuration again.
OpenDialog ==
    /\ Dialogs /\ PageActive /\ ~demo /\ ~InFlight("dialog")
    /\ net' = [net EXCEPT !["dialog"] = Loading]
    /\ UNCHANGED <<server, config, states, demo, paused, busy, draft, edits, customID, timer, rendered>>

\* The dialog shows what was loaded; the page behind it is not drawn.
DialogLoaded ==
    LET r == net["dialog"] IN
    /\ r.stage \in {"answered", "failed"}
    /\ net' = [net EXCEPT !["dialog"] = Idle]
    /\ IF r.stage = "answered" THEN loadConfig(r.body) ELSE UNCHANGED <<config, edits, customID>>
    /\ UNCHANGED <<server, states, demo, paused, busy, draft, timer, rendered>>

EnterDemo ==
    /\ PageActive /\ rendered.empty
    /\ enterDemo(config)
    /\ UNCHANGED <<server, busy, draft, timer, net>>
    /\ render

\* A form of ExitDemo that is over before the configuration has been loaded.
ExitDemoEarly ==
    /\ PageActive /\ demo /\ ~InFlight("exit")
    /\ net' = [net EXCEPT !["exit"] = Loading]
    /\ demo' = FALSE
    /\ UNCHANGED <<server, config, states, paused, busy, draft, edits, customID, timer, rendered>>

ExitDemo ==
    /\ PageActive /\ demo /\ ~InFlight("exit")
    /\ net' = [net EXCEPT !["exit"] = Loading]
    /\ UNCHANGED <<server, config, states, demo, paused, busy, draft, edits, customID, timer, rendered>>

DemoExited ==
    LET r == net["exit"] IN
    /\ r.stage \in {"answered", "failed"}
    /\ net' = [net EXCEPT !["exit"] = Idle]
    /\ UNCHANGED <<server, paused, busy, draft, timer>>
    /\ IF r.stage = "answered"
       THEN loadConfig(r.body) /\ demo' = FALSE /\ states' = NoStates /\ render
       ELSE UNCHANGED <<config, edits, customID, demo, states, rendered>>

TogglePause ==
    /\ PageActive
    /\ paused' = ~paused
    /\ UNCHANGED <<server, config, states, demo, busy, draft, edits, customID, timer, net>>
    /\ render

\* The search, the layout, the pages and their rotation draw the page again.
Look ==
    /\ PageActive
    /\ UNCHANGED <<server, config, states, demo, paused, busy, draft, edits, customID, timer, net>>
    /\ render

\* poll: the three flags are read before the request, never when it answers.
PollStarts ==
    /\ Polls /\ timer = "due" /\ ~demo /\ ~paused /\ ~busy
    /\ timer' = "waiting"
    /\ net' = [net EXCEPT !["poll"] = Sent("status", None, None)]
    /\ UNCHANGED <<server, config, states, demo, paused, busy, draft, edits, customID, rendered>>

\* A form of PollAnswered whose chain ends when a request fails.
PollAnsweredOnce ==
    LET r == net["poll"] IN
    /\ r.stage \in {"answered", "failed"}
    /\ net' = [net EXCEPT !["poll"] = Idle]
    /\ timer' = IF r.stage = "answered" THEN "due" ELSE "off"
    /\ states' = IF r.stage = "answered" THEN r.body ELSE states
    /\ UNCHANGED <<server, config, demo, paused, busy, draft, edits, customID>>
    /\ render

PollAnswered ==
    LET r == net["poll"] IN
    /\ r.stage \in {"answered", "failed"}
    /\ net' = [net EXCEPT !["poll"] = Idle]
    /\ timer' = "due"
    /\ states' = IF r.stage = "answered" THEN r.body ELSE states
    /\ UNCHANGED <<server, config, demo, paused, busy, draft, edits, customID>>
    /\ render

-----------------------------------------------------------------------------
EditorActive == PageActive /\ ~rendered.locked

\* Typing draws the controls of the editor only.
TypeCommand ==
    /\ EditorActive /\ customID # None
    /\ edits' = edits \cup {customID}
    /\ rendered' = [rendered EXCEPT !.locked = busy]
    /\ UNCHANGED <<server, config, states, demo, paused, busy, draft, customID, timer, net>>

AddCommand ==
    /\ EditorActive /\ ~busy
    /\ \E id \in NewIDs \ customChoices(config, edits) : edits' = edits \cup {id} /\ customID' = id
    /\ UNCHANGED <<server, config, states, demo, paused, busy, draft, timer, net>>
    /\ render

SelectCommand ==
    /\ EditorActive
    /\ \E id \in customChoices(config, edits) :
          ShowEditor(syncCustomEditor(config, edits, id))
    /\ UNCHANGED <<server, config, states, demo, paused, busy, draft, timer, net>>
    /\ render

\* saveCustom(enabled, remove): run, stop or delete the selected command.
Value(verb) == CASE verb = "run" -> "running" [] verb = "stop" -> "stopped" [] verb = "delete" -> "absent"
StaysLocal(verb) == demo \/ (verb = "delete" /\ customID \notin savedCustoms(config))
MaySaveCustom(verb) ==
    /\ EditorActive /\ ~busy /\ customID # None
    /\ verb = "stop" => customID \in enabledCustoms(config)

SaveLocally(verb) ==
    LET c == [config EXCEPT !.customs[customID] = Value(verb)] IN
    /\ MaySaveCustom(verb) /\ StaysLocal(verb)
    /\ config' = c
    /\ ShowEditor(syncCustomEditor(c, IF verb = "stop" THEN edits ELSE edits \ {customID}, customID))
    /\ UNCHANGED <<server, states, demo, paused, busy, draft, timer, net>>
    /\ render

SaveCustom(c, verb) ==
    /\ MaySaveCustom(verb) /\ ~StaysLocal(verb) /\ MaySave
    /\ ~InFlight(c) /\ (c = "again" => InFlight("custom"))
    /\ busy' = TRUE
    /\ net' = [net EXCEPT ![c] = Sent(verb, customID, Value(verb))]
    /\ UNCHANGED <<server, config, states, demo, paused, draft, edits, customID, timer>>
    /\ render

\* A form of CustomSaved that releases the controls on success only.
CustomSavedLocked(c) ==
    LET r == net[c] IN
    /\ r.stage \in {"answered", "failed"}
    /\ net' = [net EXCEPT ![c] = Idle]
    /\ busy' = (busy /\ r.stage = "failed")
    /\ IF r.stage = "answered"
       THEN config' = r.body /\ ShowEditor(syncCustomEditor(r.body, edits, customID))
       ELSE UNCHANGED <<config, edits, customID>>
    /\ UNCHANGED <<server, states, demo, paused, draft, timer>>
    /\ render

\* The answer removes the unsaved text of the command that is selected by now.
CustomSaved(c) ==
    LET r == net[c]
        left == IF r.stage = "answered" /\ r.op # "stop" THEN edits \ {customID} ELSE edits IN
    /\ r.stage \in {"answered", "failed"}
    /\ net' = [net EXCEPT ![c] = Idle]
    /\ busy' = FALSE
    /\ IF r.stage = "answered"
       THEN /\ config' = r.body
            /\ states' = NoStates
            /\ ShowEditor(syncCustomEditor(r.body, left, customID))
       ELSE UNCHANGED <<config, states, edits, customID>>
    /\ UNCHANGED <<server, demo, paused, draft, timer>>
    /\ render

\* Two buttons open the settings: the demonstration disables one of them, the
\* other is there whenever the page was drawn without machines.
openSettings ==
    /\ PageActive /\ (~demo \/ rendered.empty)
    /\ draft' = config
    /\ UNCHANGED <<server, config, states, demo, paused, busy, edits, customID, timer, net, rendered>>

CloseSettings ==
    /\ draft # None
    /\ draft' = None
    /\ UNCHANGED <<server, config, states, demo, paused, busy, edits, customID, timer, net, rendered>>

\* The whole draft is written, with the machines as the user left them.
SubmitSettings ==
    /\ draft # None /\ ~InFlight("settings") /\ MaySave
    /\ busy' = TRUE
    /\ \E m \in BOOLEAN :
          net' = [net EXCEPT !["settings"] = Sent("settings", None, [draft EXCEPT !.machines = m])]
    /\ UNCHANGED <<server, config, states, demo, paused, draft, edits, customID, timer, rendered>>

SettingsSaved ==
    LET r == net["settings"] IN
    /\ r.stage \in {"answered", "failed"}
    /\ net' = [net EXCEPT !["settings"] = Idle]
    /\ busy' = FALSE
    /\ IF r.stage = "answered"
       THEN /\ config' = r.body
            /\ ShowEditor(resetCustomEditor(r.body))
            /\ states' = NoStates /\ draft' = None
       ELSE UNCHANGED <<config, edits, customID, states, draft>>
    /\ UNCHANGED <<server, demo, paused, timer>>
    /\ render

Verbs == {"run", "stop", "delete"}
Next ==
    \/ Serve \/ AnotherWindow \/ \E c \in Callers : Fail(c)
    \/ StartupEnds \/ OpenDialog \/ DialogLoaded
    \/ EnterDemo \/ ExitDemo \/ DemoExited \/ TogglePause \/ Look
    \/ PollStarts \/ PollAnswered
    \/ TypeCommand \/ AddCommand \/ SelectCommand
    \/ \E v \in Verbs : SaveLocally(v) \/ \E c \in Customs : SaveCustom(c, v)
    \/ \E c \in Customs : CustomSaved(c)
    \/ openSettings \/ CloseSettings \/ SubmitSettings \/ SettingsSaved

Spec == Init /\ [][Next]_vars

-----------------------------------------------------------------------------
\* Every variable has a value of its kind.
TypeOK ==
    /\ server \in Config /\ config \in Config /\ states \in States
    /\ demo \in BOOLEAN /\ paused \in BOOLEAN /\ busy \in BOOLEAN
    /\ draft \in Config \cup {None}
    /\ edits \subseteq CommandIDs /\ customID \in CommandIDs \cup {None}
    /\ timer \in {"off", "due", "waiting"}
    /\ DOMAIN net = Callers
    /\ rendered \in [empty: BOOLEAN, locked: BOOLEAN]

\* The editor always shows a command of the list next to it, whichever of the
\* answers that replace the configuration came last; before the first list
\* there is none (syncCustomEditor after every assignment of config).
EditorShowsAChoice == customID # None => customID \in customChoices(config, edits)

\* While the page holds a write back (busy) there is a write whose end
\* releases it: no order of two overlapping saves leaves the controls locked.
BusyHasAWrite == busy => \E c \in Customs \cup {"settings"} : InFlight(c)

\* The demonstration does not reach the service: no save of a command begins in
\* it, and what the settings send is never its made-up configuration, although
\* they can be opened in it, or be open when it begins.
DemoIsLocal ==
    /\ (\E c \in Customs : net[c].stage = "idle" /\ net'[c].stage = "sent") => ~demo
    /\ net'["settings"].stage = "sent" => net'["settings"].body.source # "demo"

\* A page that is not paused, not in the demonstration and not saving shows
\* the samples of the stored configuration again and again, whatever answers
\* were lost or late: a stale table does not stay while Polling lasts.
Polling == ~demo /\ ~paused /\ ~busy
Fresh == states = Sampled(server)

=============================================================================
