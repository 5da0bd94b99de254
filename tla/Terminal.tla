------------------------------ MODULE Terminal ------------------------------
(***************************************************************************)
(* The SSH terminal: the dialog (src/web/ssh-terminal.js) and the sessions  *)
(* of the service (internal/watch/terminal.go), over WebSockets that keep    *)
(* their order in each direction.  The dialog draws a generation whenever   *)
(* it disconnects; the work of a connection belongs to the generation it    *)
(* was started under.  A generation is written as its age: the current one  *)
(* is 0, and a new one makes those that still have work older.  Output is   *)
(* sent in chunks, and a chunk is sent when the one before has been         *)
(* acknowledged.                                                            *)
(***************************************************************************)
EXTENDS Naturals, FiniteSets, Sequences

CONSTANTS
    Machines,   \* machines that can be chosen
    MaxOld,     \* bound: earlier generations that still have work
    Slots,      \* sessions the service allows, of all windows (four in the code)
    Sizes,      \* sizes of a chunk
    Buffer,     \* messages of a socket that may wait to be sent
    Typed,      \* bound: messages that wait to be sent when the reader types
    None

TerminalAssumption ==
    /\ Slots \in Nat /\ MaxOld \in Nat /\ Sizes \subseteq Nat \ {0} /\ Buffer \in Nat /\ Typed \in Nat
    /\ None \notin Machines

VARIABLES
    open, machine,              \* the dialog, and the machine it has selected
    terminal, socket,           \* the terminal on show and its socket, by generation
    listing,    \* open() waits for the machines: [gen, machine]
    checking,   \* openConnection waits for /healthz: generations
    conns,      \* WebSockets that are not closed at both ends
    shown,      \* whose output the terminal shows; observed only
    refused     \* sessions that ended because of an acknowledgment; observed only

dialog == <<open, machine, terminal, socket>>
vars == <<dialog, listing, checking, conns, shown, refused>>

generation == 0
Gens == 0 .. MaxOld
InUse == checking \cup {l.gen : l \in listing} \cup {c.gen : c \in conns}
Ack(n) == [type |-> "ack", bytes |-> n]
Input == [type |-> "input", to |-> machine]
Replace(c, d) == conns' = (conns \ {c}) \cup {d}
Mine(c) == c.gen = generation

Init ==
    /\ open = FALSE /\ machine = None
    /\ terminal = FALSE /\ socket = None /\ listing = {} /\ checking = {}
    /\ conns = {} /\ shown = {} /\ refused = 0

-----------------------------------------------------------------------------
(* The dialog.                                                              *)

\* The socket is closed and the generation is over.
Closing(cs) == {[c EXCEPT !.ws = IF socket = c.gen THEN "closing" ELSE @] : c \in cs}
Older(g) == 1 + Cardinality({h \in InUse : h < g})
Aged(work) == {[w EXCEPT !.gen = Older(@)] : w \in work}
\* disconnect().  "lists" still wait for the machines; the handler goes on with
\* "asked", a list of machines, or "started", a connection, of the new generation.
disconnect(lists, asked, started) ==
    /\ Cardinality(InUse) <= MaxOld
    /\ conns' = Aged(Closing(conns)) /\ listing' = Aged(lists) \cup asked
    /\ checking' = {Older(g) : g \in checking} \cup started
    /\ socket' = None /\ terminal' = (started # {}) /\ shown' = {}

openConnection(m, lists) ==
    machine' = m /\ disconnect(lists, {}, IF m # None /\ open THEN {generation} ELSE {})

\* openSSH(m), with or without a machine.
Open(m) ==
    /\ ~open /\ open' = TRUE /\ disconnect(listing, {[gen |-> generation, machine |-> m]}, {})
    /\ UNCHANGED <<machine, refused>>
Listed(l) ==
    /\ l \in listing
    /\ IF l.gen = generation /\ open /\ l.machine # None
       THEN openConnection(l.machine, listing \ {l}) /\ UNCHANGED open
       ELSE /\ listing' = listing \ {l}
            /\ machine' = IF l.gen = generation /\ open THEN None ELSE machine
            /\ UNCHANGED <<open, terminal, socket, checking, conns, shown>>
    /\ UNCHANGED refused
NotListed(l) ==
    /\ l \in listing /\ listing' = listing \ {l}
    /\ UNCHANGED <<dialog, checking, conns, shown, refused>>

\* A form of Select that leaves the connection as it is.
SelectOnly(m) ==
    /\ open /\ m # machine /\ machine' = m
    /\ UNCHANGED <<open, terminal, socket, listing, checking, conns, shown, refused>>
\* The choice of a machine, and the button that connects again.
Select(m) ==
    /\ open /\ (m # machine \/ socket = None)
    /\ openConnection(m, listing) /\ UNCHANGED <<open, refused>>

\* The service is the right one: a socket is opened.
Checked(g) ==
    /\ g \in checking /\ checking' = checking \ {g}
    /\ IF g = generation /\ open
       THEN /\ socket' = g
            /\ conns' = conns \cup {[gen |-> g, ws |-> "connecting", srv |-> "none", machine |-> None,
                                     in |-> << >>, out |-> << >>, drawn |-> << >>, awaits |-> 0, ack |-> 0]}
       ELSE UNCHANGED <<socket, conns>>
    /\ UNCHANGED <<open, machine, terminal, listing, shown, refused>>
NotChecked(g) ==
    /\ g \in checking /\ checking' = checking \ {g}
    /\ UNCHANGED <<dialog, listing, conns, shown, refused>>

\* onopen: the first frame names the machine that is selected then.
SocketOpens(c) ==
    /\ c \in conns /\ c.ws = "connecting" /\ c.srv = "accepted"
    /\ Replace(c, IF Mine(c) THEN [c EXCEPT !.ws = "open", !.machine = machine]
                  ELSE [c EXCEPT !.ws = "closing"])
    /\ UNCHANGED <<dialog, listing, checking, shown, refused>>

\* onmessage: output is written to the terminal, which calls back when it is drawn.
Output(c) ==
    /\ c \in conns /\ c.out # << >>
    /\ Replace(c, [c EXCEPT !.out = Tail(@),
                            !.drawn = IF Mine(c) /\ terminal THEN Append(@, Head(c.out)) ELSE @])
    /\ shown' = IF Mine(c) /\ terminal THEN shown \cup {c.gen} ELSE shown
    /\ UNCHANGED <<dialog, listing, checking, refused>>

\* A form of Drawn that acknowledges on whatever socket there is.
DrawnAnywhere(c) ==
    /\ c \in conns /\ c.drawn # << >>
    /\ LET d == [c EXCEPT !.drawn = Tail(@)] IN
       conns' = {IF e.gen = socket /\ e.ws = "open" THEN [e EXCEPT !.in = Append(@, Ack(Head(c.drawn)))] ELSE e :
                 e \in (conns \ {c}) \cup {d}}
    /\ UNCHANGED <<dialog, listing, checking, shown, refused>>
\* What does not fit into the socket is dropped, with a message to the reader.
Drawn(c) ==
    /\ c \in conns /\ c.drawn # << >>
    /\ LET d == [c EXCEPT !.drawn = Tail(@)] IN
       conns' = (conns \ {c}) \cup
           {IF Mine(c) /\ c.ws = "open" /\ Len(c.in) < Buffer
            THEN [d EXCEPT !.in = Append(@, Ack(Head(c.drawn)))] ELSE d}
    /\ UNCHANGED <<dialog, listing, checking, shown, refused>>

Type ==
    /\ terminal /\ \E c \in conns : c.gen = socket /\ c.ws = "open" /\ Len(c.in) < Typed
                /\ Replace(c, [c EXCEPT !.in = Append(@, Input)])
    /\ UNCHANGED <<dialog, listing, checking, shown, refused>>

\* onclose, onerror.
Closed(c) ==
    /\ c \in conns /\ c.srv = "over" /\ c.ws # "closed"
    /\ Replace(c, [c EXCEPT !.ws = "closed"])
    /\ socket' = IF Mine(c) THEN None ELSE socket
    /\ UNCHANGED <<open, machine, terminal, listing, checking, shown, refused>>

\* The button, and the dialog's close event.
Disconnect ==
    /\ open /\ disconnect(listing, {}, {}) /\ UNCHANGED <<open, machine, refused>>
Close ==
    /\ open /\ open' = FALSE /\ disconnect(listing, {}, {}) /\ UNCHANGED <<machine, refused>>

-----------------------------------------------------------------------------
(* The service.                                                             *)

Sessions == {c \in conns : c.srv \in {"accepted", "shell"}}

\* terminalAPI: a slot or a refusal; then the first frame, and a shell.
Accept(c) ==
    /\ c \in conns /\ c.srv = "none"
    /\ Replace(c, [c EXCEPT !.srv = IF Cardinality(Sessions) < Slots THEN "accepted" ELSE "over"])
    /\ UNCHANGED <<dialog, listing, checking, shown, refused>>
Shell(c) ==
    /\ c \in conns /\ c.srv = "accepted" /\ c.machine # None
    /\ Replace(c, [c EXCEPT !.srv = "shell"])
    /\ UNCHANGED <<dialog, listing, checking, shown, refused>>

\* terminalOutput.Write: one chunk, and then its acknowledgment.
Chunk(c) ==
    /\ c \in conns /\ c.srv = "shell" /\ c.awaits = 0
    /\ \E n \in Sizes : Replace(c, [c EXCEPT !.out = Append(@, n), !.awaits = n])
    /\ UNCHANGED <<dialog, listing, checking, shown, refused>>
Acknowledged(c) ==
    /\ c \in conns /\ c.srv = "shell" /\ c.awaits # 0 /\ c.ack # 0
    /\ Replace(c, IF c.ack = c.awaits THEN [c EXCEPT !.awaits = 0, !.ack = 0]
                  ELSE [c EXCEPT !.srv = "over"])
    /\ refused' = IF c.ack = c.awaits THEN refused ELSE 1
    /\ UNCHANGED <<dialog, listing, checking, shown>>

\* The reader of the socket; there is room for one acknowledgment.
Receive(c) ==
    /\ c \in conns /\ c.srv = "shell" /\ c.in # << >>
    /\ LET message == Head(c.in) rest == [c EXCEPT !.in = Tail(@)] IN
       IF message.type = "input" THEN Replace(c, rest) /\ UNCHANGED refused
       ELSE IF c.ack = 0 THEN Replace(c, [rest EXCEPT !.ack = message.bytes]) /\ UNCHANGED refused
       ELSE Replace(c, [rest EXCEPT !.srv = "over"]) /\ refused' = 1
    /\ UNCHANGED <<dialog, listing, checking, shown>>

\* A form of Over that does not notice that the page has closed the socket.
OverByTimeout(c) ==
    /\ c \in conns /\ c.srv = "shell" /\ c.awaits # 0
    /\ Replace(c, [c EXCEPT !.srv = "over"])
    /\ UNCHANGED <<dialog, listing, checking, shown, refused>>
\* The page closed the socket, or said nothing in time.
Over(c) ==
    /\ c \in conns /\ c.srv # "over" /\ c.ws \in {"closing", "closed"}
    /\ Replace(c, [c EXCEPT !.srv = "over"])
    /\ UNCHANGED <<dialog, listing, checking, shown, refused>>
\* The shell exits, SSH fails, a chunk is not acknowledged in time, nothing is typed.
Ends(c) ==
    /\ c \in conns /\ c.srv \in {"accepted", "shell"}
    /\ Replace(c, [c EXCEPT !.srv = "over"])
    /\ UNCHANGED <<dialog, listing, checking, shown, refused>>
\* Closed at both ends, and its last output was drawn.
Gone(c) ==
    /\ c \in conns /\ c.srv = "over" /\ c.ws = "closed" /\ c.drawn = << >> /\ c.out = << >>
    /\ conns' = conns \ {c}
    /\ UNCHANGED <<dialog, listing, checking, shown, refused>>

Service(c) == Accept(c) \/ Shell(c) \/ Chunk(c) \/ Acknowledged(c) \/ Receive(c) \/ Over(c) \/ Gone(c)
Page(c) == SocketOpens(c) \/ Output(c) \/ Drawn(c) \/ Closed(c)
Next ==
    \/ \E m \in Machines \cup {None} : Open(m)
    \/ \E m \in Machines : Select(m)
    \/ \E l \in listing : Listed(l) \/ NotListed(l)
    \/ \E g \in checking : Checked(g) \/ NotChecked(g)
    \/ \E c \in conns : Service(c) \/ Page(c) \/ Ends(c)
    \/ Type \/ Disconnect \/ Close

Spec == Init /\ [][Next]_vars

-----------------------------------------------------------------------------
\* Every variable has a value of its kind.
TypeOK ==
    /\ open \in BOOLEAN /\ machine \in Machines \cup {None}
    /\ terminal \in BOOLEAN /\ socket \in Gens \cup {None} /\ checking \subseteq Gens
    /\ shown \subseteq Gens /\ Cardinality(Sessions) <= Slots

\* There is one socket that is not being closed at most, and it is the
\* dialog's own, however connecting, choosing and closing interleave.
Live == {c \in conns : c.ws \in {"connecting", "open"} /\ c.srv # "over"}
OneSocket == \A c \in Live : Mine(c) /\ socket = c.gen

\* What was typed is sent to the machine that was selected when it was typed.
InputReachesSelected ==
    \A c \in conns : \A i \in DOMAIN c.in : c.in[i].type = "input" => c.in[i].to = c.machine

\* The terminal shows the output of its own connection only.
ShowsItsOwn == shown \subseteq {generation}

\* No session ends because the page acknowledged what was not sent, or twice.
AcksMatch == refused = 0

\* The service's sessions end when the dialog stays closed.
NoSessions == Sessions = {}

=============================================================================
