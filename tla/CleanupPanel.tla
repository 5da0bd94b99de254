---------------------------- MODULE CleanupPanel ----------------------------
(***************************************************************************)
(* The panel of the cleanup (src/web/cleanup.js): a switch that writes the  *)
(* policy, the list of audits, and the audit that was chosen.  A request    *)
(* that is not answered within fifteen seconds is given up by the page, and *)
(* the service may still carry it out.                                      *)
(***************************************************************************)
EXTENDS Naturals, FiniteSets

CONSTANTS
    Audits,         \* audits the service keeps
    Sequences,      \* names for the calls of loadAudit
    MaxVersion,     \* bound: updates of an audit
    MaxClicks,      \* bound: clicks on the switch
    Slow,           \* whether a write may outlive the page's patience
    Lossy,          \* whether requests and answers may be lost
    None

Operations == {"refresh", "detail", "save", "confirm"}
Result == [policy: BOOLEAN, version: [Audits -> Nat]]
PanelAssumption ==
    /\ MaxVersion \in Nat /\ MaxClicks \in Nat /\ {Slow, Lossy} \subseteq BOOLEAN
    /\ None \notin Audits \cup Operations \cup Result

VARIABLES
    policy, version, writes,            \* the service; writes counts those carried out
    status, available, busy,            \* the page: what it read, and the one operation
    selected, audit, sequence, unfolded,
    reading, loads, post, late,         \* requests in flight; late are given up
    clicks, doubted     \* clicks on the switch, and whether a write was given up that the
                        \* service had not carried out; observed only

service == <<policy, version, writes>>
detail == <<selected, audit, sequence>>
state == <<status, available, busy>>
net == <<reading, loads, post, late>>
seen == <<clicks, doubted>>
vars == <<service, state, detail, unfolded, net, seen>>

Current == [policy |-> policy, version |-> version]

Init ==
    /\ policy \in BOOLEAN /\ version = [a \in Audits |-> 0] /\ writes = 0
    /\ status = None /\ available = FALSE /\ busy = None
    /\ selected = None /\ audit = None /\ sequence \in Sequences /\ unfolded = FALSE
    /\ reading = None /\ loads = {} /\ post = None /\ late = {}
    /\ clicks = 0 /\ doubted = FALSE

-----------------------------------------------------------------------------
(* The service.                                                             *)

\* SetCleanupPolicy and then CleanupStatus; a check adds to an audit.
Write ==
    /\ post # None /\ post.answer = None
    /\ policy' = post.enabled /\ writes' = writes + 1
    /\ post' = [post EXCEPT !.answer = [policy |-> post.enabled, version |-> version]]
    /\ UNCHANGED <<version, state, detail, unfolded, reading, loads, late, seen>>
LateWrite(w) ==
    /\ w \in late /\ late' = late \ {w}
    /\ policy' = w.enabled /\ writes' = writes + 1
    /\ UNCHANGED <<version, state, detail, unfolded, reading, loads, post, seen>>
Read ==
    /\ reading # None /\ reading.answer = None
    /\ reading' = [answer |-> Current]
    /\ UNCHANGED <<service, state, detail, unfolded, loads, post, late, seen>>
ReadAudit(l) ==
    /\ l \in loads /\ l.answer = None
    /\ loads' = (loads \ {l}) \cup {[l EXCEPT !.answer = [id |-> l.id, version |-> version[l.id]]]}
    /\ UNCHANGED <<service, state, detail, unfolded, reading, post, late, seen>>
CheckAdds ==
    /\ \E a \in Audits : version[a] < MaxVersion /\ version' = [version EXCEPT ![a] = @ + 1]
    /\ UNCHANGED <<policy, writes, state, detail, unfolded, net, seen>>

-----------------------------------------------------------------------------
(* The page.                                                                *)

loadAudit(a, by) ==
    /\ selected' = a /\ audit' = None
    /\ sequence' \in Sequences \ ({sequence} \cup {l.seq : l \in loads})
    /\ loads' = loads \cup {[id |-> a, seq |-> sequence', by |-> by, answer |-> None]}

acceptStatus(result) == status' = result /\ available' = TRUE

\* The button, and the timer every five seconds.
refresh ==
    /\ busy = None /\ busy' = "refresh" /\ reading' = [answer |-> None]
    /\ UNCHANGED <<service, status, available, detail, unfolded, loads, post, late, seen>>

Newer(result) == selected # None /\ (audit = None \/ audit.version # result.version[selected])

\* The audit that is shown is read again when it has changed.
Refreshed ==
    /\ busy = "refresh" /\ reading # None /\ reading.answer # None
    /\ acceptStatus(reading.answer) /\ reading' = None
    /\ IF unfolded /\ Newer(reading.answer)
       THEN loadAudit(selected, "refresh") /\ busy' = "detail"
       ELSE UNCHANGED <<detail, loads>> /\ busy' = None
    /\ UNCHANGED <<service, unfolded, post, late, seen>>
RefreshFails ==
    /\ Lossy /\ busy = "refresh" /\ reading # None
    /\ reading' = None /\ busy' = None /\ available' = FALSE
    /\ UNCHANGED <<service, status, detail, unfolded, loads, post, late, seen>>

\* Any audit can be clicked at any time.
ChooseAudit ==
    /\ status # None /\ unfolded /\ \E a \in Audits : loadAudit(a, "reader")
    /\ UNCHANGED <<service, state, unfolded, reading, post, late, seen>>

Ends(l) == /\ loads' = loads \ {l}
           /\ busy' = IF l.by = "refresh" THEN None ELSE busy

\* A form of ShowAudit without the check of the sequence.
ShowAnyAudit(l) == audit' = l.answer
ShowAudit(l) == audit' = IF l.seq = sequence THEN l.answer ELSE audit

AuditRead(l) ==
    /\ l \in loads /\ l.answer # None /\ Ends(l) /\ ShowAudit(l)
    /\ UNCHANGED <<service, status, available, selected, sequence, unfolded, reading, post, late, seen>>
AuditFails(l) ==
    /\ Lossy /\ l \in loads /\ Ends(l)
    /\ UNCHANGED <<service, status, available, detail, unfolded, reading, post, late, seen>>

changePolicy ==
    /\ busy = None /\ available
    /\ clicks < MaxClicks /\ clicks' = clicks + 1
    /\ busy' = "save" /\ post' = [click |-> clicks', enabled |-> ~status.policy, answer |-> None]
    /\ UNCHANGED <<service, status, available, detail, unfolded, reading, loads, late, doubted>>
Saved ==
    /\ busy = "save" /\ post # None /\ post.answer # None
    /\ acceptStatus(post.answer) /\ post' = None /\ busy' = None
    /\ UNCHANGED <<service, detail, unfolded, reading, loads, late, seen>>

GivenUp == \/ UNCHANGED <<late, doubted>>
           \/ post.answer = None /\ Slow /\ late' = late \cup {post} /\ doubted' = TRUE

\* The write may have been carried out: the state is read, once, and the
\* write is not repeated.
SaveFails ==
    /\ Lossy /\ busy = "save" /\ post # None /\ GivenUp
    /\ post' = None /\ available' = FALSE
    /\ busy' = "confirm" /\ reading' = [answer |-> None]
    /\ UNCHANGED <<service, status, detail, unfolded, loads, clicks>>
Confirmed ==
    /\ busy = "confirm" /\ reading # None /\ reading.answer # None
    /\ acceptStatus(reading.answer) /\ reading' = None /\ busy' = None
    /\ UNCHANGED <<service, detail, unfolded, loads, post, late, seen>>
Unconfirmed ==
    /\ Lossy /\ busy = "confirm" /\ reading # None
    /\ reading' = None /\ busy' = None
    /\ UNCHANGED <<service, status, available, detail, unfolded, loads, post, late, seen>>

Unfold ==
    /\ unfolded' = ~unfolded
    /\ UNCHANGED <<service, state, detail, net, seen>>

Next ==
    \/ Write \/ Read \/ CheckAdds \/ (\E w \in late : LateWrite(w))
    \/ refresh \/ Refreshed \/ RefreshFails \/ ChooseAudit \/ Unfold
    \/ changePolicy \/ Saved \/ SaveFails \/ Confirmed \/ Unconfirmed
    \/ \E l \in loads : ReadAudit(l) \/ AuditRead(l) \/ AuditFails(l)

Spec == Init /\ [][Next]_vars

-----------------------------------------------------------------------------
\* Every variable has a value of its kind.
TypeOK ==
    /\ policy \in BOOLEAN /\ available \in BOOLEAN /\ version \in [Audits -> 0 .. MaxVersion]
    /\ busy \in Operations \cup {None} /\ (available => status # None)
    /\ selected \in Audits \cup {None} /\ sequence \in Sequences
    /\ \A l \in loads : l.id \in Audits /\ l.seq \in Sequences

\* The policy is written at most as often as the reader clicked, through lost
\* answers and the page's own timeouts ("操作未自动重试", cleanup.js:131).
WritesAreClicks ==
    writes + (IF post # None /\ post.answer = None THEN 1 ELSE 0) <= clicks

\* The details are of the audit that is selected, whatever the order of the
\* answers (cleanup.js:102).
DetailIsSelected == audit # None => selected = audit.id

\* With one window and no write that outlives its request, a switch that can
\* be clicked shows the policy that holds, so that a click means what it says.
SwitchShowsPolicy == available /\ busy = None /\ ~doubted => status.policy = policy

-----------------------------------------------------------------------------
(* The inductive invariants behind these properties.                        *)

\* Requests and answers.
Load == [id: Audits, seq: Sequences, by: {"reader", "refresh"},
         answer: {None} \cup [id: Audits, version: Nat]]
Change == [click: Nat, enabled: BOOLEAN, answer: {None} \cup Result]
Types ==
    /\ TypeOK /\ writes \in Nat /\ clicks \in Nat
    /\ post \in {None} \cup Change /\ late \subseteq Change /\ IsFiniteSet(late)
    /\ status \in {None} \cup Result /\ loads \subseteq Load
    /\ reading \in {None} \cup [answer: {None} \cup Result]

\* Every click is carried out, or on its way, or given up and late, once.
Unwritten == IF post # None /\ post.answer = None THEN 1 ELSE 0
WritesCounted == writes + Cardinality(late) + Unwritten <= clicks

\* A load that is not overtaken is of the selected audit.
DetailFollows ==
    /\ DetailIsSelected
    /\ \A l \in loads : /\ l.seq = sequence => l.id = selected
                        /\ l.answer # None => l.answer.id = l.id

\* The operation that is under way owns its requests, so that no answer about
\* the policy is read while a write may still change it.
OneOperation ==
    /\ post # None => busy = "save"
    /\ reading # None => busy \in {"refresh", "confirm"}
    /\ \A l \in loads : l.by = "refresh" => busy = "detail"
    /\ \A l, m \in loads : l.by = "refresh" /\ m.by = "refresh" => l = m
AnswersHold ==
    ~doubted => /\ late = {}
                /\ reading # None /\ reading.answer # None => reading.answer.policy = policy
                /\ post # None /\ post.answer # None => post.answer.policy = policy
                /\ available /\ busy # "save" => status.policy = policy
=============================================================================
