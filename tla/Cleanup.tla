------------------------------- MODULE Cleanup -------------------------------
(***************************************************************************)
(* The cleanup of idle processes (internal/watch/cleanup.go and the script *)
(* it runs on the machine, cleanup_remote.py), for one machine whose NPU    *)
(* lists one PID.  A check selects the machine under the lock, inspects the *)
(* process over SSH without it, and decides under the lock again; the       *)
(* request to terminate is made with the lock held.  Processes come and go  *)
(* behind the PID.  Time passes in steps of one check interval; only ages   *)
(* matter, so a record keeps ages and Minute advances them.                 *)
(***************************************************************************)
EXTENDS Naturals, Sequences, FreshNames

CONSTANTS
    Procs,      \* processes, by boot, PID and start time
    Names,      \* the physical resource IDs the settings give the machine, in turn
    Minimum,    \* intervals without progress before a process may be cleaned up
    MaxGap,     \* longest gap between two observations that belong together
    MaxMarks,   \* bound: how often the logs or the CPU time of a process change
    None

VARIABLES
    enabled, waiting, holder, named,  \* policy, the waiting experiment, the machine
    audits, check, due,                     \* cleanup state in memory
    disk,                                   \* .cleanup/residue-*.json
    orders, requests,   \* requests on their way; how many were made, observed only
    proc, mark, residue, quiet, started,    \* the process, its progress, whether it looks like a residue
    receipts, hand, signals         \* the script on the machine; signals sent so far

scope == <<enabled, waiting, holder, named>>
world == <<proc, mark, residue, quiet, started>>
remote == <<receipts, hand, signals>>
vars == <<scope, audits, check, due, disk, orders, requests, world, remote>>

key == Names[named]
Keys == {Names[i] : i \in DOMAIN Names}
Ids == Keys \X Procs
NoAudit == [phase |-> None, age |-> 0, gap |-> 0, base |-> 0, intent |-> FALSE]
Phases == {"unknown", "observing", "confirmed", "uncertain", "verified",
           "signal_intent", "terminated"}

CleanupAssumption ==
    /\ Minimum \in Nat \ {0} /\ MaxGap \in Nat \ {0} /\ MaxMarks \in Nat
    /\ Len(Names) \in Nat \ {0} /\ DOMAIN Names = 1 .. Len(Names)
    /\ None \notin Procs /\ None \notin Ids /\ None \notin Phases

\* Ages and the baseline matter only while a process is observed.
Final(a) == IF a.phase = "observing" THEN a ELSE [a EXCEPT !.age = 0, !.gap = 0, !.base = 0]
Cap(n) == IF n > Minimum + MaxGap THEN Minimum + MaxGap ELSE n

\* What is read back after a restart: an intent is never forgotten, an
\* observation starts over.
loadForgetting(id) ==
    CASE disk[id] = "none" -> NoAudit
      [] disk[id] = "verified" -> [NoAudit EXCEPT !.phase = "verified", !.intent = TRUE]
      [] OTHER -> [NoAudit EXCEPT !.phase = "unknown"]
loadCleanup(id) ==
    CASE disk[id] = "none" -> NoAudit
      [] disk[id] = "seen" -> [NoAudit EXCEPT !.phase = "unknown"]
      [] disk[id] = "intent" -> [NoAudit EXCEPT !.phase = "uncertain", !.intent = TRUE]
      [] disk[id] = "verified" -> [NoAudit EXCEPT !.phase = "verified", !.intent = TRUE]

Init ==
    /\ enabled = FALSE /\ waiting = TRUE /\ holder = FALSE /\ named = 1
    /\ audits = [id \in Ids |-> NoAudit] /\ check = None /\ due = TRUE
    /\ disk = [id \in Ids |-> "none"]
    /\ orders = {} /\ requests = [id \in Ids |-> 0]
    /\ proc \in OneOf(Procs) /\ mark = 0 /\ residue = FALSE /\ quiet = 0 /\ started = {proc}
    /\ receipts = {} /\ hand = None /\ signals = [p \in Procs |-> 0]

-----------------------------------------------------------------------------
(* The machine, the operators, and time.                                    *)

Busy == check # None
Locked == check # None /\ check.stage = "terminate"
Inspected == check # None /\ check.stage = "decide"

\* Logs grow or CPU time is used.
Progress ==
    /\ proc # None /\ mark < MaxMarks /\ mark' = mark + 1 /\ quiet' = 0
    /\ UNCHANGED <<scope, audits, check, due, disk, orders, requests, proc, residue, started, remote>>

\* A failure, an orphaned worker; a debugger, a second process, utilisation.
Looks ==
    /\ proc # None /\ residue' = ~residue
    /\ UNCHANGED <<scope, audits, check, due, disk, orders, requests, proc, mark, quiet, started, remote>>

Exits ==
    /\ proc # None /\ proc' = None /\ residue' = FALSE /\ mark' = 0 /\ quiet' = 0
    /\ UNCHANGED <<scope, audits, check, due, disk, orders, requests, started, remote>>

\* Another process gets the PID.
Starts ==
    /\ proc = None
    /\ proc' \in OneOf(Procs \ started) /\ started' = started \cup {proc'}
    /\ UNCHANGED <<scope, audits, check, due, disk, orders, requests, mark, residue, quiet, remote>>

\* An inspection is decided on, and a request answered, within an interval.
Minute ==
    /\ ~Locked /\ ~Inspected /\ due' = TRUE /\ quiet' = Cap(quiet + 1)
    /\ audits' = [id \in Ids |->
           IF audits[id].phase = "observing"
           THEN [audits[id] EXCEPT !.age = Cap(@ + 1), !.gap = Cap(@ + 1)] ELSE audits[id]]
    /\ UNCHANGED <<scope, check, disk, orders, requests, proc, mark, residue, started, remote>>

SetCleanupPolicy ==
    /\ ~Locked /\ enabled' = ~enabled
    /\ UNCHANGED <<waiting, holder, named, audits, check, due, disk, orders, requests, world, remote>>

\* The experiment is paused, cancelled or resumed.
Waiter ==
    /\ ~Locked /\ waiting' = ~waiting
    /\ UNCHANGED <<enabled, holder, named, audits, check, due, disk, orders, requests, world, remote>>

\* A form of Allocate that does not know of the check.
AllocateAlways ==
    /\ ~Locked /\ ~holder /\ holder' = TRUE
    /\ UNCHANGED <<enabled, waiting, named, audits, check, due, disk, orders, requests, world, remote>>

\* readyForReservationLocked leaves out the machine that is being checked.
Allocate ==
    /\ ~Locked /\ ~holder /\ ~(Busy /\ check.key = key) /\ holder' = TRUE
    /\ UNCHANGED <<enabled, waiting, named, audits, check, due, disk, orders, requests, world, remote>>
Release ==
    /\ ~Locked /\ holder /\ holder' = FALSE
    /\ UNCHANGED <<enabled, waiting, named, audits, check, due, disk, orders, requests, world, remote>>

\* The settings name another physical resource for the machine.  That they did
\* during a check is noted in "moved", which no step reads.
Configure ==
    /\ named < Len(Names) /\ named' = named + 1
    /\ check' = IF Busy /\ ~Locked THEN [check EXCEPT !.moved = TRUE] ELSE check
    /\ UNCHANGED <<enabled, waiting, holder, audits, due, disk, orders, requests, world, remote>>

-----------------------------------------------------------------------------
(* CheckCleanup.                                                            *)

\* A form of Unverified that gives up when the policy is turned off.
UnverifiedWhileOn ==
    {id \in Ids : id[1] = key /\ enabled /\ audits[id].intent /\ audits[id].phase # "verified"}
Unverified == {id \in Ids : id[1] = key /\ audits[id].intent /\ audits[id].phase # "verified"}

\* A recorded intent is followed up whatever the policy says; without one the
\* experiment must be waiting, other machines must not be idle enough for it, as
\* they are or are not by the samples, and this one must be ready.
Look(id) == check' = [stage |-> "inspect", key |-> key, of |-> id, moved |-> FALSE]
Follow(id) ==
    /\ ~Busy /\ due /\ due' = FALSE
    /\ id \in Unverified /\ Look(id)
    /\ UNCHANGED <<scope, audits, disk, orders, requests, world, remote>>
Select ==
    /\ ~Busy /\ due /\ due' = FALSE
    /\ Unverified = {} /\ enabled /\ waiting /\ ~holder /\ Look(None)
    /\ UNCHANGED <<scope, audits, disk, orders, requests, world, remote>>

\* Read only, on the machine.
Inspect ==
    /\ Busy /\ check.stage = "inspect"
    /\ check' = [stage |-> "decide", key |-> check.key, of |-> check.of, moved |-> check.moved,
                 proc |-> proc, mark |-> mark, residue |-> residue]
    /\ UNCHANGED <<scope, audits, due, disk, orders, requests, world, remote>>

\* Only an audit that is followed up is marked; the record of a failed first
\* look has an identity of its own, which no process has, and is left out.
InspectFails ==
    /\ Busy /\ check.stage = "inspect"
    /\ check' = None
    /\ audits' = IF check.of = None THEN audits
                 ELSE [audits EXCEPT ![check.of].phase = "uncertain"]
    /\ UNCHANGED <<scope, due, disk, orders, requests, world, remote>>

\* The observation of the audit goes on: the same evidence as at its start.
Continues(a) == a.phase = "observing" /\ a.gap <= MaxGap /\ a.base = check.mark

\* The audit after this look, without its final phase.
Looked(a, id) ==
    LET gone == check.proc # id[2] IN
    CASE a.intent -> [a EXCEPT !.phase = IF gone THEN "verified" ELSE "uncertain"]
      [] ~a.intent /\ check.residue /\ Continues(a) -> [a EXCEPT !.gap = 0]
      [] ~a.intent /\ ~(check.residue /\ Continues(a)) ->
            [a EXCEPT !.gap = 0, !.age = 0,
                      !.base = IF check.residue THEN check.mark ELSE 0,
                      !.phase = IF check.residue THEN "observing" ELSE "unknown"]

\* What changed while the process was inspected keeps it.
StillWanted == waiting /\ enabled /\ key = check.key

Decided(a, id, enough) ==
    LET b == Looked(a, id) IN
    CASE b.intent -> b
      [] ~b.intent /\ (~StillWanted \/ (b.phase = "observing" /\ b.age >= Minimum /\ enough)) ->
            Final([b EXCEPT !.phase = "unknown"])
      [] ~b.intent /\ StillWanted /\ b.phase = "observing" /\ b.age >= Minimum /\ ~enough ->
            [b EXCEPT !.phase = "confirmed"]
      [] OTHER -> b

OnDisk(a) == CASE ~a.intent -> "seen" [] a.intent /\ a.phase = "verified" -> "verified"
               [] OTHER -> "intent"

\* A write that is reported as failed may be on the disk.
Saves(id, a) == disk' = [disk EXCEPT ![id] = OnDisk(a)]
SaveFails(id, a) == UNCHANGED disk \/ Saves(id, a)
Subject == IF check.of # None THEN check.of ELSE <<check.key, check.proc>>

\* The intent is on the disk, over the confirmed audit, before the request is
\* made.
Intend(id, b) ==
    LET w == [Final(b) EXCEPT !.phase = "signal_intent", !.intent = TRUE] IN
    \/ /\ Saves(id, w)
       /\ audits' = [audits EXCEPT ![id] = w]
       /\ check' = [stage |-> "terminate", id |-> id, done |-> FALSE, moved |-> check.moved]
       /\ orders' = orders \cup {[id |-> id, base |-> b.base]}
       /\ requests' = [requests EXCEPT ![id] = @ + 1]
    \/ /\ Saves(id, b) \/ Saves(id, w)
       /\ audits' = [audits EXCEPT ![id] = Final(b)]
       /\ check' = None /\ UNCHANGED <<orders, requests>>

Decide ==
    /\ Busy /\ check.stage = "decide" /\ Subject \in Ids
    /\ \E enough \in BOOLEAN : LET id == Subject b == Decided(audits[id], id, enough) IN
       \/ b.phase # "confirmed" /\ Saves(id, b) /\ audits' = [audits EXCEPT ![id] = b]
          /\ check' = None /\ UNCHANGED <<orders, requests>>
       \/ SaveFails(id, b) /\ check' = None /\ UNCHANGED <<audits, orders, requests>>
       \/ b.phase = "confirmed" /\ Intend(id, b)
    /\ UNCHANGED <<scope, due, world, remote>>

\* The process was gone, and no audit waits for that.
DecideGone ==
    /\ Busy /\ check.stage = "decide" /\ check.of = None /\ check.proc = None
    /\ check' = None
    /\ UNCHANGED <<scope, audits, due, disk, orders, requests, world, remote>>

\* The answer, or none in time.
Terminated ==
    /\ Locked /\ check.done
    /\ \E outcome \in {"terminated", "uncertain", "signal_intent"} :
          audits' = [audits EXCEPT ![check.id].phase = outcome]
    /\ check' = None
    /\ UNCHANGED <<scope, due, disk, orders, requests, world, remote>>
NoAnswer ==
    /\ Locked
    /\ audits' = [audits EXCEPT ![check.id].phase = "uncertain"]
    /\ check' = None
    /\ UNCHANGED <<scope, due, disk, orders, requests, world, remote>>

-----------------------------------------------------------------------------
(* The script on the machine.                                               *)

Answered == IF Locked THEN check' = [check EXCEPT !.done = TRUE] ELSE UNCHANGED check

\* A form of Viable that trusts the inspection.
ViableThen(id, base) == proc = id[2] /\ residue
\* The process under the PID is the one that was inspected, and has stayed as it was.
Viable(id, base) == proc = id[2] /\ residue /\ mark = base

\* The script takes hold of the process, compares, and leaves its receipt.
Prepare(o) ==
    /\ o \in orders /\ hand = None
    /\ orders' = orders \ {o}
    /\ IF o.id \notin receipts /\ Viable(o.id, o.base)
       THEN hand' = o.id /\ receipts' = receipts \cup {o.id} /\ UNCHANGED check
       ELSE UNCHANGED <<hand, receipts>> /\ Answered
    /\ UNCHANGED <<scope, audits, due, disk, requests, world, signals>>

\* The signal goes to the process that was held, or to none.
Signal ==
    /\ hand # None /\ hand' = None
    /\ signals' = IF proc = hand[2] THEN [signals EXCEPT ![hand[2]] = @ + 1] ELSE signals
    /\ Answered
    /\ UNCHANGED <<scope, audits, due, disk, orders, requests, world, receipts>>

\* The connection breaks before the script has run, or while it runs.
Breaks ==
    /\ \/ \E o \in orders : orders' = orders \ {o} /\ UNCHANGED hand
       \/ hand # None /\ hand' = None /\ UNCHANGED orders
    /\ UNCHANGED <<scope, audits, check, due, disk, requests, world, receipts, signals>>

\* The program ends and is started again; a script that runs may run on.  The
\* policy is read back, also one whose write was reported as failed.
Restart ==
    /\ check' = None /\ due' = TRUE /\ enabled' \in BOOLEAN
    /\ audits' = [id \in Ids |-> loadCleanup(id)]
    /\ UNCHANGED <<waiting, holder, named, disk, orders, requests, world, remote>>

Checks == Select \/ (\E id \in Ids : Follow(id)) \/ Inspect \/ Decide \/ DecideGone \/ Terminated \/ NoAnswer
World == Progress \/ Looks \/ Exits \/ Starts \/ Minute
Operators == SetCleanupPolicy \/ Waiter \/ Allocate \/ Release \/ Configure
Script == (\E o \in orders : Prepare(o)) \/ Signal \/ Breaks
Next == Checks \/ InspectFails \/ World \/ Operators \/ Script \/ Restart

Spec == Init /\ [][Next]_vars

-----------------------------------------------------------------------------
Ages == 0 .. Minimum + MaxGap
Marks == 0 .. MaxMarks
Audit == [phase: Phases \cup {None}, age: Ages, gap: Ages, base: Marks, intent: BOOLEAN]
Inspecting == [stage: {"inspect"}, key: Keys, of: Ids \cup {None}, moved: BOOLEAN]
Deciding == [stage: {"decide"}, key: Keys, of: Ids \cup {None}, moved: BOOLEAN,
             proc: Procs \cup {None}, mark: Marks, residue: BOOLEAN]
Requesting == [stage: {"terminate"}, id: Ids, done: BOOLEAN, moved: BOOLEAN]

\* Every variable has a value of its kind.
TypeOK ==
    /\ {enabled, waiting, holder, due, residue} \subseteq BOOLEAN
    /\ named \in DOMAIN Names /\ proc \in Procs \cup {None} /\ mark \in Marks
    /\ quiet \in Ages /\ started \subseteq Procs /\ (proc # None => proc \in started)
    /\ audits \in [Ids -> Audit] /\ disk \in [Ids -> {"none", "seen", "intent", "verified"}]
    /\ check \in {None} \cup Inspecting \cup Deciding \cup Requesting
    /\ receipts \subseteq Ids /\ hand \in Ids \cup {None}
    /\ orders \subseteq [id: Ids, base: Marks]
    /\ requests \in [Ids -> Nat] /\ signals \in [Procs -> Nat]

\* "The first and only signal request": at most one request to terminate a
\* process is ever made under one resource ID, through lost answers, failed
\* writes and restarts (cleanup.go:568, loadCleanup).
OnlyRequest == \A id \in Ids : requests[id] <= 1

\* A process that was signalled has a record of the intent in the service's
\* files, whatever failed or stopped since.
SignalsAreOnRecord ==
    \A p \in Procs : signals[p] > 0 =>
        \E k \in Keys : disk[<<k, p>>] \in {"intent", "verified"}

\* While the request to terminate is out, no task has been given the machine,
\* although the lock was free while the process was inspected (cleanup.go:446),
\* unless the settings moved the machine to another resource and back meanwhile.
HeldMachinesSpared == Locked /\ ~check.moved => ~holder

\* A process is taken hold of, to be signalled, only after it has made no
\* progress for the whole minimum, also in the gaps between observations.
HeldWhenQuiet == receipts' # receipts => quiet >= Minimum
HeldAfterQuiet == [][HeldWhenQuiet]_vars

\* A process that was to be signalled and is gone is found to be gone, also
\* when the policy is turned off, the waiter is cancelled or the program restarts.
ToVerify(id) == audits[id].intent /\ proc # id[2]
Verified(id) == audits[id].phase = "verified"

=============================================================================
