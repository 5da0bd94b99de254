---------------------------- MODULE CleanupProofs ----------------------------
(***************************************************************************)
(* Proofs about the cleanup of idle processes, for any processes, resource *)
(* names and minimum, and any failures.                                    *)
(***************************************************************************)
EXTENDS Cleanup, TLAPS

LEMMA OneOfIsIn ==
    ASSUME NEW S, NEW x \in OneOf(S)
    PROVE  x \in S
  BY DEF OneOf

LEMMA CapType ==
    ASSUME CleanupAssumption, NEW n \in Nat
    PROVE  Cap(n) \in Ages /\ Cap(n) <= n
  BY DEF CleanupAssumption, Cap, Ages

\* Ids are pairs of a name and a process.
LEMMA IdParts ==
    ASSUME NEW id \in Ids
    PROVE  id[1] \in Keys /\ id[2] \in Procs /\ id = <<id[1], id[2]>>
  BY DEF Ids

LEMMA KeyType ==
    ASSUME named \in DOMAIN Names
    PROVE  key \in Keys
  BY DEF key, Keys

----------------------------------------------------------------------------
(* What a step makes of an audit.                                           *)

LEMMA AuditFields ==
    ASSUME NEW a \in Audit
    PROVE  /\ a.phase \in Phases \cup {None} /\ a.age \in Ages /\ a.gap \in Ages
           /\ a.base \in Marks /\ a.intent \in BOOLEAN
  BY DEF Audit

LEMMA Zeroes ==
    ASSUME CleanupAssumption
    PROVE  0 \in Ages /\ 0 \in Marks
  BY DEF CleanupAssumption, Ages, Marks

\* The baseline is the only field that loses its value.
LEMMA FinalAudit ==
    ASSUME CleanupAssumption, NEW a \in Audit
    PROVE  /\ Final(a) \in Audit
           /\ Final(a).intent = a.intent /\ Final(a).phase = a.phase
  BY Zeroes DEF Final, Audit

\* An audit with an intent keeps it and is never confirmed; one that is
\* observed has the evidence of this look and, unless its age is zero, the
\* age and the evidence it had.
LEMMA LookedAudit ==
    ASSUME CleanupAssumption, NEW a \in Audit, NEW id, check \in Deciding
    PROVE  /\ Looked(a, id) \in Audit
           /\ Looked(a, id).intent = a.intent
           /\ Looked(a, id).phase \in {"observing", "unknown", "verified", "uncertain"}
           /\ a.intent => Looked(a, id).phase \in {"verified", "uncertain"}
           /\ Looked(a, id).phase = "observing" =>
                 /\ ~a.intent /\ Looked(a, id).base = check.mark
                 /\ \/ Looked(a, id).age = 0
                    \/ a.phase = "observing" /\ a.base = check.mark /\ Looked(a, id).age = a.age
  <1> DEFINE b == Looked(a, id)
  <1>0. /\ a.intent \in BOOLEAN /\ check.mark \in Marks /\ 0 \in Ages /\ 0 \in Marks
        /\ {"observing", "unknown", "verified", "uncertain"} \subseteq Phases
    BY Zeroes, AuditFields DEF Deciding, Phases
  <1>1. CASE a.intent
    <2>1. b = [a EXCEPT !.phase = IF check.proc # id[2] THEN "verified" ELSE "uncertain"]
      BY <1>1 DEF Looked
    <2> QED  BY <1>0, <1>1, <2>1 DEF Audit
  <1>2. CASE ~a.intent /\ check.residue /\ Continues(a)
    <2>1. b = [a EXCEPT !.gap = 0]
      BY <1>2 DEF Looked
    <2> QED  BY <1>0, <1>2, <2>1 DEF Audit, Continues
  <1>3. CASE ~a.intent /\ ~(check.residue /\ Continues(a))
    <2>1. b = [a EXCEPT !.gap = 0, !.age = 0,
                      !.base = IF check.residue THEN check.mark ELSE 0,
                      !.phase = IF check.residue THEN "observing" ELSE "unknown"]
      BY <1>3 DEF Looked
    <2> QED  BY <1>0, <1>3, <2>1 DEF Audit
  <1> QED  BY <1>0, <1>1, <1>2, <1>3

\* So does the decision, and a confirmed one has reached the minimum.
LEMMA DecidedAudit ==
    ASSUME CleanupAssumption, NEW a \in Audit, NEW id, NEW enough \in BOOLEAN, check \in Deciding
    PROVE  LET b == Decided(a, id, enough) IN
           /\ b \in Audit
           /\ b.intent = a.intent
           /\ b.phase = "confirmed" =>
                 /\ ~a.intent /\ a.phase = "observing"
                 /\ a.age >= Minimum /\ a.base = check.mark /\ b.base = check.mark
           /\ b.phase = "observing" =>
                 /\ ~a.intent /\ b.base = check.mark
                 /\ \/ b.age = 0
                    \/ a.phase = "observing" /\ a.base = check.mark /\ b.age = a.age
  <1> DEFINE l == Looked(a, id)
             b == Decided(a, id, enough)
  <1>1. /\ l \in Audit /\ l.intent = a.intent /\ l.intent \in BOOLEAN
        /\ l.phase \in {"observing", "unknown", "verified", "uncertain"}
        /\ a.intent => l.phase \in {"verified", "uncertain"}
        /\ l.phase = "observing" =>
                 /\ ~a.intent /\ l.base = check.mark
                 /\ \/ l.age = 0
                    \/ a.phase = "observing" /\ a.base = check.mark /\ l.age = a.age
    BY LookedAudit, AuditFields
  <1>2. {"unknown", "confirmed"} \subseteq Phases
    BY DEF Phases
  <1> HIDE DEF l
  <1>3. CASE b = l
    BY <1>1, <1>3
  <1>4. CASE ~l.intent /\ b = Final([l EXCEPT !.phase = "unknown"])
    <2>1. [l EXCEPT !.phase = "unknown"] \in Audit
      BY <1>1, <1>2 DEF Audit
    <2>2. [l EXCEPT !.phase = "unknown"].phase = "unknown" /\ [l EXCEPT !.phase = "unknown"].intent = l.intent
      BY <1>1 DEF Audit
    <2> QED  BY <1>1, <1>4, <2>1, <2>2, FinalAudit
  <1>5. CASE /\ ~l.intent /\ l.phase = "observing" /\ l.age >= Minimum
             /\ b = [l EXCEPT !.phase = "confirmed"]
    <2>1. b \in Audit /\ b.phase = "confirmed" /\ b.intent = l.intent /\ b.base = l.base
      BY <1>1, <1>2, <1>5 DEF Audit
    <2>2. l.age # 0
      BY <1>5 DEF CleanupAssumption
    <2> QED  BY <1>1, <1>5, <2>1, <2>2
  <1>6. \/ b = l
        \/ ~l.intent /\ b = Final([l EXCEPT !.phase = "unknown"])
        \/ /\ ~l.intent /\ l.phase = "observing" /\ l.age >= Minimum
           /\ b = [l EXCEPT !.phase = "confirmed"]
    BY <1>1 DEF Decided, l
  <1> QED  BY <1>3, <1>4, <1>5, <1>6

\* What is read back has an intent if there was one on the disk, and observes nothing.
LEMMA LoadedAudit ==
    ASSUME CleanupAssumption, TypeOK, NEW id \in Ids
    PROVE  /\ loadCleanup(id) \in Audit
           /\ disk[id] \in {"intent", "verified"} => loadCleanup(id).intent
           /\ loadCleanup(id).phase # "observing"
  <1>1. NoAudit \in Audit /\ NoAudit.phase # "observing"
    BY Zeroes DEF NoAudit, Audit, CleanupAssumption, Phases
  <1>2. disk[id] \in {"none", "seen", "intent", "verified"}
    BY DEF TypeOK
  <1>3. /\ [NoAudit EXCEPT !.phase = "unknown"] \in Audit
        /\ [NoAudit EXCEPT !.phase = "uncertain", !.intent = TRUE] \in Audit
        /\ [NoAudit EXCEPT !.phase = "verified", !.intent = TRUE] \in Audit
    BY <1>1 DEF NoAudit, Audit, Phases
  <1> QED  BY <1>1, <1>2, <1>3 DEF loadCleanup, NoAudit

----------------------------------------------------------------------------
(* Types.                                                                   *)

\* What a decision is about.
LEMMA SubjectType ==
    ASSUME CleanupAssumption, TypeOK, Busy, check.stage = "decide"
    PROVE  /\ check \in Deciding
           /\ check.of \in Ids => Subject = check.of
           /\ check.of \notin Ids => check.of = None /\ Subject = <<check.key, check.proc>>
  <1>1. check \in Deciding
    BY DEF TypeOK, Busy, Inspecting, Deciding, Requesting
  <1> QED  BY <1>1 DEF Deciding, Subject, CleanupAssumption

\* An order carries the identity and the baseline that were decided on.
LEMMA IntendType ==
    ASSUME CleanupAssumption, TypeOK, NEW id \in Ids, NEW b \in Audit, check \in Deciding,
           b.phase = "confirmed"
    PROVE  /\ [Final(b) EXCEPT !.phase = "signal_intent", !.intent = TRUE] \in Audit
           /\ OnDisk([Final(b) EXCEPT !.phase = "signal_intent", !.intent = TRUE]) = "intent"
           /\ [stage |-> "terminate", id |-> id, done |-> FALSE, moved |-> check.moved] \in Requesting
           /\ [id |-> id, base |-> b.base] \in [id: Ids, base: Marks]
  <1>1. Final(b) \in Audit
    BY FinalAudit
  <1>2. /\ [Final(b) EXCEPT !.phase = "signal_intent", !.intent = TRUE] \in Audit
        /\ [Final(b) EXCEPT !.phase = "signal_intent", !.intent = TRUE].phase = "signal_intent"
        /\ [Final(b) EXCEPT !.phase = "signal_intent", !.intent = TRUE].intent = TRUE
    BY <1>1 DEF Audit, Phases
  <1>3. OnDisk([Final(b) EXCEPT !.phase = "signal_intent", !.intent = TRUE]) = "intent"
    BY <1>2 DEF OnDisk
  <1>4. [stage |-> "terminate", id |-> id, done |-> FALSE, moved |-> check.moved] \in Requesting
    BY DEF Deciding, Requesting
  <1>5. [id |-> id, base |-> b.base] \in [id: Ids, base: Marks]
    BY DEF Audit
  <1> QED  BY <1>2, <1>3, <1>4, <1>5

\* The two outcomes of a decision, in the terms the invariants use: at most the
\* audit with its file,
Settles(id, b) ==
    /\ check' = None /\ UNCHANGED <<orders, requests>>
    /\ \/ audits' = audits
       \/ audits' = [audits EXCEPT ![id] = b]
       \/ b.phase = "confirmed" /\ audits' = [audits EXCEPT ![id] = Final(b)]
    /\ \/ disk' = disk
       \/ disk' = [disk EXCEPT ![id] = OnDisk(b)]
       \/ b.phase = "confirmed" /\ disk' = [disk EXCEPT ![id] = "intent"]

\* or the intent and the request.
Asks(id, b) ==
    /\ b.phase = "confirmed"
    /\ audits' = [audits EXCEPT ![id] =
            [Final(b) EXCEPT !.phase = "signal_intent", !.intent = TRUE]]
    /\ disk' = [disk EXCEPT ![id] = "intent"]
    /\ check' = [stage |-> "terminate", id |-> id, done |-> FALSE, moved |-> check.moved]
    /\ orders' = orders \cup {[id |-> id, base |-> b.base]}
    /\ requests' = [requests EXCEPT ![id] = @ + 1]

\* A decision, by the result of the inspection.
LEMMA DecideCases ==
    ASSUME CleanupAssumption, TypeOK, Decide
    PROVE  \E enough \in BOOLEAN :
              LET b == Decided(audits[Subject], Subject, enough) IN
              /\ Subject \in Ids /\ check \in Deciding /\ b \in Audit
              /\ Settles(Subject, b) \/ Asks(Subject, b)
  <1>1. Busy /\ check.stage = "decide" /\ Subject \in Ids
    BY DEF Decide
  <1> DEFINE id == Subject
  <1>2. PICK enough \in BOOLEAN : LET b == Decided(audits[id], id, enough) IN
       \/ b.phase # "confirmed" /\ Saves(id, b) /\ audits' = [audits EXCEPT ![id] = b]
          /\ check' = None /\ UNCHANGED <<orders, requests>>
       \/ SaveFails(id, b) /\ check' = None /\ UNCHANGED <<audits, orders, requests>>
       \/ b.phase = "confirmed" /\ Intend(id, b)
    BY DEF Decide
  <1> DEFINE b == Decided(audits[id], id, enough)
  <1>3. id \in Ids /\ check \in Deciding /\ audits[id] \in Audit
    BY <1>1, SubjectType DEF TypeOK
  <1>4. b \in Audit
    BY <1>3, DecidedAudit
  <1> HIDE DEF b
  <1>5. CASE b.phase # "confirmed" /\ Saves(id, b) /\ audits' = [audits EXCEPT ![id] = b]
             /\ check' = None /\ UNCHANGED <<orders, requests>>
    BY <1>3, <1>4, <1>5 DEF Saves, Settles, b
  <1>6. CASE SaveFails(id, b) /\ check' = None /\ UNCHANGED <<audits, orders, requests>>
    BY <1>3, <1>4, <1>6 DEF SaveFails, Saves, Settles, b
  <1>7. CASE b.phase = "confirmed" /\ Intend(id, b)
    <2> DEFINE w == [Final(b) EXCEPT !.phase = "signal_intent", !.intent = TRUE]
    <2>1. OnDisk(w) = "intent"
      BY <1>3, <1>4, <1>7, IntendType
    <2>2. \/ /\ Saves(id, w) /\ audits' = [audits EXCEPT ![id] = w]
             /\ check' = [stage |-> "terminate", id |-> id, done |-> FALSE, moved |-> check.moved]
             /\ orders' = orders \cup {[id |-> id, base |-> b.base]}
             /\ requests' = [requests EXCEPT ![id] = @ + 1]
          \/ /\ Saves(id, b) \/ Saves(id, w)
             /\ audits' = [audits EXCEPT ![id] = Final(b)]
             /\ check' = None /\ UNCHANGED <<orders, requests>>
      BY <1>7 DEF Intend
    <2>3. Asks(id, b) \/ Settles(id, b)
      BY <1>7, <2>1, <2>2 DEF Asks, Settles, Saves, SaveFails
    <2> QED  BY <1>3, <1>4, <2>3 DEF b
  <1> QED  BY <1>2, <1>5, <1>6, <1>7 DEF b

LEMMA StageTypes ==
    ASSUME CleanupAssumption, TypeOK
    PROVE  /\ Locked => check \in Requesting
           /\ (Busy /\ check.stage = "inspect") => check \in Inspecting
           /\ (Busy /\ check.stage = "decide") => check \in Deciding
           /\ Inspected => check \in Deciding
  BY DEF TypeOK, Locked, Busy, Inspected, Inspecting, Deciding, Requesting

LEMMA InitType ==
    ASSUME CleanupAssumption, Init
    PROVE  TypeOK
  <1>1. NoAudit \in Audit
    BY Zeroes DEF NoAudit, Audit
  <1>2. proc \in Procs
    BY OneOfIsIn DEF Init
  <1>3. 1 \in DOMAIN Names
    BY DEF CleanupAssumption
  <1> QED  BY <1>1, <1>2, <1>3, Zeroes DEF Init, TypeOK, Ages

LEMMA WorldType ==
    ASSUME CleanupAssumption, TypeOK, World
    PROVE  TypeOK'
  <1>1. CASE Progress
    <2>1. mark + 1 \in Marks
      BY <1>1 DEF Progress, TypeOK, Marks, CleanupAssumption
    <2> QED  BY <1>1, <2>1, Zeroes DEF Progress, TypeOK, scope, remote
  <1>2. CASE Looks
    BY <1>2 DEF Looks, TypeOK, scope, remote
  <1>3. CASE Exits
    BY <1>3, Zeroes DEF Exits, TypeOK, scope, remote
  <1>4. CASE Starts
    <2>1. proc' \in Procs \ started
      BY <1>4, OneOfIsIn DEF Starts
    <2> QED  BY <1>4, <2>1 DEF Starts, TypeOK, scope, remote
  <1>5. CASE Minute
    <2>1. \A n \in Ages : Cap(n + 1) \in Ages
      BY CapType DEF Ages, CleanupAssumption
    <2>2. audits' \in [Ids -> Audit]
      <3>1. \A id \in Ids : audits[id] \in Audit
        BY DEF TypeOK
      <3>2. \A id \in Ids : [audits[id] EXCEPT !.age = Cap(@ + 1), !.gap = Cap(@ + 1)] \in Audit
        BY <2>1, <3>1 DEF Audit
      <3> QED  BY <1>5, <3>1, <3>2 DEF Minute
    <2>3. quiet' \in Ages
      BY <1>5, <2>1 DEF Minute, TypeOK
    <2> QED  BY <1>5, <2>2, <2>3 DEF Minute, TypeOK, scope, remote
  <1> QED  BY <1>1, <1>2, <1>3, <1>4, <1>5 DEF World

LEMMA OperatorsType ==
    ASSUME CleanupAssumption, TypeOK, Operators
    PROVE  TypeOK'
  <1>1. CASE SetCleanupPolicy
    BY <1>1 DEF SetCleanupPolicy, TypeOK, world, remote
  <1>2. CASE Waiter
    BY <1>2 DEF Waiter, TypeOK, world, remote
  <1>3. CASE Allocate
    BY <1>3 DEF Allocate, TypeOK, world, remote
  <1>4. CASE Release
    BY <1>4 DEF Release, TypeOK, world, remote
  <1>5. CASE Configure
    <2>1. named + 1 \in DOMAIN Names
      BY <1>5 DEF Configure, TypeOK, CleanupAssumption
    <2>2. check' \in {None} \cup Inspecting \cup Deciding \cup Requesting
      BY <1>5 DEF Configure, TypeOK, Busy, Locked, Inspecting, Deciding, Requesting
    <2> QED  BY <1>5, <2>1, <2>2 DEF Configure, TypeOK, world, remote
  <1> QED  BY <1>1, <1>2, <1>3, <1>4, <1>5 DEF Operators

LEMMA ScriptType ==
    ASSUME CleanupAssumption, TypeOK, Script
    PROVE  TypeOK'
  <1>1. ASSUME Answered
        PROVE  check' \in {None} \cup Inspecting \cup Deciding \cup Requesting
    <2>1. CASE Locked
      BY <1>1, <2>1, StageTypes DEF Answered, Requesting
    <2> QED  BY <1>1, <2>1 DEF Answered, TypeOK
  <1>2. CASE \E o \in orders : Prepare(o)
    <2>1. PICK o \in orders : Prepare(o)
      BY <1>2
    <2>2. o.id \in Ids
      BY DEF TypeOK
    <2>3. check' \in {None} \cup Inspecting \cup Deciding \cup Requesting
      BY <1>1, <2>1 DEF Prepare, TypeOK
    <2>4. hand' \in Ids \cup {None} /\ receipts' \subseteq Ids /\ orders' \subseteq orders
      BY <2>1, <2>2 DEF Prepare, TypeOK
    <2> QED  BY <2>1, <2>3, <2>4 DEF Prepare, TypeOK, scope, world
  <1>3. CASE Signal
    <2>1. hand \in Ids /\ hand[2] \in Procs
      BY <1>3, IdParts DEF Signal, TypeOK
    <2>2. signals' \in [Procs -> Nat]
      BY <1>3, <2>1 DEF Signal, TypeOK
    <2> QED  BY <1>1, <1>3, <2>2 DEF Signal, TypeOK, scope, world
  <1>4. CASE Breaks
    BY <1>4 DEF Breaks, TypeOK, scope, world
  <1> QED  BY <1>2, <1>3, <1>4 DEF Script

LEMMA ChecksType ==
    ASSUME CleanupAssumption, TypeOK, Checks \/ InspectFails
    PROVE  TypeOK'
  <1>0. key \in Keys
    BY KeyType DEF TypeOK
  <1>1. CASE Select
    BY <1>0, <1>1 DEF Select, Look, TypeOK, Inspecting, scope, world, remote
  <1>2. CASE \E id \in Ids : Follow(id)
    <2>1. PICK id \in Ids : Follow(id)
      BY <1>2
    <2>2. check' \in Inspecting
      BY <1>0, <2>1 DEF Follow, Look, Inspecting
    <2> QED  BY <2>1, <2>2 DEF Follow, TypeOK, scope, world, remote
  <1>3. CASE Inspect
    <2>1. check' \in Deciding
      BY <1>3, StageTypes DEF Inspect, Inspecting, Deciding, TypeOK
    <2> QED  BY <1>3, <2>1 DEF Inspect, TypeOK, scope, world, remote
  <1>4. CASE InspectFails
    <2>1. audits' \in [Ids -> Audit]
      <3>1. check \in Inspecting
        BY <1>4, StageTypes DEF InspectFails
      <3>2. CASE check.of = None
        BY <1>4, <3>2 DEF InspectFails, TypeOK
      <3>3. CASE check.of # None
        <4>1. check.of \in Ids /\ audits[check.of] \in Audit
          BY <3>1, <3>3 DEF Inspecting, TypeOK
        <4>2. [audits[check.of] EXCEPT !.phase = "uncertain"] \in Audit
          BY <4>1 DEF Audit, Phases
        <4>3. audits' = [audits EXCEPT ![check.of] = [audits[check.of] EXCEPT !.phase = "uncertain"]]
          BY <1>4, <3>3, <4>1 DEF InspectFails, TypeOK
        <4> QED  BY <4>1, <4>2, <4>3 DEF TypeOK
      <3> QED  BY <3>2, <3>3
    <2> QED  BY <1>4, <2>1 DEF InspectFails, TypeOK, scope, world, remote
  <1>5. CASE Decide
    <2>1. PICK enough \in BOOLEAN :
              LET b == Decided(audits[Subject], Subject, enough) IN
              /\ Subject \in Ids /\ check \in Deciding /\ b \in Audit
              /\ Settles(Subject, b) \/ Asks(Subject, b)
      BY <1>5, DecideCases
    <2> DEFINE id == Subject
               b == Decided(audits[id], id, enough)
    <2>2. id \in Ids /\ check \in Deciding /\ b \in Audit
      BY <2>1
    <2> HIDE DEF id, b
    <2>3. CASE Settles(id, b)
      <3>1. Final(b) \in Audit /\ OnDisk(b) \in {"none", "seen", "intent", "verified"}
        BY <2>2, FinalAudit DEF OnDisk
      <3>2. audits' \in [Ids -> Audit]
        BY <2>2, <2>3, <3>1 DEF Settles, TypeOK
      <3>3. disk' \in [Ids -> {"none", "seen", "intent", "verified"}]
        BY <2>2, <2>3, <3>1 DEF Settles, TypeOK
      <3> QED  BY <1>5, <2>3, <3>2, <3>3 DEF Settles, Decide, TypeOK, scope, world, remote
    <2>4. CASE Asks(id, b)
      <3>1. b.phase = "confirmed"
        BY <2>4 DEF Asks
      <3>2. audits' \in [Ids -> Audit] /\ check' \in Requesting
        BY <2>2, <2>4, <3>1, IntendType DEF Asks, TypeOK
      <3>3. orders' \subseteq [id: Ids, base: Marks]
        BY <2>2, <2>4, <3>1, IntendType DEF Asks, TypeOK
      <3>4. requests' \in [Ids -> Nat] /\ disk' \in [Ids -> {"none", "seen", "intent", "verified"}]
        BY <2>2, <2>4 DEF Asks, TypeOK
      <3> QED  BY <1>5, <3>2, <3>3, <3>4 DEF Decide, TypeOK, scope, world, remote
    <2> QED  BY <2>1, <2>3, <2>4 DEF id, b
  <1>6. CASE DecideGone
    BY <1>6 DEF DecideGone, TypeOK, scope, world, remote
  <1>7. CASE Terminated \/ NoAnswer
    <2>1. check.id \in Ids /\ audits[check.id] \in Audit
      BY <1>7, StageTypes DEF Terminated, NoAnswer, Requesting, TypeOK
    <2>2. \A o \in Phases : [audits[check.id] EXCEPT !.phase = o] \in Audit
      BY <2>1 DEF Audit
    <2>3. PICK o \in Phases : audits' = [audits EXCEPT ![check.id] = [audits[check.id] EXCEPT !.phase = o]]
      BY <1>7, <2>1 DEF Terminated, NoAnswer, Phases, TypeOK
    <2>4. audits' \in [Ids -> Audit]
      BY <2>1, <2>2, <2>3 DEF TypeOK
    <2> QED  BY <1>7, <2>4 DEF Terminated, NoAnswer, TypeOK, scope, world, remote
  <1> QED  BY <1>1, <1>2, <1>3, <1>4, <1>5, <1>6, <1>7 DEF Checks

LEMMA RestartType ==
    ASSUME CleanupAssumption, TypeOK, Restart
    PROVE  TypeOK'
  <1>1. audits' \in [Ids -> Audit]
    BY LoadedAudit DEF Restart
  <1> QED  BY <1>1 DEF Restart, TypeOK, world, remote

\* Every step keeps the kinds of values.
LEMMA NextType ==
    ASSUME CleanupAssumption, TypeOK, [Next]_vars
    PROVE  TypeOK'
  <1>1. CASE UNCHANGED vars
    BY <1>1 DEF vars, scope, world, remote, TypeOK
  <1> QED  BY <1>1, ChecksType, WorldType, OperatorsType, ScriptType, RestartType DEF Next

\* The cleanup keeps records of its kinds, whatever fails.
THEOREM CleanupTypes ==
    ASSUME CleanupAssumption
    PROVE  Spec => []TypeOK
  <1>1. Init => TypeOK
    BY InitType
  <1>2. TypeOK /\ [Next]_vars => TypeOK'
    BY NextType
  <1> QED  BY <1>1, <1>2, PTL DEF Spec

----------------------------------------------------------------------------
(* At most one request.  Whoever was to be signalled has an intent in memory *)
(* and on the disk, and an audit with an intent is never confirmed again.     *)

Recorded(id) == audits[id].intent /\ disk[id] \in {"intent", "verified"}
Asked ==
    /\ \A id \in Ids : requests[id] = 0 \/ (requests[id] = 1 /\ Recorded(id))
    /\ \A o \in orders : requests[o.id] # 0
    /\ hand # None => requests[hand] # 0
    /\ \A p \in Procs : signals[p] > 0 => \E k \in Keys : requests[<<k, p>>] # 0

\* A step that makes no request, and no audit and no file forget the intent.
LEMMA AskedKept ==
    ASSUME CleanupAssumption, TypeOK, TypeOK', Asked,
           requests' = requests, orders' \subseteq orders,
           hand' # None => hand' = hand \/ \E o \in orders : hand' = o.id,
           signals' = signals \/ (hand # None /\ signals' = [signals EXCEPT ![hand[2]] = @ + 1]),
           \A id \in Ids : requests[id] = 1 /\ Recorded(id) => Recorded(id)'
    PROVE  Asked'
  <1>1. \A id \in Ids : requests'[id] = 0 \/ (requests'[id] = 1 /\ Recorded(id)')
    BY DEF Asked
  <1>2. \A o \in orders' : requests'[o.id] # 0
    BY DEF Asked
  <1>3. hand' # None => requests'[hand'] # 0
    BY DEF Asked
  <1>4. ASSUME NEW p \in Procs, signals'[p] > 0
        PROVE  \E k \in Keys : requests'[<<k, p>>] # 0
    <2>1. CASE signals[p] > 0
      BY <2>1 DEF Asked
    <2>2. CASE ~(signals[p] > 0)
      <3>1. hand # None /\ hand[2] = p
        BY <1>4, <2>2 DEF TypeOK
      <3>2. hand \in Ids /\ hand[1] \in Keys /\ hand = <<hand[1], p>>
        BY <3>1, IdParts DEF TypeOK
      <3>3. requests[<<hand[1], p>>] # 0
        BY <3>1, <3>2 DEF Asked
      <3> QED  BY <3>2, <3>3
    <2> QED  BY <2>1, <2>2
  <1> QED  BY <1>1, <1>2, <1>3, <1>4 DEF Asked, Recorded

\* Every step keeps the records of what was asked.
LEMMA AskedStep ==
    ASSUME CleanupAssumption, TypeOK, TypeOK', Asked, [Next]_vars
    PROVE  Asked'
  <1>0. \A id \in Ids : audits[id] \in Audit
    BY DEF TypeOK
  <1>1. CASE Decide
    <2>1. PICK enough \in BOOLEAN :
              LET b == Decided(audits[Subject], Subject, enough) IN
              /\ Subject \in Ids /\ check \in Deciding /\ b \in Audit
              /\ Settles(Subject, b) \/ Asks(Subject, b)
      BY <1>1, DecideCases
    <2> DEFINE id == Subject
               b == Decided(audits[id], id, enough)
    <2>2. id \in Ids /\ check \in Deciding /\ b \in Audit
      BY <2>1
    <2>3. b.intent = audits[id].intent /\ (b.phase = "confirmed" => ~audits[id].intent)
      BY <1>0, <2>2, DecidedAudit
    <2>4. UNCHANGED <<hand, signals>>
      BY <1>1 DEF Decide, remote
    <2> HIDE DEF id, b
    <2>5. CASE Settles(id, b)
      <3>1. ASSUME NEW i \in Ids, Recorded(i)
            PROVE  Recorded(i)'
        <4>1. CASE i # id
          BY <1>0, <2>2, <2>5, <3>1, <4>1 DEF Settles, Recorded, TypeOK
        <4>2. CASE i = id
          <5>1. b.intent /\ b.phase # "confirmed" /\ OnDisk(b) \in {"intent", "verified"}
            BY <2>3, <3>1, <4>2 DEF Recorded, OnDisk
          <5> QED  BY <2>2, <2>5, <3>1, <4>2, <5>1 DEF Settles, Recorded, TypeOK
        <4> QED  BY <4>1, <4>2
      <3> QED  BY <2>4, <2>5, <3>1, AskedKept DEF Settles
    <2>6. CASE Asks(id, b)
      <3> DEFINE w == [Final(b) EXCEPT !.phase = "signal_intent", !.intent = TRUE]
      <3>1. requests[id] = 0
        BY <2>2, <2>3, <2>6 DEF Asked, Recorded, Asks
      <3>2. w.intent
        BY <2>2, FinalAudit DEF Audit
      <3>3. audits' = [audits EXCEPT ![id] = w] /\ disk' = [disk EXCEPT ![id] = "intent"]
        BY <2>6 DEF Asks
      <3> HIDE DEF w
      <3>4. requests'[id] = 1 /\ \A i \in Ids \ {id} : requests'[i] = requests[i]
        BY <2>2, <2>6, <3>1 DEF Asks, TypeOK
      <3>5. \A i \in Ids \ {id} : Recorded(i) => Recorded(i)'
        BY <2>2, <3>3 DEF Recorded, TypeOK
      <3>6. ASSUME NEW i \in Ids
            PROVE  requests'[i] = 0 \/ (requests'[i] = 1 /\ Recorded(i)')
        <4>1. CASE i = id
          <5>1. audits'[id].intent /\ disk'[id] = "intent"
            BY <2>2, <3>2, <3>3 DEF TypeOK
          <5> QED  BY <3>4, <4>1, <5>1 DEF Recorded
        <4>2. CASE i # id
          <5>1. requests[i] = 0 \/ (requests[i] = 1 /\ Recorded(i))
            BY DEF Asked
          <5> QED  BY <3>4, <3>5, <4>2, <5>1
        <4> QED  BY <4>1, <4>2
      <3>7. \A i \in Ids : requests[i] # 0 => requests'[i] # 0
        BY <3>4
      <3>8. ASSUME NEW o \in orders'
            PROVE  requests'[o.id] # 0
        <4>1. o \in orders \/ o.id = id
          BY <2>6 DEF Asks
        <4>2. CASE o \in orders
          BY <3>7, <4>2 DEF Asked, TypeOK
        <4>3. CASE o.id = id
          BY <3>4, <4>3
        <4> QED  BY <4>1, <4>2, <4>3
      <3>9. hand' # None => requests'[hand'] # 0
        BY <2>4, <3>7 DEF Asked, TypeOK
      <3>10. ASSUME NEW p \in Procs, signals'[p] > 0
             PROVE  \E k \in Keys : requests'[<<k, p>>] # 0
        <4>1. PICK k \in Keys : requests[<<k, p>>] # 0
          BY <2>4, <3>10 DEF Asked
        <4> QED  BY <3>7, <4>1 DEF Ids
      <3> QED  BY <3>6, <3>8, <3>9, <3>10 DEF Asked, Recorded
    <2> QED  BY <2>1, <2>5, <2>6 DEF id, b
  <1>2. CASE Restart
    <2>1. \A id \in Ids : Recorded(id) => Recorded(id)'
      BY <1>2, LoadedAudit DEF Restart, Recorded
    <2> QED  BY <1>2, <2>1, AskedKept DEF Restart, remote
  <1>3. CASE Script
    <2>1. \A id \in Ids : Recorded(id) => Recorded(id)'
      BY <1>3 DEF Script, Prepare, Signal, Breaks, Recorded
    <2>2. CASE \E o \in orders : Prepare(o)
      BY <2>1, <2>2, AskedKept DEF Prepare
    <2>3. CASE Signal
      BY <2>1, <2>3, AskedKept DEF Signal
    <2>4. CASE Breaks
      BY <2>1, <2>4, AskedKept DEF Breaks
    <2> QED  BY <1>3, <2>2, <2>3, <2>4 DEF Script
  <1>4. CASE InspectFails \/ Terminated \/ NoAnswer \/ Minute
    <2>1. UNCHANGED <<requests, orders, hand, signals, disk>>
      BY <1>4 DEF InspectFails, Terminated, NoAnswer, Minute, remote
    <2>2. \A id \in Ids : audits'[id].intent = audits[id].intent
      <3>1. CASE InspectFails
        BY <1>0, <3>1 DEF InspectFails, Audit, TypeOK
      <3>2. CASE Terminated \/ NoAnswer
        BY <1>0, <3>2 DEF Terminated, NoAnswer, Audit, TypeOK
      <3>3. CASE Minute
        BY <1>0, <3>3 DEF Minute, Audit, TypeOK
      <3> QED  BY <1>4, <3>1, <3>2, <3>3
    <2> QED  BY <2>1, <2>2, AskedKept DEF Recorded
  <1>5. CASE UNCHANGED <<audits, disk, requests, orders, hand, signals>>
    BY <1>5, AskedKept DEF Recorded
  <1>6. Select \/ (\E id \in Ids : Follow(id)) \/ Inspect \/ DecideGone
          => UNCHANGED <<audits, disk, requests, orders, hand, signals>>
    BY DEF Select, Follow, Inspect, DecideGone, remote
  <1>7. Progress \/ Looks \/ Exits \/ Starts \/ Operators
          => UNCHANGED <<audits, disk, requests, orders, hand, signals>>
    BY DEF Progress, Looks, Exits, Starts, Operators, SetCleanupPolicy, Waiter, Allocate, Release,
           Configure, remote
  <1>8. UNCHANGED vars => UNCHANGED <<audits, disk, requests, orders, hand, signals>>
    BY DEF vars, remote
  <1> QED  BY <1>1, <1>2, <1>3, <1>4, <1>5, <1>6, <1>7, <1>8 DEF Next, Checks, World

\* However often the answer is lost, a write fails or the program stops, a
\* process is asked to terminate once under one name, and it is on record.
THEOREM AskedOnce ==
    ASSUME CleanupAssumption
    PROVE  Spec => []OnlyRequest /\ []SignalsAreOnRecord
  <1>1. Init => Asked
    <2> SUFFICES ASSUME Init PROVE Asked
      OBVIOUS
    <2>1. orders = {} /\ hand = None /\ (\A id \in Ids : requests[id] = 0) /\ \A p \in Procs : signals[p] = 0
      BY DEF Init
    <2> QED  BY <2>1 DEF Asked
  <1>2. TypeOK /\ TypeOK' /\ Asked /\ [Next]_vars => Asked'
    BY AskedStep
  <1>3. TypeOK /\ Asked => OnlyRequest /\ SignalsAreOnRecord
    <2>1. Asked => OnlyRequest
      BY DEF Asked, OnlyRequest
    <2>2. TypeOK /\ Asked => SignalsAreOnRecord
      BY DEF Asked, Recorded, SignalsAreOnRecord, Ids, TypeOK
    <2> QED  BY <2>1, <2>2
  <1>4. Spec => []TypeOK
    BY CleanupTypes
  <1> QED  BY <1>1, <1>2, <1>3, <1>4, PTL DEF Spec

----------------------------------------------------------------------------
(* The machine is not given away.  While the process is inspected the check  *)
(* keeps the machine's key, and a check that began without an audit began    *)
(* with the machine free; only such a check comes to a request.              *)

Looking == Busy /\ check.stage \in {"inspect", "decide"}
Spared ==
    /\ Looking /\ ~check.moved => check.key = key /\ (check.of = None => ~holder)
    /\ Looking /\ check.of # None => check.of \in Ids /\ audits[check.of].intent
    /\ HeldMachinesSpared

\* A step that ends the check, or leaves it and what it stands on alone.
LEMMA SparedKept ==
    ASSUME CleanupAssumption, TypeOK, Spared,
           \/ check' = None
           \/ /\ check' = check \/ (Locked /\ check' = [check EXCEPT !.done = TRUE])
              /\ UNCHANGED <<holder, named>>
              /\ \A id \in Ids : audits[id].intent => audits'[id].intent
    PROVE  Spared'
  <1>1. CASE check' = None
    BY <1>1 DEF Spared, Looking, Busy, Locked, HeldMachinesSpared
  <1>2. CASE check' = check /\ UNCHANGED <<holder, named>>
             /\ \A id \in Ids : audits[id].intent => audits'[id].intent
    <2>1. key' = key /\ (Looking' <=> Looking) /\ (Locked' <=> Locked)
      BY <1>2 DEF key, Looking, Locked, Busy
    <2> QED  BY <1>2, <2>1 DEF Spared, HeldMachinesSpared
  <1>3. CASE Locked /\ check' = [check EXCEPT !.done = TRUE] /\ UNCHANGED <<holder, named>>
    <2>1. check \in Requesting
      BY <1>3, StageTypes
    <2>2. check'.stage = "terminate" /\ check'.moved = check.moved
      BY <1>3, <2>1 DEF Requesting
    <2>3. ~Looking' /\ (Locked' /\ ~check'.moved => ~holder')
      BY <1>3, <2>2 DEF Looking, Spared, HeldMachinesSpared
    <2> QED  BY <2>3 DEF Spared, HeldMachinesSpared
  <1> QED  BY <1>1, <1>2, <1>3

\* Every step keeps what a check of a machine stands on.
LEMMA SparedStep ==
    ASSUME CleanupAssumption, TypeOK, TypeOK', Spared, [Next]_vars
    PROVE  Spared'
  <1>0. \A id \in Ids : audits[id] \in Audit
    BY DEF TypeOK
  <1>1. CASE Select
    <2>1. check' = [stage |-> "inspect", key |-> key, of |-> None, moved |-> FALSE] /\ ~holder
          /\ UNCHANGED <<holder, named>>
      BY <1>1 DEF Select, Look, scope
    <2>2. check'.key = key /\ check'.of = None /\ check'.stage = "inspect" /\ key' = key
      BY <2>1 DEF key
    <2> QED  BY <2>1, <2>2 DEF Spared, HeldMachinesSpared, Locked, Looking
  <1>2. CASE \E id \in Ids : Follow(id)
    <2>1. PICK id \in Ids : Follow(id)
      BY <1>2
    <2>2. check' = [stage |-> "inspect", key |-> key, of |-> id, moved |-> FALSE]
          /\ audits[id].intent /\ UNCHANGED <<holder, named, audits>>
      BY <2>1 DEF Follow, Look, Unverified, scope
    <2>3. check'.key = key /\ check'.of = id /\ check'.stage = "inspect" /\ key' = key /\ id # None
      BY <2>2 DEF key, CleanupAssumption
    <2> QED  BY <2>2, <2>3 DEF Spared, HeldMachinesSpared, Locked, Looking
  <1>3. CASE Inspect
    <2>1. check \in Inspecting /\ Looking
      BY <1>3, StageTypes DEF Inspect, Looking
    <2>2. check'.stage = "decide" /\ check'.key = check.key /\ check'.of = check.of
          /\ check'.moved = check.moved /\ UNCHANGED <<holder, named, audits>>
      BY <1>3 DEF Inspect, scope
    <2>3. key' = key
      BY <2>2 DEF key
    <2> QED  BY <2>1, <2>2, <2>3 DEF Spared, HeldMachinesSpared, Locked
  <1>4. CASE Decide
    <2>1. PICK enough \in BOOLEAN :
              LET b == Decided(audits[Subject], Subject, enough) IN
              /\ Subject \in Ids /\ check \in Deciding /\ b \in Audit
              /\ Settles(Subject, b) \/ Asks(Subject, b)
      BY <1>4, DecideCases
    <2> DEFINE id == Subject
               b == Decided(audits[id], id, enough)
    <2>2. b.phase = "confirmed" => ~audits[id].intent
      BY <1>0, <2>1, DecidedAudit
    <2>3. Looking /\ UNCHANGED holder /\ (check.of # None => Subject = check.of)
      BY <1>4 DEF Decide, Looking, Subject, scope
    <2> HIDE DEF id, b
    <2>4. CASE Settles(id, b)
      BY <2>4, SparedKept DEF Settles
    <2>5. CASE Asks(id, b)
      <3>1. check.of = None
        BY <2>2, <2>3, <2>5 DEF Asks, Spared, id
      <3>2. ~check.moved => ~holder
        BY <2>3, <3>1 DEF Spared
      <3>3. check'.stage = "terminate" /\ check'.moved = check.moved
        BY <2>5 DEF Asks
      <3> QED  BY <2>3, <3>2, <3>3 DEF Spared, HeldMachinesSpared, Looking
    <2> QED  BY <2>1, <2>4, <2>5 DEF id, b
  <1>5. CASE InspectFails \/ DecideGone \/ Terminated \/ NoAnswer \/ Restart
    BY <1>5, SparedKept DEF InspectFails, DecideGone, Terminated, NoAnswer, Restart
  <1>6. CASE Minute
    <2>1. \A id \in Ids : audits'[id].intent = audits[id].intent
      BY <1>0, <1>6 DEF Minute, Audit, TypeOK
    <2> QED  BY <1>6, <2>1, SparedKept DEF Minute, scope
  <1>7. CASE Progress \/ Looks \/ Exits \/ Starts \/ SetCleanupPolicy \/ Waiter
    BY <1>7, SparedKept DEF Progress, Looks, Exits, Starts, SetCleanupPolicy, Waiter, scope
  <1>8. CASE Allocate
    <2>1. ~Locked /\ ~(Busy /\ check.key = key) /\ UNCHANGED <<check, named, audits>>
      BY <1>8 DEF Allocate
    <2>2. key' = key /\ (Looking' <=> Looking) /\ ~Locked'
      BY <2>1 DEF key, Looking, Locked, Busy
    <2> QED  BY <2>1, <2>2 DEF Spared, HeldMachinesSpared, Looking
  <1>9. CASE Release
    <2>1. ~holder' /\ UNCHANGED <<check, named, audits>>
      BY <1>9 DEF Release
    <2>2. key' = key /\ (Looking' <=> Looking)
      BY <2>1 DEF key, Looking, Busy
    <2> QED  BY <2>1, <2>2 DEF Spared, HeldMachinesSpared
  <1>10. CASE Configure
    <2>1. UNCHANGED <<holder, audits>>
      BY <1>10 DEF Configure
    <2>2. CASE Busy /\ ~Locked
      <3>1. check \in Inspecting \cup Deciding
        BY <2>2 DEF TypeOK, Busy, Locked, Requesting
      <3>2. check' = [check EXCEPT !.moved = TRUE]
        BY <1>10, <2>2 DEF Configure
      <3>3. check'.moved /\ check'.stage = check.stage /\ check'.of = check.of
        BY <3>1, <3>2 DEF Inspecting, Deciding
      <3>4. Looking
        BY <2>2, <3>1 DEF Inspecting, Deciding, Looking
      <3> QED  BY <2>1, <3>3, <3>4 DEF Spared, HeldMachinesSpared
    <2>3. CASE ~(Busy /\ ~Locked)
      <3>1. check' = check
        BY <1>10, <2>3 DEF Configure
      <3>2. ~Looking' /\ (Locked' <=> Locked)
        BY <2>3, <3>1 DEF Looking, Busy, Locked
      <3> QED  BY <2>1, <3>1, <3>2 DEF Spared, HeldMachinesSpared
    <2> QED  BY <2>2, <2>3
  <1>11. CASE Script
    <2>1. UNCHANGED <<holder, named, audits>>
      BY <1>11 DEF Script, Prepare, Signal, Breaks, scope
    <2>2. check' = check \/ (Locked /\ check' = [check EXCEPT !.done = TRUE])
      BY <1>11 DEF Script, Prepare, Signal, Breaks, Answered
    <2> QED  BY <2>1, <2>2, SparedKept
  <1>12. CASE UNCHANGED vars
    BY <1>12, SparedKept DEF vars, scope
  <1> QED  BY <1>1, <1>2, <1>3, <1>4, <1>5, <1>6, <1>7, <1>8, <1>9, <1>10, <1>11, <1>12
           DEF Next, Checks, World, Operators

\* A machine on which a process is asked to terminate is not held by a task,
\* although tasks may reserve machines while the process is inspected.
THEOREM MachineSpared ==
    ASSUME CleanupAssumption
    PROVE  Spec => []HeldMachinesSpared
  <1>1. Init => Spared
    <2> SUFFICES ASSUME Init PROVE Spared
      OBVIOUS
    <2>1. ~Busy
      BY DEF Init, Busy
    <2> QED  BY <2>1 DEF Spared, Looking, Locked, HeldMachinesSpared, Busy
  <1>2. TypeOK /\ TypeOK' /\ Spared /\ [Next]_vars => Spared'
    BY SparedStep
  <1>3. Spared => HeldMachinesSpared
    BY DEF Spared
  <1>4. Spec => []TypeOK
    BY CleanupTypes
  <1> QED  BY <1>1, <1>2, <1>3, <1>4, PTL DEF Spec

----------------------------------------------------------------------------
(* Nothing is taken hold of before the minimum is over.  A process that has   *)
(* the baseline of an observation still has made no progress for the age of   *)
(* the observation; every progress moves it beyond the baseline for good, and *)
(* another process never is the observed one.                                 *)

Evidence(p, base, age) ==
    /\ p \in started
    /\ proc = p => base <= mark
    /\ proc = p /\ mark = base => quiet >= age

Observing(id) == audits[id].phase = "observing"
QuietAudits == \A id \in Ids : Observing(id) => Evidence(id[2], audits[id].base, audits[id].age)
QuietOrders == \A o \in orders : Evidence(o.id[2], o.base, Minimum)
QuietCheck == Inspected /\ check.proc # None => Evidence(check.proc, check.mark, 0)

\* What happens on the machine leaves evidence true,
LEMMA EvidenceKept ==
    ASSUME CleanupAssumption, TypeOK, World,
           NEW p \in Procs, NEW base \in Marks, NEW age \in Ages, Evidence(p, base, age)
    PROVE  Evidence(p, base, age)'
  <1>0. mark \in Nat /\ quiet \in Nat /\ base \in Nat /\ age \in Nat
    BY DEF TypeOK, Marks, Ages, CleanupAssumption
  <1>1. CASE Progress
    BY <1>0, <1>1 DEF Progress, Evidence
  <1>2. CASE Looks
    BY <1>2 DEF Looks, Evidence
  <1>3. CASE Exits
    BY <1>3 DEF Exits, Evidence, CleanupAssumption
  <1>4. CASE Starts
    <2>1. proc' \in Procs \ started
      BY <1>4, OneOfIsIn DEF Starts
    <2> QED  BY <1>4, <2>1 DEF Starts, Evidence
  <1>5. CASE Minute
    <2>0. Minimum \in Nat /\ MaxGap \in Nat /\ quiet <= Minimum + MaxGap
      BY DEF TypeOK, Ages, CleanupAssumption
    <2>1. quiet' = Cap(quiet + 1)
      BY <1>5 DEF Minute
    <2>2. quiet' >= quiet /\ quiet' \in Nat
      BY <1>0, <2>0, <2>1 DEF Cap
    <2>3. UNCHANGED <<started, proc, mark>>
      BY <1>5 DEF Minute
    <2> QED  BY <1>0, <2>2, <2>3 DEF Evidence
  <1> QED  BY <1>1, <1>2, <1>3, <1>4, <1>5 DEF World

\* and an interval that passes adds to both ages.
LEMMA EvidenceAges ==
    ASSUME CleanupAssumption, TypeOK, Minute,
           NEW p \in Procs, NEW base \in Marks, NEW age \in Ages, Evidence(p, base, age)
    PROVE  Evidence(p, base, Cap(age + 1))'
  <1>1. quiet' = Cap(quiet + 1) /\ UNCHANGED <<started, proc, mark>>
    BY DEF Minute
  <1>2. quiet \in Nat /\ age \in Nat /\ Minimum \in Nat /\ MaxGap \in Nat
    BY DEF TypeOK, Ages, CleanupAssumption
  <1>3. quiet >= age => Cap(quiet + 1) >= Cap(age + 1)
    BY <1>2 DEF Cap
  <1> QED  BY <1>1, <1>3 DEF Evidence

LEMMA AuditEvidence ==
    ASSUME CleanupAssumption, TypeOK, QuietAudits, NEW id \in Ids, Observing(id)
    PROVE  /\ id[2] \in Procs /\ audits[id].base \in Marks /\ audits[id].age \in Ages
           /\ Evidence(id[2], audits[id].base, audits[id].age)
  BY IdParts, AuditFields DEF QuietAudits, TypeOK

LEMMA OrderEvidence ==
    ASSUME CleanupAssumption, TypeOK, QuietOrders, NEW o \in orders
    PROVE  /\ o.id[2] \in Procs /\ o.base \in Marks /\ Minimum \in Ages
           /\ Evidence(o.id[2], o.base, Minimum)
  <1>1. o.id \in Ids /\ o.base \in Marks
    BY DEF TypeOK
  <1> QED  BY <1>1, IdParts DEF QuietOrders, Ages, CleanupAssumption

LEMMA CheckEvidence ==
    ASSUME CleanupAssumption, TypeOK, QuietCheck, Inspected, check.proc # None
    PROVE  /\ check.proc \in Procs /\ check.mark \in Marks /\ 0 \in Ages
           /\ Evidence(check.proc, check.mark, 0)
  BY StageTypes, Zeroes DEF QuietCheck, Deciding

Quiet == QuietAudits /\ QuietOrders /\ QuietCheck

LEMMA QuietWorld ==
    ASSUME CleanupAssumption, TypeOK, TypeOK', Quiet, World
    PROVE  Quiet'
  <1>1. orders' = orders
    BY DEF World, Progress, Looks, Exits, Starts, Minute
  <1>2. check' = check
    BY DEF World, Progress, Looks, Exits, Starts, Minute
  <1>3. QuietOrders'
    BY <1>1, OrderEvidence, EvidenceKept DEF Quiet, QuietOrders, Evidence
  <1>4. QuietCheck'
    <2> SUFFICES ASSUME Inspected, check.proc # None
                 PROVE  Evidence(check.proc, check.mark, 0)'
      BY <1>2 DEF QuietCheck, Inspected, Evidence
    <2> QED  BY <1>2, CheckEvidence, EvidenceKept DEF Quiet, Evidence
  <1>5. QuietAudits'
    <2> SUFFICES ASSUME NEW id \in Ids, Observing(id)'
                 PROVE  Evidence(id[2], audits[id].base, audits[id].age)'
      BY DEF QuietAudits, Observing, Evidence
    <2>1. CASE ~Minute
      <3>1. audits' = audits
        BY <2>1 DEF World, Progress, Looks, Exits, Starts
      <3>2. Observing(id)
        BY <3>1 DEF Observing
      <3> QED  BY <3>1, <3>2, AuditEvidence, EvidenceKept DEF Quiet, Evidence
    <2>2. CASE Minute
      <3>1. audits[id] \in Audit
        BY DEF TypeOK
      <3>2. Observing(id)
        BY <2>2, <3>1 DEF Minute, Observing
      <3>3. audits'[id].base = audits[id].base /\ audits'[id].age = Cap(audits[id].age + 1)
        BY <2>2, <3>1, <3>2 DEF Minute, Observing, Audit
      <3>4. /\ id[2] \in Procs /\ audits[id].base \in Marks /\ audits[id].age \in Ages
            /\ Evidence(id[2], audits[id].base, audits[id].age)
        BY <3>2, AuditEvidence DEF Quiet
      <3>5. PICK p \in Procs, base \in Marks, n \in Ages :
               p = id[2] /\ base = audits[id].base /\ n = audits[id].age
        BY <3>4
      <3>6. Evidence(p, base, Cap(n + 1))'
        BY <2>2, <3>4, <3>5, EvidenceAges
      <3> QED  BY <3>3, <3>5, <3>6 DEF Evidence
    <2> QED  BY <2>1, <2>2
  <1> QED  BY <1>3, <1>4, <1>5 DEF Quiet

\* A step that leaves the machine alone, asks for nothing new, and lets no audit
\* begin to be observed, or grow older.
LEMMA QuietKept ==
    ASSUME CleanupAssumption, TypeOK, Quiet, UNCHANGED world, orders' \subseteq orders,
           \/ check' = check
           \/ ~Inspected'
           \/ check'.proc = proc /\ check'.mark = mark,
           \A id \in Ids : Observing(id)' => audits'[id] = audits[id]
    PROVE  Quiet'
  <1>1. QuietOrders'
    BY DEF Quiet, QuietOrders, Evidence, world
  <1>2. QuietAudits'
    BY DEF Quiet, QuietAudits, Observing, Evidence, world
  <1>3. QuietCheck'
    <2> SUFFICES ASSUME Inspected', check'.proc # None
                 PROVE  Evidence(check.proc, check.mark, 0)'
      BY DEF QuietCheck, Evidence
    <2>1. CASE check' = check
      <3>1. Inspected
        BY <2>1 DEF Inspected
      <3> QED  BY <2>1, <3>1 DEF Quiet, QuietCheck, Evidence, world
    <2>2. CASE check'.proc = proc /\ check'.mark = mark
      <3>1. proc \in started /\ mark \in Nat /\ quiet \in Nat
        BY <2>2 DEF TypeOK, Marks, Ages, CleanupAssumption
      <3> QED  BY <2>2, <3>1 DEF Evidence, world
    <2> QED  BY <2>1, <2>2
  <1> QED  BY <1>1, <1>2, <1>3 DEF Quiet

\* What is decided about has the evidence of the inspection.
LEMMA QuietDecide ==
    ASSUME CleanupAssumption, TypeOK, TypeOK', Spared, Quiet, Decide
    PROVE  Quiet'
  <1>1. PICK enough \in BOOLEAN :
              LET b == Decided(audits[Subject], Subject, enough) IN
              /\ Subject \in Ids /\ check \in Deciding /\ b \in Audit
              /\ Settles(Subject, b) \/ Asks(Subject, b)
    BY DecideCases
  <1> DEFINE id == Subject
             b == Decided(audits[id], id, enough)
  <1>2. id \in Ids /\ check \in Deciding /\ b \in Audit /\ audits[id] \in Audit
    BY <1>1 DEF TypeOK
  <1>3. /\ b.phase = "confirmed" =>
              /\ ~audits[id].intent /\ Observing(id)
              /\ audits[id].age >= Minimum /\ b.base = audits[id].base
        /\ b.phase = "observing" =>
              /\ ~audits[id].intent /\ b.base = check.mark
              /\ \/ b.age = 0
                 \/ Observing(id) /\ audits[id].base = check.mark /\ b.age = audits[id].age
    BY <1>2, DecidedAudit DEF Observing
  <1>4. UNCHANGED world /\ Inspected /\ Looking
    BY DEF Decide, Inspected, Looking, Busy
  \* An observation is of the process that was inspected.
  <1>5. ~audits[id].intent => id[2] = check.proc /\ check.proc # None
    <2>1. ~audits[id].intent => check.of = None
      BY <1>4 DEF Spared, Subject
    <2>2. check.of = None => id = <<check.key, check.proc>>
      BY DEF Subject
    <2>3. id[2] \in Procs
      BY <1>2, IdParts
    <2> QED  BY <2>1, <2>2, <2>3 DEF CleanupAssumption
  <1> HIDE DEF id, b
  <1>6. CASE Settles(id, b)
    <2>1. QuietOrders'
      BY <1>4, <1>6 DEF Settles, Quiet, QuietOrders, Evidence, world
    <2>2. QuietCheck'
      BY <1>6 DEF Settles, QuietCheck, Inspected
    <2>3. ASSUME NEW i \in Ids, Observing(i)'
          PROVE  Evidence(i[2], audits[i].base, audits[i].age)'
      <3>1. CASE audits'[i] = audits[i]
        BY <1>4, <2>3, <3>1 DEF Quiet, QuietAudits, Observing, Evidence, world
      <3>2. CASE audits'[i] # audits[i]
        <4>1. i = id /\ (audits'[i] = b \/ (b.phase = "confirmed" /\ audits'[i] = Final(b)))
          BY <1>2, <1>6, <3>2 DEF Settles, TypeOK
        <4>2. audits'[i] = b /\ b.phase = "observing"
          BY <1>2, <2>3, <4>1, FinalAudit DEF Observing
        <4>3. Evidence(check.proc, check.mark, 0) /\ id[2] = check.proc
          BY <1>3, <1>4, <1>5, <4>2 DEF Quiet, QuietCheck
        <4>4. CASE b.age = 0
          BY <1>3, <1>4, <4>1, <4>2, <4>3, <4>4 DEF Evidence, world
        <4>5. CASE Observing(id) /\ audits[id].base = check.mark /\ b.age = audits[id].age
          <5>1. Evidence(id[2], audits[id].base, audits[id].age)
            BY <1>2, <4>5 DEF Quiet, QuietAudits
          <5> QED  BY <1>3, <1>4, <4>1, <4>2, <4>5, <5>1 DEF Evidence, world
        <4> QED  BY <1>3, <4>2, <4>4, <4>5
      <3> QED  BY <3>1, <3>2
    <2> QED  BY <2>1, <2>2, <2>3 DEF Quiet, QuietAudits, Evidence, Observing
  <1>7. CASE Asks(id, b)
    <2>1. QuietCheck'
      BY <1>7 DEF Asks, QuietCheck, Inspected
    <2>2. QuietAudits'
      <3> DEFINE w == [Final(b) EXCEPT !.phase = "signal_intent", !.intent = TRUE]
      <3>1. w.phase = "signal_intent"
        BY <1>2, FinalAudit DEF Audit
      <3>2. audits' = [audits EXCEPT ![id] = w]
        BY <1>7 DEF Asks
      <3> HIDE DEF w
      <3>3. \A i \in Ids : Observing(i)' => audits'[i] = audits[i]
        BY <1>2, <3>1, <3>2 DEF Observing, TypeOK
      <3> QED  BY <1>4, <3>3 DEF Quiet, QuietAudits, Observing, Evidence, world
    <2>3. QuietOrders'
      <3>1. Evidence(id[2], b.base, Minimum)
        <4>1. Evidence(id[2], b.base, audits[id].age) /\ audits[id].age >= Minimum
          BY <1>2, <1>3, <1>7 DEF Asks, Quiet, QuietAudits
        <4>2. quiet \in Nat /\ audits[id].age \in Nat /\ Minimum \in Nat
          BY <1>2, AuditFields DEF TypeOK, Ages, CleanupAssumption
        <4> QED  BY <4>1, <4>2 DEF Evidence
      <3>2. \A o \in orders' : o \in orders \/ (o.id = id /\ o.base = b.base)
        BY <1>7 DEF Asks
      <3> QED  BY <1>4, <3>1, <3>2 DEF Quiet, QuietOrders, Evidence, world
    <2> QED  BY <2>1, <2>2, <2>3 DEF Quiet
  <1> QED  BY <1>1, <1>6, <1>7 DEF id, b

\* Every step keeps the evidence of quiet.
LEMMA QuietStep ==
    ASSUME CleanupAssumption, TypeOK, TypeOK', Spared, Quiet, [Next]_vars
    PROVE  Quiet'
  <1>0. \A id \in Ids : audits[id] \in Audit
    BY DEF TypeOK
  <1>1. CASE World
    BY <1>1, QuietWorld
  <1>2. CASE Decide
    BY <1>2, QuietDecide
  <1>3. CASE Select \/ \E id \in Ids : Follow(id)
    <2>1. UNCHANGED <<world, orders, audits>> /\ check'.stage = "inspect"
      BY <1>3 DEF Select, Follow, Look
    <2> QED  BY <2>1, QuietKept DEF Inspected
  <1>4. CASE Inspect
    <2>1. UNCHANGED <<world, orders, audits>> /\ check'.proc = proc /\ check'.mark = mark /\ ~Inspected
      BY <1>4 DEF Inspect, Inspected
    <2> QED  BY <2>1, QuietKept
  <1>5. CASE InspectFails \/ Terminated \/ NoAnswer
    <2>1. UNCHANGED <<world, orders>> /\ check' = None
      BY <1>5 DEF InspectFails, Terminated, NoAnswer
    <2>2. ASSUME NEW id \in Ids, Observing(id)'
          PROVE  audits'[id] = audits[id]
      <3>1. CASE InspectFails
        <4>1. audits' = audits \/ audits' = [audits EXCEPT ![check.of].phase = "uncertain"]
          BY <3>1 DEF InspectFails
        <4> QED  BY <1>0, <2>2, <4>1 DEF Observing, Audit, TypeOK
      <3>2. CASE Terminated \/ NoAnswer
        <4>1. \E o \in {"terminated", "uncertain", "signal_intent"} :
                 audits' = [audits EXCEPT ![check.id].phase = o]
          BY <3>2 DEF Terminated, NoAnswer
        <4> QED  BY <1>0, <2>2, <4>1 DEF Observing, Audit, TypeOK
      <3> QED  BY <1>5, <3>1, <3>2
    <2> QED  BY <2>1, <2>2, QuietKept DEF Inspected
  <1>6. CASE DecideGone
    <2>1. UNCHANGED <<world, orders, audits>> /\ check' = None
      BY <1>6 DEF DecideGone
    <2> QED  BY <2>1, QuietKept DEF Inspected
  <1>7. CASE Restart
    <2>1. UNCHANGED <<world, orders>> /\ check' = None
      BY <1>7 DEF Restart
    <2>2. \A id \in Ids : ~Observing(id)'
      BY <1>7, LoadedAudit DEF Restart, Observing
    <2> QED  BY <2>1, <2>2, QuietKept DEF Inspected
  <1>8. CASE SetCleanupPolicy \/ Waiter \/ Allocate \/ Release
    <2>1. UNCHANGED <<world, orders, audits, check>>
      BY <1>8 DEF SetCleanupPolicy, Waiter, Allocate, Release
    <2> QED  BY <2>1, QuietKept
  <1>9. CASE Configure
    <2>1. UNCHANGED <<world, orders, audits>>
      BY <1>9 DEF Configure
    <2>2. CASE check' = check
      BY <2>1, <2>2, QuietKept
    <2>3. CASE check' # check
      <3>1. Busy /\ ~Locked /\ check' = [check EXCEPT !.moved = TRUE]
        BY <1>9, <2>3 DEF Configure
      <3>2. CASE check \in Deciding
        <4>1. check'.proc = check.proc /\ check'.mark = check.mark /\ Inspected
          BY <3>1, <3>2 DEF Deciding, Inspected, Busy
        <4>2. QuietCheck'
          BY <2>1, <4>1 DEF Quiet, QuietCheck, Evidence, world
        <4> QED  BY <2>1, <4>2 DEF Quiet, QuietAudits, QuietOrders, Observing, Evidence, world
      <3>3. CASE check \in Inspecting
        <4>1. check'.stage = "inspect"
          BY <3>1, <3>3 DEF Inspecting
        <4> QED  BY <2>1, <4>1, QuietKept DEF Inspected
      <3> QED  BY <3>1, <3>2, <3>3 DEF TypeOK, Busy, Locked, Requesting
    <2> QED  BY <2>2, <2>3
  <1>10. CASE Script
    <2>1. UNCHANGED <<world, audits>> /\ orders' \subseteq orders
      BY <1>10 DEF Script, Prepare, Signal, Breaks
    <2>2. check' = check \/ ~Inspected'
      <3>1. check' = check \/ (Locked /\ check' = [check EXCEPT !.done = TRUE])
        BY <1>10 DEF Script, Prepare, Signal, Breaks, Answered
      <3>2. Locked /\ check' = [check EXCEPT !.done = TRUE] => check'.stage = "terminate"
        BY StageTypes DEF Requesting
      <3> QED  BY <3>1, <3>2 DEF Inspected
    <2> QED  BY <2>1, <2>2, QuietKept
  <1>11. CASE UNCHANGED vars
    BY <1>11, QuietKept DEF vars
  <1> QED  BY <1>1, <1>2, <1>3, <1>4, <1>5, <1>6, <1>7, <1>8, <1>9, <1>10, <1>11
           DEF Next, Checks, Operators

\* A process that is taken hold of, to be signalled, has made no progress for
\* the whole minimum, also between two observations of it.
THEOREM HeldOnlyAfterQuiet ==
    ASSUME CleanupAssumption
    PROVE  Spec => HeldAfterQuiet
  <1>1. Init => Spared /\ Quiet
    <2> SUFFICES ASSUME Init PROVE Spared /\ Quiet
      OBVIOUS
    <2>1. ~Busy /\ orders = {} /\ \A id \in Ids : audits[id].phase = None
      BY DEF Init, Busy, NoAudit
    <2> QED  BY <2>1 DEF Spared, Looking, Locked, HeldMachinesSpared, Quiet, QuietAudits, QuietOrders,
                         QuietCheck, Inspected, Busy, Observing, CleanupAssumption, Phases
  <1>2. TypeOK /\ TypeOK' /\ Spared /\ Quiet /\ [Next]_vars => Spared' /\ Quiet'
    BY SparedStep, QuietStep
  <1>3. TypeOK /\ Quiet /\ [Next]_vars => [HeldWhenQuiet]_vars
    <2> SUFFICES ASSUME TypeOK, Quiet, Next, receipts' # receipts
                 PROVE  quiet >= Minimum
      BY DEF HeldWhenQuiet
    <2>1. PICK o \in orders : Prepare(o)
      BY DEF Next, Checks, InspectFails, World, Operators, Script, Restart, Select, Follow, Inspect,
             Decide, DecideGone, Terminated, NoAnswer, Progress, Looks, Exits, Starts, Minute,
             SetCleanupPolicy, Waiter, Allocate, Release, Configure, Signal, Breaks, remote
    <2>2. Viable(o.id, o.base)
      BY <2>1 DEF Prepare
    <2> QED  BY <2>2 DEF Viable, Quiet, QuietOrders, Evidence
  <1>4. Spec => []TypeOK
    BY CleanupTypes
  <1> QED  BY <1>1, <1>2, <1>3, <1>4, PTL DEF Spec, HeldAfterQuiet

=============================================================================
