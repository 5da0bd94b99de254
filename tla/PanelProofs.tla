----------------------------- MODULE PanelProofs -----------------------------
(***************************************************************************)
(* What panels of the page promise, for every value of their constants: the *)
(* dialog of one-off execution, the list of experiments, the panel of the   *)
(* cleanup, the pages of the grid with their rotation, and the dialog of    *)
(* the SSH terminal.  Each is an instance with its variables under their    *)
(* own names.  The panels have nothing to do with each other: a theorem is  *)
(* about one of them, and two may call different things by one name.        *)
(***************************************************************************)
EXTENDS Naturals, FiniteSets, Sequences, FiniteSetTheorems, TLAPS

CONSTANTS
    None,
    Batches, MaxOvertaken, Keep, MaxRuns, LossyRequests,              \* execution
    MaxChanges, MaxControls,                                        \* experiments
    Audits, Sequences, MaxChecks, MaxSwitches, Slow, Lossy,         \* cleanup
    Machines, MachineLists, Queries, Sizes, Rates, Blockers,        \* the grid
    Targets, MaxOld, MaxSessions, ChunkSizes, MaxBuffered, MaxTyped \* the terminal

VARIABLES
    run, seen, order, active, done, starts, token, opening, prepared, submitting,
    jobID, drawn, select, wanted, unanswered, queries, poll,
    controls, capable, message, shown, told, reads, control, confirmed, doubt,
    policy, writes, status, available, selected, audit, sequence, unfolded,
    reading, loads, late, doubted,
    machines, query, size, page, pageCount, paginationKey, seconds, left, blockers, quiet,
    open, machine, terminal, socket, listing, checking, conns, refused,
    post, version, busy, clicks     \* of several panels

Exec == INSTANCE ExecutionPanel WITH
    IDs <- Batches, MaxOld <- MaxOvertaken, Lossy <- LossyRequests
Waits == INSTANCE ContinuationPanel WITH MaxVersion <- MaxChanges, MaxClicks <- MaxControls
Policy == INSTANCE CleanupPanel WITH MaxVersion <- MaxChecks, MaxClicks <- MaxSwitches
Pager == INSTANCE Paging
Term == INSTANCE Terminal WITH
    Machines <- Targets, Slots <- MaxSessions, Sizes <- ChunkSizes,
    Buffer <- MaxBuffered, Typed <- MaxTyped

-----------------------------------------------------------------------------
(* One-off execution: a reviewed batch is executed once at most, for any    *)
(* number of batches, runs of the program and reloads, and any loss of      *)
(* requests and answers.                                                    *)

LEMMA OneOfIsIn ==
    ASSUME NEW S, NEW x \in Exec!OneOf(S)
    PROVE  x \in S
  BY DEF Exec!OneOf

Posts == [stage: {"sent", "accepted", "refused"}, id: Batches]

\* A batch the page may still submit, and that was started, is known to this
\* run of the program, or the page has the token of an earlier run.
Refusable(id) == starts[id] # 0 => id \in seen \/ token # run
ExecInv ==
    /\ run \in Nat /\ token \in Nat /\ token <= run
    /\ starts \in [Batches -> Nat] /\ prepared \in Batches \cup {None} /\ post \in {None} \cup Posts
    /\ \A id \in Batches : starts[id] <= 1
    /\ prepared # None => Refusable(prepared)
    /\ post # None => Refusable(post.id)

\* A step that starts nothing, loses nothing that was executed, and names no
\* batch that was not named.
LEMMA NamesKept ==
    ASSUME Exec!ExecutionAssumption, ExecInv, UNCHANGED <<run, seen, starts, token>>,
           prepared' = prepared \/ prepared' = None,
           post' = post \/ post' = None \/ (post # None /\ post' \in Posts /\ post'.id = post.id)
    PROVE  ExecInv'
  BY DEF ExecInv, Refusable

\* The start of a batch, which is refused when it was started before.
LEMMA ExecStart ==
    ASSUME Exec!ExecutionAssumption, ExecInv, Exec!Start
    PROVE  ExecInv'
  <1>1. post # None /\ post \in Posts /\ post.id \in Batches /\ UNCHANGED <<token, prepared>>
    BY DEF Exec!Start, ExecInv, Posts, Exec!form
  <1>2. \A t \in {"accepted", "refused"} : Exec!Answer(t, post) \in Posts /\ Exec!Answer(t, post).id = post.id
    BY <1>1 DEF Exec!Answer, Posts
  <1>3. post' \in Posts /\ post'.id = post.id
    BY <1>2 DEF Exec!Start, Exec!Refused
  <1>4. CASE UNCHANGED Exec!executor
    BY <1>1, <1>3, <1>4, NamesKept DEF Exec!executor
  <1>5. CASE /\ token = run /\ post.id \notin seen /\ seen' = seen \cup {post.id}
             /\ starts' = [starts EXCEPT ![post.id] = @ + 1] /\ UNCHANGED run
    <2>1. starts[post.id] = 0
      BY <1>1, <1>5 DEF ExecInv, Refusable
    <2>2. starts' \in [Batches -> Nat] /\ starts'[post.id] = 1
          /\ \A id \in Batches \ {post.id} : starts'[id] = starts[id]
      BY <1>1, <1>5, <2>1 DEF ExecInv
    <2>3. ASSUME NEW id \in Batches, Refusable(id) PROVE Refusable(id)'
      BY <1>1, <1>5, <2>2, <2>3 DEF Refusable
    <2>4. \A id \in Batches : starts'[id] <= 1
      BY <2>2 DEF ExecInv
    <2>5. prepared' # None => Refusable(prepared)'
      BY <1>1, <2>3 DEF ExecInv, Refusable
    <2>6. post' # None => Refusable(post.id)'
      BY <1>1, <1>3, <1>5 DEF Refusable
    <2> QED  BY <1>1, <1>3, <1>5, <2>2, <2>4, <2>5, <2>6 DEF ExecInv
  <1> QED  BY <1>4, <1>5 DEF Exec!Start, Exec!Known

\* Every step keeps the invariant of the dialog of execution.
LEMMA ExecNext ==
    ASSUME Exec!ExecutionAssumption, ExecInv, [Exec!Next]_(Exec!vars)
    PROVE  ExecInv'
  <1>1. CASE Exec!Start
    BY <1>1, ExecStart
  <1>2. CASE Exec!Restart
    <2>1. run' = run + 1 /\ UNCHANGED <<token, starts, prepared, post>>
      BY <1>2 DEF Exec!Restart, Exec!form, Exec!net
    <2>2. token' # run'
      BY <2>1 DEF ExecInv
    <2> QED  BY <2>1, <2>2 DEF ExecInv, Refusable
  <1>3. CASE Exec!Reload
    BY <1>3 DEF Exec!Reload, Exec!executor, ExecInv
  <1>4. CASE Exec!review
    <2>1. prepared' \in Batches /\ starts[prepared'] = 0
      BY <1>4, OneOfIsIn DEF Exec!review
    <2>2. UNCHANGED <<run, seen, starts, token, post>>
      BY <1>4 DEF Exec!review, Exec!executor, Exec!net
    <2> QED  BY <2>1, <2>2 DEF ExecInv, Refusable
  <1>5. CASE Exec!submit
    <2>1. prepared \in Batches /\ post' = [stage |-> "sent", id |-> prepared] /\ Refusable(prepared)
      BY <1>5 DEF Exec!submit, ExecInv
    <2>2. UNCHANGED <<run, seen, starts, token, prepared>>
      BY <1>5 DEF Exec!submit, Exec!executor
    <2>3. post' \in Posts /\ post'.id = prepared
      BY <2>1 DEF Posts
    <2> QED  BY <2>1, <2>2, <2>3 DEF ExecInv, Refusable
  <1>6. Exec!Finish \/ Exec!PollServed \/ (\E q \in queries : Exec!ListServed(q) \/ Exec!DetailServed(q)) => ExecInv'
    BY NamesKept DEF Exec!Finish, Exec!PollServed, Exec!ListServed, Exec!DetailServed,
           Exec!executor, Exec!form, Exec!net
  <1>7. Exec!Submitted \/ Exec!Polled \/ Exec!Opened => ExecInv'
    BY NamesKept DEF Exec!Submitted, Exec!Polled, Exec!Opened, Exec!executor, Exec!form
  <1>8. (\E q \in queries : Exec!ListArrives(q) \/ Exec!DetailArrives(q) \/ Exec!QueryFails(q)) => ExecInv'
    BY NamesKept DEF Exec!ListArrives, Exec!DetailArrives, Exec!QueryFails,
           Exec!executor, Exec!form
  <1>9. Exec!edit \/ Exec!Open \/ Exec!OpeningFails \/ Exec!Choose \/ Exec!Refresh => ExecInv'
    BY NamesKept DEF Exec!edit, Exec!Open, Exec!OpeningFails, Exec!Choose, Exec!Refresh,
           Exec!executor, Exec!form, Exec!net
  <1>10. Exec!Poll \/ Exec!NotSubmitted \/ Exec!PollFails => ExecInv'
    BY NamesKept DEF Exec!Poll, Exec!NotSubmitted, Exec!PollFails, Exec!executor, Exec!form
  <1>11. UNCHANGED Exec!vars => ExecInv'
    BY NamesKept DEF Exec!vars, Exec!executor, Exec!form, Exec!net
  <1> QED  BY <1>1, <1>2, <1>3, <1>4, <1>5, <1>6, <1>7, <1>8, <1>9, <1>10, <1>11
           DEF Exec!Next, Exec!Executes, Exec!Arrives, Exec!Reader

\* A reviewed batch is started at most once, through lost answers, repeated
\* submissions, evicted results, restarts and reloads.
THEOREM ExecutedOnce ==
    ASSUME Exec!ExecutionAssumption
    PROVE  Exec!Spec => []Exec!OnceOnly
  <1>1. Exec!Init => ExecInv
    BY DEF Exec!Init, ExecInv
  <1>2. ExecInv /\ [Exec!Next]_(Exec!vars) => ExecInv'
    BY ExecNext
  <1>3. ExecInv => Exec!OnceOnly
    BY DEF ExecInv, Exec!OnceOnly
  <1> QED  BY <1>1, <1>2, <1>3, PTL DEF Exec!Spec

\* The requests of jobs(), the poll, and what they are answered with.
Results == [id: Batches, done: BOOLEAN]
Inquiry == [gen: 0 .. MaxOvertaken, by: {"submit", "reader"}, stage: {"list"}, of: {None},
            reply: {None} \cup Seq(Batches)]
           \cup [gen: 0 .. MaxOvertaken, by: {"submit", "reader"}, stage: {"detail"}, of: Batches,
                 reply: {None} \cup Results]
\* The executor keeps no more batches than it may, and runs one it keeps.
ExecutorTyped ==
    /\ run \in 1 .. MaxRuns /\ order \in Seq(Batches) /\ seen \subseteq Batches
    /\ Exec!Kept \subseteq seen /\ Len(order) <= Keep
    /\ active \in Exec!Kept \cup {None} /\ done \subseteq seen /\ unanswered \subseteq Exec!Kept
PageTyped ==
    /\ token \in 1 .. run
    /\ opening \in BOOLEAN /\ submitting \in BOOLEAN /\ prepared \in Batches \cup {None}
    /\ jobID \in Batches \cup {None} /\ drawn \in {None} \cup Results
    /\ select \in {None} \cup Exec!Lists /\ wanted \in Batches \cup {None}
    /\ post \in {None} \cup Posts
NetTyped ==
    /\ queries \subseteq Inquiry
    /\ poll \in {None} \cup [of: Batches, reply: {None} \cup Results]
ExecTyped == ExecutorTyped /\ PageTyped /\ NetTyped

LEMMA ExecTypesAre == ExecTyped => Exec!TypeOK
  <1> SUFFICES ASSUME ExecutorTyped, PageTyped, NetTyped PROVE Exec!TypeOK
    BY DEF ExecTyped
  <1>1. \A q \in queries : q.gen \in 0 .. MaxOvertaken /\ q.stage \in {"list", "detail"}
    BY DEF NetTyped, Inquiry
  <1>2. post = None \/ (post.stage \in {"sent", "accepted", "refused"} /\ post.id \in Batches)
    BY DEF PageTyped, Posts
  <1>3. drawn \in Exec!Drawn
    BY DEF PageTyped, Exec!Drawn, Results
  <1> QED  BY <1>1, <1>2, <1>3 DEF ExecutorTyped, PageTyped, Exec!TypeOK

\* A request of jobs() is a record, with a generation that counts.
Asked(q) ==
    /\ q = [gen |-> q.gen, by |-> q.by, stage |-> q.stage, of |-> q.of, reply |-> q.reply]
    /\ q.gen \in Nat
\* The requests of jobs() on their way, each with its stage, its batch and its answer.
LEMMA InquiryIs ==
    ASSUME NEW q \in Inquiry
    PROVE  /\ Asked(q) /\ q.gen \in 0 .. MaxOvertaken /\ q.by \in {"submit", "reader"}
           /\ \/ q.stage = "list" /\ q.of = None /\ q.reply \in {None} \cup Seq(Batches)
              \/ q.stage = "detail" /\ q.of \in Batches /\ q.reply \in {None} \cup Results
  BY DEF Inquiry, Asked

\* What jobs() makes of the requests on their way, and the one it adds.
Overtaken(q) ==
    [gen |-> q.gen + 1, by |-> q.by, stage |-> q.stage, of |-> q.of, reply |-> q.reply]
Latest(by) == [gen |-> 0, by |-> by, stage |-> "list", of |-> None, reply |-> None]
LEMMA QueryAdds ==
    ASSUME NetTyped, NEW by, Exec!Query(by)
    PROVE  queries' = {Overtaken(q) : q \in queries} \cup {Latest(by)}
  <1>1. ASSUME NEW q \in queries PROVE [q EXCEPT !.gen = @ + 1] = Overtaken(q)
    <2> DEFINE e == [gen |-> q.gen, by |-> q.by, stage |-> q.stage, of |-> q.of, reply |-> q.reply]
               n == q.gen + 1
    <2>1. q = e
      BY InquiryIs DEF NetTyped, Asked
    <2>2. e.gen = q.gen
      OBVIOUS
    <2>3. [e EXCEPT !.gen = n] =
              [gen |-> n, by |-> q.by, stage |-> q.stage, of |-> q.of, reply |-> q.reply]
      OBVIOUS
    <2>4. [q EXCEPT !.gen = @ + 1] = [q EXCEPT !.gen = n]
      BY DEF n
    <2> HIDE DEF e
    <2> QED  BY <2>1, <2>3, <2>4 DEF Overtaken
  <1>2. queries' = {[q EXCEPT !.gen = @ + 1] : q \in queries} \cup {Latest(by)}
    BY Zenon DEF Exec!Query, Exec!jobQuery, Latest
  <1>3. {[q EXCEPT !.gen = @ + 1] : q \in queries} = {Overtaken(q) : q \in queries}
    BY <1>1, Zenon
  <1> QED  BY <1>2, <1>3

LEMMA QueryTyped ==
    ASSUME Exec!ExecutionAssumption, NetTyped, NEW by \in {"submit", "reader"}, Exec!Query(by)
    PROVE  queries' \subseteq Inquiry
  <1>1. MaxOvertaken \in Nat
    BY DEF Exec!ExecutionAssumption
  <1>2. Latest(by) \in Inquiry
    BY <1>1 DEF Latest, Inquiry
  <1>3. ASSUME NEW q \in queries PROVE Overtaken(q) \in Inquiry
    <2>1. q \in Inquiry /\ q.gen < MaxOvertaken
      BY DEF NetTyped, Exec!Query
    <2>2. q.gen + 1 \in 0 .. MaxOvertaken
      BY <1>1, <2>1, InquiryIs
    <2> QED  BY <2>1, <2>2, InquiryIs DEF Overtaken, Inquiry
  <1> QED  BY <1>2, <1>3, QueryAdds

\* A request with another answer, and one with another stage and batch too.
LEMMA AnswerAdded ==
    ASSUME NEW q, Asked(q), NEW a
    PROVE  [q EXCEPT !.reply = a] =
               [gen |-> q.gen, by |-> q.by, stage |-> q.stage, of |-> q.of, reply |-> a]
  <1> DEFINE e == [gen |-> q.gen, by |-> q.by, stage |-> q.stage, of |-> q.of, reply |-> q.reply]
  <1>1. q = e
    BY DEF Asked
  <1>2. [e EXCEPT !.reply = a] =
            [gen |-> q.gen, by |-> q.by, stage |-> q.stage, of |-> q.of, reply |-> a]
    OBVIOUS
  <1> HIDE DEF e
  <1> QED  BY <1>1, <1>2
LEMMA DetailAsked ==
    ASSUME NEW q, Asked(q), NEW o
    PROVE  [q EXCEPT !.stage = "detail", !.reply = None, !.of = o] =
               [gen |-> q.gen, by |-> q.by, stage |-> "detail", of |-> o, reply |-> None]
  <1> DEFINE d == [gen |-> q.gen, by |-> q.by, stage |-> q.stage, of |-> q.of, reply |-> q.reply]
             e == [gen |-> q.gen, by |-> q.by, stage |-> "detail", of |-> q.of, reply |-> q.reply]
             f == [gen |-> q.gen, by |-> q.by, stage |-> "detail", of |-> q.of, reply |-> None]
             g == [gen |-> q.gen, by |-> q.by, stage |-> "detail", of |-> o, reply |-> None]
  <1>1. q = d
    BY DEF Asked
  <1>2. [d EXCEPT !.stage = "detail"] = e
    OBVIOUS
  <1>3. [e EXCEPT !.reply = None] = f
    OBVIOUS
  <1>4. [f EXCEPT !.of = o] = g
    OBVIOUS
  <1> HIDE DEF d, e, f, g
  <1>5. [[[q EXCEPT !.stage = "detail"] EXCEPT !.reply = None] EXCEPT !.of = o] = g
    BY <1>1, <1>2, <1>3, <1>4
  <1>6. [q EXCEPT !.stage = "detail", !.reply = None, !.of = o] = g
    BY <1>5
  <1> QED  BY <1>6 DEF g

\* A batch that is started: the others stay as far as they are kept.
LEMMA BatchAppended ==
    ASSUME Exec!ExecutionAssumption, order \in Seq(Batches), NEW id \in Batches,
           order' = Append(IF Len(order) >= Keep THEN Tail(order) ELSE order, id)
    PROVE  order' \in Seq(Batches) /\ Exec!Kept' \subseteq Exec!Kept \cup {id} /\ id \in Exec!Kept'
  <1>1. Keep \in Nat \ {0}
    BY DEF Exec!ExecutionAssumption
  <1>2. CASE Len(order) >= Keep
    <2>1. order # << >> /\ order' = Append(Tail(order), id)
      BY <1>1, <1>2
    <2>2. /\ order' \in Seq(Batches) /\ Len(order') = Len(order) /\ Len(order) > 0
          /\ order'[Len(order)] = id
          /\ \A i \in 1 .. Len(order) - 1 : order'[i] = order[i + 1]
      BY <2>1
    <2>3. PICK n \in Nat : n = Len(order)
      OBVIOUS
    <2>4. DOMAIN order' = 1 .. n /\ DOMAIN order = 1 .. n
      BY <2>2, <2>3
    <2>5. ASSUME NEW i \in 1 .. n PROVE order'[i] = id \/ order'[i] \in Exec!Kept
      <3>1. CASE i = n
        BY <2>2, <2>3, <3>1
      <3>2. CASE i # n
        <4>1. i \in 1 .. n - 1 /\ i + 1 \in 1 .. n
          BY <3>2
        <4>2. order'[i] = order[i + 1]
          BY <2>2, <2>3, <4>1
        <4> QED  BY <2>4, <4>1, <4>2 DEF Exec!Kept, Exec!ToSet
      <3> QED  BY <3>1, <3>2
    <2>6. Exec!Kept' = {order'[i] : i \in 1 .. n}
      BY <2>4 DEF Exec!Kept, Exec!ToSet
    <2>7. n \in 1 .. n /\ order'[n] = id
      BY <2>2, <2>3
    <2> QED  BY <2>2, <2>5, <2>6, <2>7
  <1>3. CASE ~(Len(order) >= Keep)
    <2>1. /\ order' \in Seq(Batches) /\ Len(order') = Len(order) + 1
          /\ order'[Len(order) + 1] = id
          /\ \A i \in 1 .. Len(order) : order'[i] = order[i]
      BY <1>3
    <2>2. /\ DOMAIN order' = 1 .. Len(order) + 1 /\ DOMAIN order = 1 .. Len(order)
          /\ Len(order) \in Nat
      BY <2>1
    <2>3. ASSUME NEW i \in DOMAIN order' PROVE order'[i] = id \/ order'[i] \in Exec!Kept
      <3>1. i = Len(order) + 1 \/ i \in DOMAIN order
        BY <2>2
      <3>2. i \in DOMAIN order => order'[i] = order[i]
        BY <2>1, <2>2
      <3> QED  BY <2>1, <3>1, <3>2 DEF Exec!Kept, Exec!ToSet
    <2>4. Exec!Kept' = {order'[i] : i \in DOMAIN order'} /\ Len(order) + 1 \in DOMAIN order'
      BY <2>2 DEF Exec!Kept, Exec!ToSet
    <2> QED  BY <2>1, <2>3, <2>4
  <1> QED  BY <1>2, <1>3

LEMMA ExecutorSteps ==
    ASSUME Exec!ExecutionAssumption, ExecutorTyped, PageTyped, NetTyped,
           Exec!Start \/ Exec!Finish \/ Exec!Restart
    PROVE  ExecutorTyped' /\ PageTyped' /\ NetTyped'
  <1>0. Keep \in Nat \ {0} /\ MaxRuns \in Nat \ {0}
    BY DEF Exec!ExecutionAssumption
  <1>1. CASE Exec!Start
    <2>1. UNCHANGED <<run, token, opening, prepared, submitting, jobID, drawn, select, wanted,
                      queries, poll>> /\ unanswered' = unanswered \cap Exec!Kept'
      BY <1>1 DEF Exec!Start, Exec!form, Exec!executor, Exec!results, Exec!choice
    <2>2. post \in Posts /\ post.id \in Batches
      BY <1>1 DEF Exec!Start, PageTyped, Posts
    <2>3. post' \in Posts
      <3>1. Exec!Answer("accepted", post) \in Posts /\ Exec!Refused \in Posts
        BY <2>2 DEF Exec!Answer, Exec!Refused, Posts
      <3> QED  BY <1>1, <3>1 DEF Exec!Start
    <2>4. ExecutorTyped'
      <3>1. CASE UNCHANGED Exec!executor
        BY <2>1, <3>1 DEF Exec!executor, ExecutorTyped, Exec!Kept
      <3>2. CASE /\ active = None /\ seen' = seen \cup {post.id}
                 /\ order' = Append(IF Len(order) >= Keep THEN Tail(order) ELSE order, post.id)
                 /\ active' = post.id /\ UNCHANGED <<run, done>>
        <4>1. order' \in Seq(Batches) /\ Exec!Kept' \subseteq Exec!Kept \cup {post.id}
              /\ post.id \in Exec!Kept'
          BY <2>2, <3>2, BatchAppended DEF ExecutorTyped
        <4>2. Len(order') <= Keep
          <5>1. order \in Seq(Batches) /\ Len(order) <= Keep /\ Len(order) \in Nat
            BY DEF ExecutorTyped
          <5>2. CASE Len(order) >= Keep
            <6>1. order # << >> /\ order' = Append(Tail(order), post.id)
              BY <1>0, <3>2, <5>1, <5>2
            <6> QED  BY <2>2, <5>1, <6>1
          <5>3. CASE ~(Len(order) >= Keep)
            <6>1. order' = Append(order, post.id)
              BY <3>2, <5>3
            <6> QED  BY <1>0, <2>2, <5>1, <5>3, <6>1
          <5> QED  BY <5>2, <5>3
        <4> QED  BY <2>1, <2>2, <3>2, <4>1, <4>2 DEF ExecutorTyped
      <3> QED  BY <1>1, <3>1, <3>2 DEF Exec!Start
    <2> QED  BY <2>1, <2>3, <2>4 DEF PageTyped, NetTyped
  <1>2. CASE Exec!Finish
    <2>1. UNCHANGED <<run, seen, order, token, opening, prepared, submitting, jobID, drawn,
                      select, wanted, unanswered, post, queries, poll>>
          /\ active # None /\ active' = None /\ done' = done \cup {active}
      BY <1>2 DEF Exec!Finish, Exec!form, Exec!net, Exec!results, Exec!choice
    <2> QED  BY <2>1 DEF ExecutorTyped, PageTyped, NetTyped, Exec!Kept
  <1>3. CASE Exec!Restart
    <2>1. UNCHANGED <<token, opening, prepared, submitting, jobID, drawn, select, wanted,
                      post, queries, poll>>
          /\ run < MaxRuns /\ run' = run + 1 /\ seen' = {} /\ order' = << >>
          /\ active' = None /\ done' = {} /\ unanswered' = {}
      BY <1>3 DEF Exec!Restart, Exec!form, Exec!net, Exec!results, Exec!choice
    <2>2. Exec!Kept' = {} /\ order' \in Seq(Batches) /\ Len(order') = 0
      BY <2>1 DEF Exec!Kept, Exec!ToSet
    <2>3. ExecutorTyped'
      BY <1>0, <2>1, <2>2 DEF ExecutorTyped
    <2>4. token' \in 1 .. run'
      BY <2>1 DEF ExecutorTyped, PageTyped
    <2> QED  BY <2>1, <2>3, <2>4 DEF PageTyped, NetTyped
  <1> QED  BY <1>1, <1>2, <1>3

LEMMA BatchTyped ==
    ASSUME NEW id \in Batches
    PROVE  Exec!Batch(id) \in Results /\ Exec!Batch(id).id = id
  BY DEF Exec!Batch, Results

LEMMA ServedTyped ==
    ASSUME Exec!ExecutionAssumption, ExecutorTyped, PageTyped, NetTyped,
           Exec!PollServed \/ \E q \in queries : Exec!ListServed(q) \/ Exec!DetailServed(q)
    PROVE  ExecutorTyped' /\ PageTyped' /\ NetTyped'
  <1>0. UNCHANGED <<run, seen, order, active, done, token, opening, prepared, submitting,
                    jobID, drawn, select, wanted, unanswered, post>>
    BY DEF Exec!PollServed, Exec!ListServed, Exec!DetailServed, Exec!executor, Exec!form,
           Exec!results, Exec!choice
  <1>1. ExecutorTyped' /\ PageTyped'
    BY <1>0 DEF ExecutorTyped, PageTyped, Exec!Kept
  <1>2. CASE Exec!PollServed
    <2>1. poll # None /\ poll.of \in Batches /\ poll \in [of: Batches, reply: {None} \cup Results]
      BY <1>2 DEF Exec!PollServed, NetTyped
    <2>2. Exec!Batch(poll.of) \in {None} \cup Results
      BY <2>1, BatchTyped
    <2> DEFINE b == Exec!Batch(poll.of)
    <2> HIDE DEF b
    <2>3. poll' = [poll EXCEPT !.reply = b]
      BY <1>2 DEF Exec!PollServed, b
    <2>4. b \in {None} \cup Results
      BY <2>2 DEF b
    <2>5. poll' \in [of: Batches, reply: {None} \cup Results]
      BY <2>1, <2>3, <2>4
    <2>6. UNCHANGED queries
      BY <1>2 DEF Exec!PollServed
    <2> QED  BY <1>1, <2>5, <2>6 DEF NetTyped
  <1>3. CASE \E q \in queries : Exec!ListServed(q)
    <2>1. PICK q \in queries : Exec!ListServed(q)
      BY <1>3
    <2> DEFINE a == IF token = run THEN order ELSE << >>
    <2>2. a \in Seq(Batches)
      BY DEF ExecutorTyped
    <2> HIDE DEF a
    <2>3. queries' = (queries \ {q}) \cup {[q EXCEPT !.reply = a]} /\ q.stage = "list"
          /\ UNCHANGED poll
      BY <2>1 DEF Exec!ListServed, a
    <2>4. q \in Inquiry
      BY DEF NetTyped
    <2>5. [q EXCEPT !.reply = a] =
              [gen |-> q.gen, by |-> q.by, stage |-> q.stage, of |-> q.of, reply |-> a]
      BY <2>4, InquiryIs, AnswerAdded
    <2>6. [gen |-> q.gen, by |-> q.by, stage |-> q.stage, of |-> q.of, reply |-> a] \in Inquiry
      BY <2>2, <2>3, <2>4, InquiryIs DEF Inquiry
    <2>7. queries' \subseteq Inquiry
      BY <2>3, <2>5, <2>6 DEF NetTyped
    <2> QED  BY <1>1, <2>3, <2>7 DEF NetTyped
  <1>4. CASE \E q \in queries : Exec!DetailServed(q)
    <2>1. PICK q \in queries : Exec!DetailServed(q)
      BY <1>4
    <2> DEFINE b == Exec!Batch(q.of)
    <2> HIDE DEF b
    <2>2. queries' = (queries \ {q}) \cup {[q EXCEPT !.reply = b]} /\ q.stage = "detail"
          /\ UNCHANGED poll
      BY <2>1 DEF Exec!DetailServed, b
    <2>3. q \in Inquiry
      BY DEF NetTyped
    <2>4. Asked(q) /\ q.gen \in 0 .. MaxOvertaken /\ q.by \in {"submit", "reader"} /\ q.of \in Batches
      BY <2>2, <2>3, InquiryIs
    <2>5. b \in Results
      BY <2>4, BatchTyped DEF b
    <2>6. [q EXCEPT !.reply = b] =
              [gen |-> q.gen, by |-> q.by, stage |-> q.stage, of |-> q.of, reply |-> b]
      BY <2>4, AnswerAdded
    <2>7. [gen |-> q.gen, by |-> q.by, stage |-> q.stage, of |-> q.of, reply |-> b] \in Inquiry
      BY <2>2, <2>4, <2>5 DEF Inquiry
    <2>8. queries' \subseteq Inquiry
      BY <2>2, <2>6, <2>7 DEF NetTyped
    <2> QED  BY <1>1, <2>2, <2>8 DEF NetTyped
  <1> QED  BY <1>2, <1>3, <1>4

\* A step of the page that leaves the requests of jobs() alone, or drops one.
LEMMA PageMoves ==
    ASSUME Exec!ExecutionAssumption, ExecutorTyped, PageTyped, NetTyped, UNCHANGED Exec!executor,
           queries' \subseteq queries, poll' \in {poll, None}, UNCHANGED token,
           opening' \in BOOLEAN, submitting' \in BOOLEAN,
           prepared' \in Batches \cup {None},
           jobID' \in Batches \cup {None}, drawn' \in {None} \cup Results,
           select' \in {None} \cup Exec!Lists, wanted' \in Batches \cup {None},
           unanswered' \subseteq Exec!Kept,
           post' \in {None} \cup Posts
    PROVE  ExecutorTyped' /\ PageTyped' /\ NetTyped'
  BY DEF ExecutorTyped, PageTyped, NetTyped, Exec!executor, Exec!Kept

\* A step of the page that asks for the list anew.
LEMMA PageAsks ==
    ASSUME Exec!ExecutionAssumption, ExecutorTyped, PageTyped, NetTyped, UNCHANGED Exec!executor,
           UNCHANGED <<token, poll>>, NEW by \in {"submit", "reader"}, Exec!Query(by),
           opening' \in BOOLEAN, submitting' \in BOOLEAN,
           prepared' \in Batches \cup {None},
           jobID' \in Batches \cup {None}, drawn' \in {None} \cup Results,
           select' \in {None} \cup Exec!Lists, wanted' \in Batches \cup {None},
           unanswered' \subseteq Exec!Kept,
           post' \in {None} \cup Posts
    PROVE  ExecutorTyped' /\ PageTyped' /\ NetTyped'
  <1>1. queries' \subseteq Inquiry
    BY QueryTyped
  <1> QED  BY <1>1 DEF ExecutorTyped, PageTyped, NetTyped, Exec!executor, Exec!Kept

\* The reader of the dialog.
LEMMA ReaderTyped ==
    ASSUME Exec!ExecutionAssumption, ExecutorTyped, PageTyped, NetTyped,
           Exec!Reader \/ Exec!Opened \/ Exec!OpeningFails \/ Exec!Submitted \/ Exec!Reload
    PROVE  ExecutorTyped' /\ PageTyped' /\ NetTyped'
  <1>0. unanswered \subseteq Exec!Kept
    BY DEF ExecutorTyped
  <1> USE DEF Exec!results, Exec!choice
  <1>1. CASE Exec!review
    <2>1. prepared' \in Batches
      BY <1>1, OneOfIsIn DEF Exec!review
    <2> QED  BY <1>0, <1>1, <2>1, PageMoves DEF Exec!review, Exec!net, PageTyped
  <1>2. CASE Exec!edit \/ Exec!Open \/ Exec!OpeningFails
    BY <1>0, <1>2, PageMoves DEF Exec!edit, Exec!Open, Exec!OpeningFails, Exec!net, PageTyped
  <1>3. CASE Exec!submit
    <2>1. prepared \in Batches
      BY <1>3 DEF Exec!submit, PageTyped
    <2>2. post' \in Posts
      BY <1>3, <2>1 DEF Exec!submit, Posts
    <2> QED  BY <1>0, <1>3, <2>2, PageMoves DEF Exec!submit, PageTyped
  <1>4. CASE Exec!Opened
    <2>1. prepared' \in Batches \cup {None}
      BY <1>4 DEF Exec!Opened, PageTyped
    <2> QED  BY <1>0, <1>4, <2>1, PageAsks DEF Exec!Opened, PageTyped
  <1>5. CASE Exec!Choose
    <2>1. PICK id \in select.options :
              jobID' = id /\ select' = [select EXCEPT !.value = id] /\ wanted' = id
      BY <1>5 DEF Exec!Choose
    <2>2. select \in Exec!Lists /\ id \in Batches
      BY <1>5 DEF Exec!Choose, PageTyped, Exec!Lists
    <2>3. select' \in Exec!Lists /\ jobID' \in Batches /\ wanted' \in Batches
      BY <2>1, <2>2 DEF Exec!Lists
    <2> QED  BY <1>0, <1>5, <2>3, PageAsks DEF Exec!Choose, Exec!form, PageTyped
  <1>6. CASE Exec!Refresh
    BY <1>0, <1>6, PageAsks DEF Exec!Refresh, Exec!form, PageTyped
  <1>7. CASE Exec!Submitted
    <2>1. post.id \in Batches
      BY <1>7 DEF Exec!Submitted, PageTyped, Posts
    <2>2. jobID' \in Batches /\ drawn' \in Results /\ wanted' \in Batches
      BY <1>7, <2>1, BatchTyped DEF Exec!Submitted, Exec!renderJob
    <2> QED  BY <1>0, <1>7, <2>2, PageAsks DEF Exec!Submitted, PageTyped
  <1>8. CASE Exec!Reload
    <2>1. /\ token' = run /\ opening' = FALSE /\ prepared' = None /\ submitting' = FALSE
          /\ jobID' = None /\ drawn' = None /\ post' = None /\ queries' = {} /\ poll' = None
          /\ select' = None /\ wanted' = None
          /\ UNCHANGED <<run, seen, order, active, done>>
      BY <1>8 DEF Exec!Reload, Exec!executor
    <2>2. unanswered' \subseteq Exec!Kept
      BY <1>0, <1>8 DEF Exec!Reload
    <2>3. ExecutorTyped'
      BY <2>1, <2>2 DEF ExecutorTyped, Exec!Kept
    <2>4. token' \in 1 .. run'
      BY <2>1 DEF ExecutorTyped
    <2>5. PageTyped'
      BY <2>1, <2>4 DEF PageTyped
    <2>6. NetTyped'
      BY <2>1 DEF NetTyped
    <2> QED  BY <2>3, <2>5, <2>6
  <1> QED  BY <1>1, <1>2, <1>3, <1>4, <1>5, <1>6, <1>7, <1>8 DEF Exec!Reader

\* A list arrives: it is overtaken, or empty, or the page asks for a batch of it,
\* the one it has if that is listed.
LEMMA ListStep ==
    ASSUME NetTyped, NEW q \in queries, Exec!ListArrives(q)
    PROVE  /\ q.stage = "list" /\ q.reply \in Seq(Batches) /\ Exec!ToSet(q.reply) \subseteq Batches
           /\ \/ q.gen # 0 /\ select' = select /\ Exec!Over(q)
              \/ q.gen = 0 /\ q.reply = << >> /\ select' = Exec!Empty /\ Exec!Over(q)
              \/ /\ q.gen = 0 /\ UNCHANGED submitting
                 /\ \E o \in Exec!ToSet(q.reply) :
                       /\ jobID \in Exec!ToSet(q.reply) => o = jobID
                       /\ queries' = (queries \ {q}) \cup
                             {[gen |-> 0, by |-> q.by, stage |-> "detail", of |-> o, reply |-> None]}
                       /\ select' = [options |-> Exec!ToSet(q.reply), value |-> o]
  <1>1. q \in Inquiry /\ q.stage = "list" /\ q.reply # None
    BY DEF Exec!ListArrives, NetTyped
  <1>2. Asked(q) /\ q.reply \in Seq(Batches)
    BY <1>1, InquiryIs
  <1>3. Exec!ToSet(q.reply) \subseteq Batches
    BY <1>2 DEF Exec!ToSet
  <1>4. ASSUME q.gen = 0, q.reply # << >>
        PROVE  Exec!Among(jobID, q.reply) \in Exec!ToSet(q.reply)
    <2>1. Len(q.reply) \in DOMAIN q.reply
      BY <1>2, <1>4
    <2> QED  BY <2>1 DEF Exec!Among, Exec!Last, Exec!ToSet
  <1>5. CASE q.gen = 0 /\ q.reply # << >>
    <2> DEFINE o == Exec!Among(jobID, q.reply)
    <2>1. queries' = (queries \ {q}) \cup {[q EXCEPT !.stage = "detail", !.reply = None, !.of = o]}
          /\ UNCHANGED submitting /\ select' = [options |-> Exec!ToSet(q.reply), value |-> o]
      BY <1>5, Zenon DEF Exec!ListArrives, Exec!jobQuery
    <2>2. [q EXCEPT !.stage = "detail", !.reply = None, !.of = o] =
              [gen |-> q.gen, by |-> q.by, stage |-> "detail", of |-> o, reply |-> None]
      BY <1>2, DetailAsked, Zenon
    <2>3. o \in Exec!ToSet(q.reply) /\ (jobID \in Exec!ToSet(q.reply) => o = jobID)
      BY <1>4, <1>5 DEF Exec!Among
    <2> HIDE DEF o
    <2> QED  BY <1>1, <1>2, <1>3, <1>5, <2>1, <2>2, <2>3
  <1>6. CASE ~(q.gen = 0 /\ q.reply # << >>)
    <2>1. \/ q.gen # 0 /\ select' = select /\ Exec!Over(q)
          \/ q.gen = 0 /\ q.reply = << >> /\ select' = Exec!Empty /\ Exec!Over(q)
      BY <1>6, Zenon DEF Exec!ListArrives, Exec!jobQuery
    <2> QED  BY <1>1, <1>2, <1>3, <2>1
  <1> QED  BY <1>5, <1>6

LEMMA ListTyped ==
    ASSUME Exec!ExecutionAssumption, ExecutorTyped, PageTyped, NetTyped,
           NEW q \in queries, Exec!ListArrives(q)
    PROVE  ExecutorTyped' /\ PageTyped' /\ NetTyped'
  <1>1. Exec!Over(q) => queries' \subseteq queries /\ submitting' \in BOOLEAN
    BY DEF Exec!Over
  <1>2. q \in Inquiry /\ q.by \in {"submit", "reader"} /\ q.gen \in 0 .. MaxOvertaken
    BY InquiryIs DEF NetTyped
  <1>3. UNCHANGED <<run, seen, order, active, done, token, opening, prepared, jobID, drawn, wanted,
                    post, poll, unanswered>> /\ UNCHANGED Exec!executor
    BY DEF Exec!ListArrives, Exec!executor, Exec!results
  <1>4. unanswered \subseteq Exec!Kept
    BY DEF ExecutorTyped
  <1>5. Exec!Empty \in Exec!Lists
    BY DEF Exec!Empty, Exec!Lists
  <1>6. CASE Exec!Over(q) /\ (select' = select \/ select' = Exec!Empty)
    BY <1>1, <1>3, <1>4, <1>5, <1>6, PageMoves DEF PageTyped
  <1>7. ASSUME NEW o \in Exec!ToSet(q.reply), UNCHANGED submitting, q.gen = 0,
               queries' = (queries \ {q}) \cup
                   {[gen |-> 0, by |-> q.by, stage |-> "detail", of |-> o, reply |-> None]},
               select' = [options |-> Exec!ToSet(q.reply), value |-> o]
        PROVE  ExecutorTyped' /\ PageTyped' /\ NetTyped'
    <2>1. o \in Batches /\ Exec!ToSet(q.reply) \subseteq Batches
      BY ListStep
    <2>2. [gen |-> 0, by |-> q.by, stage |-> "detail", of |-> o, reply |-> None] \in Inquiry
      BY <1>2, <1>7, <2>1 DEF Inquiry
    <2>3. queries' \subseteq Inquiry
      BY <1>7, <2>2 DEF NetTyped
    <2>4. select' \in Exec!Lists
      BY <1>7, <2>1 DEF Exec!Lists
    <2> QED  BY <1>3, <1>7, <2>3, <2>4 DEF ExecutorTyped, PageTyped, NetTyped, Exec!Kept
  <1> QED  BY <1>6, <1>7, ListStep

\* The answers that arrive, and those that do not.
LEMMA ArrivesTyped ==
    ASSUME Exec!ExecutionAssumption, ExecutorTyped, PageTyped, NetTyped,
           \/ Exec!Polled \/ Exec!PollFails \/ Exec!Poll \/ Exec!NotSubmitted
           \/ \E q \in queries : Exec!ListArrives(q) \/ Exec!DetailArrives(q) \/ Exec!QueryFails(q)
    PROVE  ExecutorTyped' /\ PageTyped' /\ NetTyped'
  <1> USE DEF Exec!results, Exec!choice
  <1>u. unanswered \subseteq Exec!Kept
    BY DEF ExecutorTyped
  <1>0. \A q : Exec!Over(q) => queries' \subseteq queries /\ submitting' \in BOOLEAN
    BY DEF Exec!Over
  <1>1. CASE Exec!Polled
    <2>1. poll.reply \in Results /\ poll.reply.id \in Batches
      BY <1>1 DEF Exec!Polled, NetTyped, Results
    <2>2. drawn' \in {None} \cup Results /\ jobID' \in Batches \cup {None}
      BY <1>1, <2>1 DEF Exec!Polled, Exec!renderJob, PageTyped
    <2> QED  BY <1>u, <1>1, <2>2, PageMoves DEF Exec!Polled, Exec!form, PageTyped
  <1>2. CASE Exec!PollFails
    BY <1>u, <1>2, PageMoves DEF Exec!PollFails, Exec!form, PageTyped
  <1>n. CASE Exec!NotSubmitted
    <2>1. unanswered' \subseteq Exec!Kept
      BY <1>u, <1>n DEF Exec!NotSubmitted
    <2> QED  BY <1>n, <2>1, PageMoves DEF Exec!NotSubmitted, PageTyped
  <1>3. CASE Exec!Poll
    <2>1. jobID \in Batches
      BY <1>3 DEF Exec!Poll, PageTyped
    <2>2. poll' \in [of: Batches, reply: {None} \cup Results]
      BY <1>3, <2>1 DEF Exec!Poll
    <2> QED  BY <1>3, <2>2 DEF Exec!Poll, Exec!executor, Exec!form, Exec!Kept, ExecutorTyped, PageTyped, NetTyped
  <1>4. ASSUME NEW q \in queries, Exec!ListArrives(q)
        PROVE  ExecutorTyped' /\ PageTyped' /\ NetTyped'
    BY <1>4, ListTyped
  <1>5. CASE \E q \in queries : Exec!DetailArrives(q)
    <2>1. PICK q \in queries : Exec!DetailArrives(q)
      BY <1>5
    <2>2. q \in Inquiry /\ q.stage = "detail" /\ q.reply # None
      BY <2>1 DEF Exec!DetailArrives, NetTyped
    <2>3. q.reply \in Results
      BY <2>2, InquiryIs
    <2>4. q.reply.id \in Batches
      BY <2>3 DEF Results
    <2>5. queries' \subseteq queries /\ submitting' \in BOOLEAN
      BY <1>0, <2>1 DEF Exec!DetailArrives
    <2>6. drawn' \in {None} \cup Results /\ jobID' \in Batches \cup {None}
      BY <2>1, <2>3, <2>4 DEF Exec!DetailArrives, Exec!renderJob, PageTyped
    <2> QED  BY <1>u, <2>1, <2>5, <2>6, PageMoves DEF Exec!DetailArrives, PageTyped
  <1>6. CASE \E q \in queries : Exec!QueryFails(q)
    <2>1. PICK q \in queries : Exec!QueryFails(q)
      BY <1>6
    <2>2. queries' \subseteq queries /\ submitting' \in BOOLEAN
      BY <1>0, <2>1 DEF Exec!QueryFails
    <2> QED  BY <1>u, <2>1, <2>2, PageMoves DEF Exec!QueryFails, PageTyped
  <1> QED  BY <1>1, <1>2, <1>n, <1>3, <1>4, <1>5, <1>6

LEMMA ExecTypedInit ==
    ASSUME Exec!ExecutionAssumption, Exec!Init
    PROVE  ExecTyped
  <1>1. run = 1 /\ order = << >> /\ seen = {} /\ active = None /\ done = {} /\ unanswered = {}
        /\ MaxRuns \in Nat \ {0} /\ Keep \in Nat
    BY DEF Exec!Init, Exec!ExecutionAssumption
  <1>2. order \in Seq(Batches) /\ Exec!Kept = {} /\ Len(order) = 0
    BY <1>1 DEF Exec!Kept, Exec!ToSet
  <1>3. ExecutorTyped
    BY <1>1, <1>2 DEF ExecutorTyped
  <1>4. /\ opening = FALSE /\ submitting = FALSE /\ prepared = None /\ jobID = None /\ token = 1
        /\ drawn = None /\ post = None /\ queries = {} /\ poll = None
        /\ select = None /\ wanted = None
    BY DEF Exec!Init
  <1>5. opening \in BOOLEAN /\ submitting \in BOOLEAN
    BY <1>4
  <1>a. token \in 1 .. run
    BY <1>1, <1>4
  <1>6. PageTyped
    BY <1>4, <1>5, <1>a DEF PageTyped
  <1>7. NetTyped
    BY <1>4 DEF NetTyped
  <1> QED  BY <1>3, <1>6, <1>7 DEF ExecTyped

LEMMA ExecTypedNext ==
    ASSUME Exec!ExecutionAssumption, ExecTyped, [Exec!Next]_(Exec!vars)
    PROVE  ExecTyped'
  <1> USE DEF ExecTyped
  <1>1. CASE UNCHANGED Exec!vars
    BY <1>1 DEF Exec!vars, Exec!executor, Exec!form, Exec!net, Exec!results, Exec!choice,
           ExecutorTyped, PageTyped, NetTyped, Exec!Kept
  <1> QED  BY <1>1, ExecutorSteps, ServedTyped, ReaderTyped, ArrivesTyped
           DEF Exec!Next, Exec!Executes, Exec!Arrives

\* The executor keeps a bounded number of results and runs a batch it keeps;
\* what the page names is a batch, and its token is that of a run there was
\* (execution.go:114-190, execution.js:17-26).
LEMMA ExecutionTypes ==
    ASSUME Exec!ExecutionAssumption
    PROVE  Exec!Spec => []Exec!TypeOK
  <1>1. Exec!Init => ExecTyped
    BY ExecTypedInit
  <1>2. ExecTyped /\ [Exec!Next]_(Exec!vars) => ExecTyped'
    BY ExecTypedNext
  <1> QED  BY <1>1, <1>2, ExecTypesAre, PTL DEF Exec!Spec

\* A submission on its way is that of the batch that is prepared, and there is
\* one list at most that is read after a submission.
SubmitAlone ==
    /\ post # None => submitting /\ prepared = post.id
    /\ \A q \in queries : q.by = "submit" => submitting /\ post = None
    /\ \A q, r \in queries : q.by = "submit" /\ r.by = "submit" => q = r

\* A step after which the requests come from those before, and no submission begins.
LEMMA SubmitKept ==
    ASSUME SubmitAlone,
           \/ UNCHANGED <<post, prepared, submitting>>
           \/ UNCHANGED <<post, submitting>> /\ ~submitting
           \/ UNCHANGED <<post, submitting>> /\ post = None
           \/ post # None /\ post'.id = post.id /\ UNCHANGED <<prepared, submitting>>
           \/ post' = None /\ submitting' = FALSE /\ post # None,
           UNCHANGED queries
    PROVE  SubmitAlone'
  BY DEF SubmitAlone

\* A request that goes on, and one that is over, with its handler.
LEMMA SubmitGoesOn ==
    ASSUME SubmitAlone, UNCHANGED <<post, prepared, submitting>>, NEW q \in queries, NEW r,
           r.by = q.by, queries' = (queries \ {q}) \cup {r}
    PROVE  SubmitAlone'
  BY DEF SubmitAlone
LEMMA SubmitOver ==
    ASSUME SubmitAlone, UNCHANGED <<post, prepared>>, NEW q \in queries, Exec!Over(q)
    PROVE  SubmitAlone'
  <1>1. CASE q.by = "submit"
    <2>1. queries' = queries \ {q} /\ post = None
      BY <1>1 DEF SubmitAlone, Exec!Over
    <2>2. \A r \in queries' : r.by # "submit"
      BY <1>1, <2>1 DEF SubmitAlone
    <2> QED  BY <2>1, <2>2 DEF SubmitAlone
  <1>2. CASE q.by # "submit"
    <2>1. queries' \subseteq queries /\ submitting' = (submitting /\ TRUE)
      BY <1>2 DEF Exec!Over
    <2>2. submitting => submitting'
      BY <2>1
    <2>3. submitting' => submitting
      BY <2>1
    <2> QED  BY <2>1, <2>2, <2>3 DEF SubmitAlone
  <1> QED  BY <1>1, <1>2

\* A step that asks for the list anew.
LEMMA SubmitAsks ==
    ASSUME NetTyped, SubmitAlone, UNCHANGED submitting, NEW by, Exec!Query(by),
           \/ by = "submit" /\ post # None /\ post' = None
           \/ by = "reader" /\ UNCHANGED <<post, prepared>>
           \/ by = "reader" /\ UNCHANGED post /\ ~submitting
    PROVE  SubmitAlone'
  <1>1. queries' = {Overtaken(q) : q \in queries} \cup {Latest(by)} /\ Latest(by).by = by
    BY QueryAdds DEF Latest
  <1>2. \A q \in queries : Overtaken(q).by = q.by
    BY DEF Overtaken
  <1>3. CASE by = "submit"
    <2>1. \A q \in queries : q.by # "submit"
      BY <1>3 DEF SubmitAlone
    <2>2. \A q \in queries' : q.by = "submit" => q = Latest(by)
      BY <1>1, <1>2, <2>1
    <2> QED  BY <1>3, <2>2 DEF SubmitAlone
  <1>4. CASE by = "reader"
    <2>1. \A q \in queries' : q.by = "submit" => \E r \in queries : q = Overtaken(r) /\ r.by = "submit"
      BY <1>1, <1>2, <1>4
    <2> QED  BY <1>4, <2>1 DEF SubmitAlone
  <1> QED  BY <1>3, <1>4

\* A batch whose submission got no answer, and that is not prepared any more, is
\* on the list that comes, or on the list that is shown.
Finds(id) ==
    /\ \A q \in queries : q.gen = 0 /\ q.stage = "list" /\ q.reply # None
                              => id \in Exec!ToSet(q.reply)
    /\ select = None \/ id \in select.options \/ \E q \in queries : q.gen = 0 /\ q.stage = "list"
LostInv ==
    "list" \notin LossyRequests /\ token = run =>
        \A id \in unanswered : id # prepared => Finds(id)

\* A step that leaves the lists alone, and only gives up what is not answered.
LEMMA LostStays ==
    ASSUME LostInv, UNCHANGED <<queries, select, token, run>>,
           \A id \in unanswered' : id # prepared' => id \in unanswered /\ id # prepared
    PROVE  LostInv'
  BY DEF LostInv, Finds

LEMMA LostAsks ==
    ASSUME NetTyped, NEW by, Exec!Query(by)
    PROVE  LostInv'
  <1>1. queries' = {Overtaken(q) : q \in queries} \cup {Latest(by)}
    BY QueryAdds
  <1>2. Latest(by).gen = 0 /\ Latest(by).stage = "list" /\ Latest(by).reply = None
    BY DEF Latest
  <1>3. \A q \in queries : Overtaken(q).gen # 0
    BY InquiryIs DEF NetTyped, Overtaken
  <1>4. \A id : Finds(id)'
    BY <1>1, <1>2, <1>3 DEF Finds
  <1> QED  BY <1>4 DEF LostInv

\* A request that goes on, and one that is over without a list for the reader.
LEMMA LostGoesOn ==
    ASSUME LostInv, UNCHANGED <<select, token, run, prepared, unanswered>>,
           NEW q \in queries, NEW r, queries' = (queries \ {q}) \cup {r},
           r.gen = q.gen, r.stage = q.stage,
           token = run /\ r.stage = "list" /\ r.reply # None => unanswered \subseteq Exec!ToSet(r.reply)
    PROVE  LostInv'
  BY DEF LostInv, Finds
LEMMA LostOver ==
    ASSUME LostInv, UNCHANGED <<select, token, run, prepared, unanswered>>,
           NEW q \in queries, queries' = queries \ {q},
           "list" \notin LossyRequests /\ token = run => q.gen # 0 \/ q.stage # "list"
    PROVE  LostInv'
  BY DEF LostInv, Finds

LEMMA LostListed ==
    ASSUME ExecTyped, LostInv, NEW q \in queries, Exec!ListArrives(q)
    PROVE  LostInv'
  <1>1. UNCHANGED <<token, run, prepared, unanswered>> /\ q.stage = "list" /\ q.reply # None
    BY DEF Exec!ListArrives, Exec!executor
  <1>2. CASE q.gen # 0 /\ select' = select /\ Exec!Over(q)
    BY <1>1, <1>2, LostOver DEF Exec!Over
  <1>3. CASE q.gen = 0 /\ q.reply = << >> /\ select' = Exec!Empty /\ Exec!Over(q)
    <2>1. Exec!ToSet(q.reply) = {}
      BY <1>3 DEF Exec!ToSet
    <2>2. "list" \notin LossyRequests /\ token = run => \A id \in unanswered : id = prepared
      BY <1>1, <1>3, <2>1 DEF LostInv, Finds
    <2> QED  BY <1>1, <2>2 DEF LostInv
  <1>4. ASSUME NEW o, q.gen = 0,
               queries' = (queries \ {q}) \cup
                   {[gen |-> 0, by |-> q.by, stage |-> "detail", of |-> o, reply |-> None]},
               select' = [options |-> Exec!ToSet(q.reply), value |-> o]
        PROVE  LostInv'
    <2>1. select'.options = Exec!ToSet(q.reply)
      BY <1>4
    <2>2. \A p \in queries' : p.stage = "list" => p \in queries
      BY <1>4
    <2>3. ASSUME NEW id, Finds(id) PROVE Finds(id)'
      BY <1>1, <1>4, <2>1, <2>2, <2>3 DEF Finds
    <2> QED  BY <1>1, <2>3 DEF LostInv
  <1> QED  BY <1>2, <1>3, <1>4, ListStep DEF ExecTyped

\* Every step keeps the batch of a submission, and where a lost one is found.
LEMMA LostNext ==
    ASSUME Exec!ExecutionAssumption, ExecTyped, SubmitAlone, LostInv, [Exec!Next]_(Exec!vars)
    PROVE  SubmitAlone' /\ LostInv'
  <1>0. NetTyped /\ None \notin Batches /\ unanswered \subseteq Exec!Kept /\ None \notin unanswered
    BY DEF Exec!ExecutionAssumption, ExecTyped, ExecutorTyped
  <1> USE DEF Exec!results, Exec!choice
  <1>1. CASE Exec!Start
    <2>1. /\ UNCHANGED <<token, prepared, submitting, select, queries>>
          /\ unanswered' \subseteq unanswered /\ post # None /\ post \in Posts
          /\ (post' = Exec!Answer("accepted", post) \/ post' = Exec!Answer("refused", post))
          /\ run' = run
      BY <1>1 DEF Exec!Start, Exec!Refused, Exec!form, Exec!executor, ExecTyped, PageTyped
    <2>2. \A t \in {"accepted", "refused"} : Exec!Answer(t, post) \in Posts /\ Exec!Answer(t, post).id = post.id
      BY <2>1 DEF Exec!Answer, Posts
    <2>3. post' \in Posts /\ post'.id = post.id
      BY <2>1, <2>2
    <2> QED  BY <2>1, <2>3, SubmitKept, LostStays
  <1>2. CASE Exec!Restart
    <2>1. UNCHANGED <<post, prepared, submitting, queries>> /\ unanswered' = {}
      BY <1>2 DEF Exec!Restart, Exec!form, Exec!net
    <2> QED  BY <2>1, SubmitKept DEF LostInv
  <1>3. CASE Exec!Reload
    <2>1. post' = None /\ queries' = {} /\ select' = None
      BY <1>3 DEF Exec!Reload
    <2> QED  BY <2>1 DEF SubmitAlone, LostInv, Finds
  <1>4. CASE \E q \in queries : Exec!ListServed(q)
    <2>1. PICK q \in queries : Exec!ListServed(q)
      BY <1>4
    <2> DEFINE a == IF token = run THEN order ELSE << >>
               r == [q EXCEPT !.reply = a]
    <2>2. /\ queries' = (queries \ {q}) \cup {r}
          /\ UNCHANGED <<post, prepared, submitting, select, token, run, unanswered>>
      BY <2>1 DEF Exec!ListServed, Exec!executor, Exec!form
    <2>3. r = [gen |-> q.gen, by |-> q.by, stage |-> q.stage, of |-> q.of, reply |-> a]
      BY <1>0, InquiryIs, AnswerAdded DEF NetTyped
    <2>4. r.gen = q.gen /\ r.by = q.by /\ r.stage = q.stage /\ r.reply = a
      BY <2>3
    <2>5. token = run => unanswered \subseteq Exec!ToSet(a)
      BY <1>0 DEF Exec!Kept
    <2> HIDE DEF a, r
    <2> QED  BY <2>2, <2>4, <2>5, SubmitGoesOn, LostGoesOn
  <1>5. CASE \E q \in queries : Exec!DetailServed(q)
    <2>1. PICK q \in queries : Exec!DetailServed(q)
      BY <1>5
    <2> DEFINE r == [q EXCEPT !.reply = Exec!Batch(q.of)]
    <2>2. /\ queries' = (queries \ {q}) \cup {r} /\ q.stage = "detail"
          /\ UNCHANGED <<post, prepared, submitting, select, token, run, unanswered>>
      BY <2>1 DEF Exec!DetailServed, Exec!executor, Exec!form
    <2>3. r = [gen |-> q.gen, by |-> q.by, stage |-> q.stage, of |-> q.of,
               reply |-> Exec!Batch(q.of)]
      BY <1>0, InquiryIs, AnswerAdded DEF NetTyped
    <2>4. r.gen = q.gen /\ r.by = q.by /\ r.stage = q.stage
      BY <2>3
    <2> HIDE DEF r
    <2> QED  BY <2>2, <2>4, SubmitGoesOn, LostGoesOn
  <1>6. CASE \E q \in queries : Exec!ListArrives(q)
    <2>1. PICK q \in queries : Exec!ListArrives(q)
      BY <1>6
    <2>2. UNCHANGED <<post, prepared>>
      BY <2>1 DEF Exec!ListArrives
    <2>3. ASSUME NEW o, UNCHANGED submitting,
                 queries' = (queries \ {q}) \cup
                     {[gen |-> 0, by |-> q.by, stage |-> "detail", of |-> o, reply |-> None]}
          PROVE  SubmitAlone'
      BY <2>2, <2>3, SubmitGoesOn
    <2>4. SubmitAlone'
      BY <1>0, <2>1, <2>2, <2>3, ListStep, SubmitOver
    <2> QED  BY <2>1, <2>4, LostListed
  <1>7. CASE \E q \in queries : Exec!DetailArrives(q)
    <2>1. PICK q \in queries : Exec!DetailArrives(q)
      BY <1>7
    <2>2. UNCHANGED <<post, prepared, select, token, run, unanswered>> /\ q.stage = "detail"
          /\ Exec!Over(q) /\ queries' = queries \ {q}
      BY <2>1 DEF Exec!DetailArrives, Exec!Over, Exec!executor
    <2> QED  BY <2>2, SubmitOver, LostOver
  <1>8. CASE \E q \in queries : Exec!QueryFails(q)
    <2>1. PICK q \in queries : Exec!QueryFails(q)
      BY <1>8
    <2>2. /\ UNCHANGED <<post, prepared, select, token, run, unanswered>>
          /\ "list" \in LossyRequests \/ token # run \/ q.stage = "detail"
          /\ Exec!Over(q) /\ queries' = queries \ {q}
      BY <2>1 DEF Exec!QueryFails, Exec!Over, Exec!executor
    <2> QED  BY <2>2, SubmitOver, LostOver
  <1>9. CASE Exec!Submitted \/ Exec!Choose \/ Exec!Refresh \/ Exec!Opened
    <2>1. CASE Exec!Submitted
      BY <1>0, <2>1, SubmitAsks, LostAsks DEF Exec!Submitted
    <2>2. CASE Exec!Choose \/ Exec!Refresh
      BY <1>0, <2>2, SubmitAsks, LostAsks DEF Exec!Choose, Exec!Refresh, Exec!form
    <2>3. CASE Exec!Opened
      BY <1>0, <2>3, SubmitAsks, LostAsks DEF Exec!Opened
    <2> QED  BY <1>9, <2>1, <2>2, <2>3
  <1>10. CASE Exec!NotSubmitted
    <2>1. /\ UNCHANGED <<prepared, queries, select, token, run>> /\ post # None /\ post' = None
          /\ submitting' = FALSE /\ unanswered' \subseteq unanswered \cup {post.id}
      BY <1>10 DEF Exec!NotSubmitted, Exec!executor
    <2>2. prepared = post.id
      BY <2>1 DEF SubmitAlone
    <2> QED  BY <2>1, <2>2, SubmitKept, LostStays
  <1>11. CASE Exec!review
    <2>1. prepared = None /\ post = None /\ UNCHANGED <<post, submitting, queries, select, token, run, unanswered>>
      <3>1. post # None => post.id \in Batches
        BY DEF ExecTyped, PageTyped, Posts
      <3> QED  BY <1>0, <1>11, <3>1 DEF Exec!review, Exec!executor, Exec!net, SubmitAlone
    <2> QED  BY <1>0, <2>1, SubmitKept, LostStays
  <1>12. CASE Exec!edit
    <2>1. /\ ~submitting /\ UNCHANGED <<post, submitting, queries, select, token, run>>
          /\ unanswered' = unanswered \ {prepared}
      BY <1>12 DEF Exec!edit, Exec!executor, Exec!net
    <2> QED  BY <2>1, SubmitKept, LostStays
  <1>13. CASE Exec!submit
    <2>1. /\ ~submitting /\ submitting' = TRUE /\ post'.id = prepared
          /\ UNCHANGED <<prepared, queries, select, token, run, unanswered>>
      BY <1>13 DEF Exec!submit, Exec!executor
    <2>2. SubmitAlone'
      BY <2>1 DEF SubmitAlone
    <2> QED  BY <2>1, <2>2, LostStays
  <1>14. CASE \/ Exec!Finish \/ Exec!PollServed \/ Exec!Open \/ Exec!OpeningFails \/ Exec!Poll
              \/ Exec!Polled \/ Exec!PollFails \/ UNCHANGED Exec!vars
    <2>1. UNCHANGED <<post, prepared, submitting, queries, select, token, run, unanswered>>
      BY <1>14 DEF Exec!Finish, Exec!PollServed, Exec!Open, Exec!OpeningFails, Exec!Poll,
             Exec!Polled, Exec!PollFails, Exec!vars, Exec!executor, Exec!form, Exec!net
    <2> QED  BY <2>1, SubmitKept, LostStays
  <1> QED  BY <1>1, <1>2, <1>3, <1>4, <1>5, <1>6, <1>7, <1>8, <1>9, <1>10, <1>11, <1>12, <1>13, <1>14
           DEF Exec!Next, Exec!Executes, Exec!Arrives, Exec!Reader

\* While a submission is on its way, its batch stays prepared; one that was
\* executed, and whose answer was lost, is still prepared or on the list that
\* is read when the dialog opens, through lost requests, repeated openings,
\* restarts and reloads, as long as its results are kept and the reader does not
\* give it up (execution.js:11-19).
THEOREM SubmissionStays ==
    ASSUME Exec!ExecutionAssumption
    PROVE  Exec!Spec => [](Exec!SubmissionKept /\ Exec!LostIsFound)
  <1>1. Exec!Init => ExecTyped /\ SubmitAlone /\ LostInv
    <2> SUFFICES ASSUME Exec!Init PROVE SubmitAlone /\ LostInv
      BY ExecTypedInit
    <2>1. post = None /\ queries = {} /\ unanswered = {}
      BY DEF Exec!Init
    <2> QED  BY <2>1 DEF SubmitAlone, LostInv
  <1>2. ExecTyped /\ SubmitAlone /\ LostInv /\ [Exec!Next]_(Exec!vars)
        => (ExecTyped /\ SubmitAlone /\ LostInv)'
    BY ExecTypedNext, LostNext
  <1>3. SubmitAlone /\ LostInv => Exec!SubmissionKept /\ Exec!LostIsFound
    BY DEF SubmitAlone, LostInv, Finds, Exec!SubmissionKept, Exec!LostIsFound
  <1> QED  BY <1>1, <1>2, <1>3, PTL DEF Exec!Spec

\* The latest request of jobs(), and the latest while it waits for the list.
Current == \E q \in queries : q.gen = 0
Listing == \E q \in queries : q.gen = 0 /\ q.stage = "list"
OwnGenerations == \A q, r \in queries : q.gen = r.gen => q = r

\* What the page knows of batches it learned from this run of the program.
LearnedHere ==
    /\ jobID # None => jobID \in seen
    /\ wanted # None => wanted \in seen
    /\ post # None /\ post.stage = "accepted" => post.id \in seen
    /\ select # None => select.options \subseteq seen /\ (select.value # None => select.value \in seen)
    /\ \A q \in queries :
          /\ q.stage = "list" /\ q.reply # None => Exec!ToSet(q.reply) \subseteq seen
          /\ q.stage = "detail" => q.of \in seen /\ (q.reply # None => q.reply.id = q.of)
\* The batch the reader wants is the one the page has.  The latest request will
\* show that one, and the list stands on the one it asks for; when there is no
\* latest request, list and results agree.
LatestShows ==
    /\ wanted \in Exec!Kept => jobID = wanted
    /\ \A q \in queries : q.gen = 0 =>
          /\ q.stage = "list" /\ q.reply # None /\ jobID \in Exec!Kept => jobID \in Exec!ToSet(q.reply)
          /\ q.stage = "detail" /\ jobID \in Exec!Kept => q.of = jobID
          /\ q.stage = "detail" => select # None /\ select.value = q.of
    /\ "list" \notin LossyRequests /\ jobID \in Exec!Kept
           => Listing \/ (select # None /\ select.value = jobID)
    /\ "list" \notin LossyRequests /\ select # None /\ select.value \in Exec!Kept
           => Current \/ (drawn # None /\ drawn.id = select.value /\ jobID = select.value)
ShownInv == OwnGenerations /\ (token = run => LearnedHere /\ LatestShows)

\* A step that leaves the choice and its requests alone.
LEMMA ChoiceStays ==
    ASSUME ShownInv, UNCHANGED <<order, seen, run, token, jobID, select, wanted, queries>>,
           drawn' = drawn \/ (drawn' # None /\ drawn'.id = jobID),
           post' = post \/ post' = None \/ post'.stage # "accepted" \/ (token = run => post'.id \in seen)
    PROVE  ShownInv'
  BY DEF ShownInv, OwnGenerations, LearnedHere, LatestShows, Current, Listing, Exec!Kept

\* A step that asks for the list anew.
LEMMA ListAsked ==
    ASSUME ExecTyped, ShownInv, UNCHANGED <<order, seen, run, token>>, NEW by, Exec!Query(by),
           \/ UNCHANGED <<jobID, wanted>>
           \/ wanted' = jobID' /\ (token = run => jobID' \in seen),
           \/ UNCHANGED select
           \/ select # None /\ \E id \in select.options : select' = [select EXCEPT !.value = id],
           post' = post \/ post' = None
    PROVE  ShownInv'
  <1>1. queries' = {Overtaken(q) : q \in queries} \cup {Latest(by)}
    BY QueryAdds DEF ExecTyped
  <1>2. /\ Latest(by).gen = 0 /\ Latest(by).stage = "list" /\ Latest(by).reply = None
    BY DEF Latest
  <1>3. \A q \in queries : q.gen \in Nat
    BY InquiryIs DEF ExecTyped, NetTyped
  <1>4. \A q \in queries : /\ Overtaken(q).gen = q.gen + 1 /\ Overtaken(q).stage = q.stage
                           /\ Overtaken(q).of = q.of /\ Overtaken(q).reply = q.reply
    BY DEF Overtaken
  <1>5. \A q \in queries' : q.gen = 0 => q = Latest(by)
    BY <1>1, <1>3, <1>4
  <1>6. OwnGenerations'
    <2> SUFFICES ASSUME NEW q \in queries', NEW r \in queries', q.gen = r.gen PROVE q = r
      BY DEF OwnGenerations
    <2>1. CASE q.gen = 0
      BY <1>5, <2>1
    <2>2. CASE q.gen # 0
      <3>1. PICK p \in queries, s \in queries : q = Overtaken(p) /\ r = Overtaken(s)
        BY <1>1, <1>2, <2>2
      <3>2. p.gen + 1 = s.gen + 1 /\ p.gen \in Nat /\ s.gen \in Nat
        BY <1>3, <1>4, <3>1
      <3>3. p.gen = s.gen
        BY <3>2
      <3> QED  BY <3>1, <3>3 DEF ShownInv, OwnGenerations
    <2> QED  BY <2>1, <2>2
  <1>7. Listing' /\ Current'
    BY <1>1, <1>2 DEF Listing, Current
  <1>8. ASSUME token = run PROVE LearnedHere'
    <2>1. LearnedHere
      BY <1>8 DEF ShownInv
    <2>2. select' # None => select'.options \subseteq seen /\ (select'.value # None => select'.value \in seen)
      <3>1. CASE UNCHANGED select
        BY <2>1, <3>1 DEF LearnedHere
      <3>2. ASSUME select # None, NEW id \in select.options, select' = [select EXCEPT !.value = id]
            PROVE  select'.options = select.options /\ select'.value = id
        <4>1. select \in Exec!Lists
          BY <3>2 DEF ExecTyped, PageTyped
        <4> QED  BY <3>2, <4>1 DEF Exec!Lists
      <3> QED  BY <2>1, <3>1, <3>2 DEF LearnedHere
    <2>3. \A q \in queries' : q = Latest(by) \/ \E p \in queries :
              q.stage = p.stage /\ q.of = p.of /\ q.reply = p.reply
      BY <1>1, <1>4
    <2> QED  BY <1>2, <1>8, <2>1, <2>2, <2>3 DEF LearnedHere
  <1>9. token = run => LatestShows'
    <2>1. token = run => (wanted' \in Exec!Kept => jobID' = wanted')
      BY DEF ShownInv, LatestShows
    <2> QED  BY <1>2, <1>5, <1>7, <2>1 DEF LatestShows, Exec!Kept
  <1> QED  BY <1>6, <1>8, <1>9 DEF ShownInv

\* A step that ends a request: one that is not the latest, or whose batch is not
\* kept any more; the latest, with an empty list; or the latest, with its batch.
LEMMA RequestEnds ==
    ASSUME ExecTyped, Exec!ExecutionAssumption, ShownInv,
           UNCHANGED <<order, seen, run, token, wanted, post>>,
           NEW q \in queries, queries' = queries \ {q},
           \/ /\ UNCHANGED <<jobID, drawn, select>>
              /\ token = run /\ "list" \notin LossyRequests
                     => q.gen # 0 \/ (q.stage = "detail" /\ q.of \notin Exec!Kept)
           \/ /\ q.gen = 0 /\ UNCHANGED <<jobID, drawn>> /\ select' = Exec!Empty
              /\ token = run => jobID \notin Exec!Kept
           \/ /\ q.gen = 0 /\ q.stage = "detail" /\ UNCHANGED select
              /\ drawn' # None /\ drawn'.id = jobID' /\ (token = run => jobID' = q.of)
    PROVE  ShownInv'
  <1>0. None \notin Exec!Kept
    BY DEF ExecTyped, ExecutorTyped, Exec!ExecutionAssumption
  <1>1. OwnGenerations'
    BY DEF ShownInv, OwnGenerations
  <1>2. ASSUME token = run PROVE LearnedHere'
    <2>1. Exec!Empty.options = {} /\ Exec!Empty.value = None
      BY DEF Exec!Empty
    <2> QED  BY <1>2, <2>1 DEF ShownInv, LearnedHere
  <1>3. ASSUME token = run PROVE LatestShows'
    <2>0. LatestShows /\ OwnGenerations /\ UNCHANGED Exec!Kept
      BY <1>3 DEF ShownInv, Exec!Kept
    <2>1. CASE q.gen # 0 /\ UNCHANGED <<jobID, drawn, select>>
      <3>1. (Current => Current') /\ (Listing => Listing')
        BY <2>1 DEF Current, Listing
      <3> QED  BY <2>0, <2>1, <3>1 DEF LatestShows
    <2>2. CASE q.gen = 0 /\ q.stage = "detail" /\ q.of \notin Exec!Kept /\ UNCHANGED <<jobID, drawn, select>>
      <3>1. ~Listing
        BY <2>0, <2>2 DEF Listing, OwnGenerations
      <3>2. select # None /\ select.value = q.of
        BY <2>0, <2>2 DEF LatestShows
      <3> QED  BY <2>0, <2>2, <3>1, <3>2 DEF LatestShows
    <2>3. CASE "list" \in LossyRequests /\ UNCHANGED <<jobID, drawn, select>>
      BY <2>0, <2>3 DEF LatestShows
    <2>4. CASE q.gen = 0 /\ UNCHANGED <<jobID, drawn>> /\ select' = Exec!Empty /\ jobID \notin Exec!Kept
      <3>1. \A r \in queries' : r.gen # 0
        BY <2>0, <2>4 DEF OwnGenerations
      <3>2. select'.value = None
        BY <2>4 DEF Exec!Empty
      <3> QED  BY <1>0, <2>0, <2>4, <3>1, <3>2 DEF LatestShows
    <2>5. CASE /\ q.gen = 0 /\ q.stage = "detail" /\ UNCHANGED select
               /\ drawn' # None /\ drawn'.id = jobID' /\ jobID' = q.of
      <3>1. \A r \in queries' : r.gen # 0
        BY <2>0, <2>5 DEF OwnGenerations
      <3>2. select # None /\ select.value = jobID'
        BY <2>0, <2>5 DEF LatestShows
      <3>3. wanted \in Exec!Kept => jobID' = wanted
        BY <2>0, <2>5 DEF LatestShows
      <3> QED  BY <2>0, <2>5, <3>1, <3>2, <3>3 DEF LatestShows
    <2> QED  BY <1>3, <2>1, <2>2, <2>3, <2>4, <2>5
  <1> QED  BY <1>1, <1>2, <1>3 DEF ShownInv

\* A step that answers a request.
LEMMA RequestAnswered ==
    ASSUME ExecTyped, ShownInv,
           UNCHANGED <<order, seen, run, token, jobID, drawn, select, wanted, post>>,
           NEW q \in queries, NEW r, queries' = (queries \ {q}) \cup {r},
           r.gen = q.gen, r.stage = q.stage, r.of = q.of,
           r.stage = "list" /\ r.reply # None /\ token = run => Exec!ToSet(r.reply) = Exec!Kept,
           r.stage = "detail" /\ r.reply # None => r.reply.id = r.of
    PROVE  ShownInv'
  <1>1. OwnGenerations'
    BY DEF ShownInv, OwnGenerations
  <1>2. token = run => LearnedHere'
    BY DEF ShownInv, LearnedHere, ExecTyped, ExecutorTyped
  <1>3. ASSUME token = run PROVE LatestShows'
    <2>0. LatestShows /\ UNCHANGED Exec!Kept
      BY <1>3 DEF ShownInv, Exec!Kept
    <2>1. Current' = Current /\ Listing' = Listing
      <3>1. (Current => Current') /\ (Listing => Listing')
        BY DEF Current, Listing
      <3>2. (Current' => Current) /\ (Listing' => Listing)
        BY DEF Current, Listing
      <3> QED  BY <3>1, <3>2 DEF Current, Listing
    <2>2. \A p \in queries' : p.gen = 0 =>
              /\ p.stage = "list" /\ p.reply # None /\ jobID \in Exec!Kept => jobID \in Exec!ToSet(p.reply)
              /\ p.stage = "detail" /\ jobID \in Exec!Kept => p.of = jobID
              /\ p.stage = "detail" => select # None /\ select.value = p.of
      BY <1>3, <2>0 DEF LatestShows
    <2> QED  BY <2>0, <2>1, <2>2 DEF LatestShows
  <1> QED  BY <1>1, <1>2, <1>3 DEF ShownInv

\* The latest list arrives, and the page asks for a batch of it.
LEMMA DetailBegins ==
    ASSUME Exec!ExecutionAssumption, ExecTyped, ShownInv,
           UNCHANGED <<order, seen, run, token, jobID, drawn, wanted, post>>,
           NEW q \in queries, q.gen = 0, q.stage = "list", q.reply # None,
           NEW o \in Exec!ToSet(q.reply), jobID \in Exec!ToSet(q.reply) => o = jobID,
           NEW by, queries' = (queries \ {q}) \cup
               {[gen |-> 0, by |-> by, stage |-> "detail", of |-> o, reply |-> None]},
           select' = [options |-> Exec!ToSet(q.reply), value |-> o]
    PROVE  ShownInv'
  <1> DEFINE r == [gen |-> 0, by |-> by, stage |-> "detail", of |-> o, reply |-> None]
  <1>0. r.gen = 0 /\ r.stage = "detail" /\ r.of = o /\ r.reply = None
    OBVIOUS
  <1>1. select' # None /\ select'.options = Exec!ToSet(q.reply) /\ select'.value = o
    <2>1. q.reply \in Seq(Batches)
      BY InquiryIs DEF ExecTyped, NetTyped
    <2>2. Exec!ToSet(q.reply) \subseteq Batches /\ o \in Batches
      BY <2>1 DEF Exec!ToSet
    <2>3. select' \in Exec!Lists
      BY <2>2 DEF Exec!Lists
    <2> QED  BY <2>3 DEF Exec!ExecutionAssumption
  <1> HIDE DEF r
  <1>2. queries' = (queries \ {q}) \cup {r}
    BY DEF r
  <1>3. OwnGenerations'
    BY <1>0, <1>2 DEF ShownInv, OwnGenerations
  <1>4. token = run => LearnedHere'
    BY <1>0, <1>1, <1>2 DEF ShownInv, LearnedHere
  <1>5. ASSUME token = run PROVE LatestShows'
    <2>0. LatestShows /\ OwnGenerations /\ UNCHANGED Exec!Kept
      BY <1>5 DEF ShownInv, Exec!Kept
    <2>1. Current' /\ \A p \in queries' : p.gen = 0 => p = r
      BY <1>0, <1>2, <2>0 DEF Current, OwnGenerations
    <2>2. jobID \in Exec!Kept => o = jobID
      BY <2>0 DEF LatestShows
    <2> QED  BY <1>0, <1>1, <2>0, <2>1, <2>2 DEF LatestShows
  <1> QED  BY <1>3, <1>4, <1>5 DEF ShownInv

\* A batch is started: the others stay as far as they are kept.
LEMMA StartShows ==
    ASSUME Exec!ExecutionAssumption, ExecTyped, ShownInv, Exec!Start
    PROVE  ShownInv'
  <1> USE DEF Exec!results, Exec!choice
  <1>0. post # None /\ post \in Posts /\ post.id \in Batches
    BY DEF Exec!Start, ExecTyped, PageTyped, Posts
  <1>1. /\ Exec!Answer("accepted", post).id = post.id
        /\ Exec!Refused.stage = "refused"
    BY <1>0 DEF Exec!Answer, Exec!Refused, Posts
  <1>2. UNCHANGED <<token, jobID, drawn, select, wanted, queries>>
    BY DEF Exec!Start, Exec!form
  <1>3. CASE UNCHANGED Exec!executor
    <2>1. post' = Exec!Refused \/ (post' = Exec!Answer("accepted", post) /\ post.id \in Exec!Kept)
      BY <1>3 DEF Exec!Start, Exec!Known, Exec!executor
    <2>2. post'.stage # "accepted" \/ (token = run => post'.id \in seen)
      BY <1>1, <2>1 DEF ExecTyped, ExecutorTyped
    <2> QED  BY <1>2, <1>3, <2>2, ChoiceStays DEF Exec!executor
  <1>4. CASE /\ token = run /\ post.id \notin seen /\ seen' = seen \cup {post.id}
             /\ order' = Append(IF Len(order) >= Keep THEN Tail(order) ELSE order, post.id)
             /\ post' = Exec!Answer("accepted", post) /\ UNCHANGED run
    <2>0. LearnedHere /\ LatestShows /\ OwnGenerations
      BY <1>4 DEF ShownInv
    <2>1. Exec!Kept' \subseteq Exec!Kept \cup {post.id} /\ None \notin Exec!Kept'
      <3>1. Exec!Kept' \subseteq Exec!Kept \cup {post.id}
        BY <1>0, <1>4, BatchAppended DEF ExecTyped, ExecutorTyped
      <3> QED  BY <1>0, <3>1 DEF ExecTyped, ExecutorTyped, Exec!ExecutionAssumption
    <2>2. LearnedHere'
      BY <1>1, <1>2, <1>4, <2>0 DEF LearnedHere
    <2>3. \A id : id \in Exec!Kept' /\ (id # None => id \in seen) => id \in Exec!Kept
      BY <1>4, <2>1
    <2>4. /\ wanted \in Exec!Kept' => wanted \in Exec!Kept
          /\ jobID \in Exec!Kept' => jobID \in Exec!Kept
          /\ select # None /\ select.value \in Exec!Kept' => select.value \in Exec!Kept
      BY <2>0, <2>3 DEF LearnedHere
    <2>5. UNCHANGED <<Current, Listing>>
      BY <1>2 DEF Current, Listing
    <2>6. LatestShows'
      BY <1>2, <2>0, <2>4, <2>5 DEF LatestShows
    <2> QED  BY <1>2, <2>0, <2>2, <2>6 DEF ShownInv, OwnGenerations
  <1> QED  BY <1>3, <1>4 DEF Exec!Start, Exec!Known

\* Every step keeps what the dialog shows.
LEMMA ShownNext ==
    ASSUME Exec!ExecutionAssumption, ExecTyped, ShownInv, [Exec!Next]_(Exec!vars)
    PROVE  ShownInv'
  <1> USE DEF Exec!results, Exec!choice
  <1>0. \A q \in queries : q \in Inquiry
    BY DEF ExecTyped, NetTyped
  <1>1. CASE Exec!Start
    BY <1>1, StartShows
  <1>2. CASE Exec!Restart
    <2>1. token' # run'
      BY <1>2 DEF Exec!Restart, Exec!form, ExecTyped, ExecutorTyped, PageTyped
    <2>2. UNCHANGED queries
      BY <1>2 DEF Exec!Restart, Exec!net
    <2> QED  BY <2>1, <2>2 DEF ShownInv, OwnGenerations
  <1>3. CASE Exec!Reload
    <2>1. /\ jobID' = None /\ wanted' = None /\ select' = None /\ post' = None /\ queries' = {}
          /\ UNCHANGED Exec!Kept
      BY <1>3 DEF Exec!Reload, Exec!executor, Exec!Kept
    <2>2. None \notin Exec!Kept
      BY DEF ExecTyped, ExecutorTyped, Exec!ExecutionAssumption
    <2> QED  BY <2>1, <2>2 DEF ShownInv, OwnGenerations, LearnedHere, LatestShows
  <1>4. CASE \E q \in queries : Exec!ListServed(q)
    <2> PICK q \in queries : Exec!ListServed(q)
      BY <1>4
    <2> DEFINE a == IF token = run THEN order ELSE << >>
               r == [q EXCEPT !.reply = a]
    <2>1. /\ q.stage = "list" /\ queries' = (queries \ {q}) \cup {r}
          /\ UNCHANGED <<order, seen, run, token, jobID, drawn, select, wanted, post>>
      BY DEF Exec!ListServed, Exec!executor, Exec!form
    <2>2. r = [gen |-> q.gen, by |-> q.by, stage |-> q.stage, of |-> q.of, reply |-> a]
      BY <1>0, InquiryIs, AnswerAdded
    <2>3. r.gen = q.gen /\ r.stage = q.stage /\ r.of = q.of /\ r.reply = a
      BY <2>2
    <2>4. token = run => Exec!ToSet(a) = Exec!Kept
      BY DEF Exec!Kept
    <2> HIDE DEF a, r
    <2> QED  BY <2>1, <2>3, <2>4, RequestAnswered
  <1>5. CASE \E q \in queries : Exec!DetailServed(q)
    <2> PICK q \in queries : Exec!DetailServed(q)
      BY <1>5
    <2> DEFINE r == [q EXCEPT !.reply = Exec!Batch(q.of)]
    <2>1. /\ q.stage = "detail" /\ queries' = (queries \ {q}) \cup {r}
          /\ UNCHANGED <<order, seen, run, token, jobID, drawn, select, wanted, post>>
      BY DEF Exec!DetailServed, Exec!executor, Exec!form
    <2>2. r = [gen |-> q.gen, by |-> q.by, stage |-> q.stage, of |-> q.of,
               reply |-> Exec!Batch(q.of)]
      BY <1>0, InquiryIs, AnswerAdded
    <2>3. r.gen = q.gen /\ r.stage = q.stage /\ r.of = q.of /\ r.reply.id = q.of
      BY <2>2 DEF Exec!Batch
    <2> HIDE DEF r
    <2> QED  BY <2>1, <2>3, RequestAnswered
  <1>6. CASE \E q \in queries : Exec!ListArrives(q)
    <2> PICK q \in queries : Exec!ListArrives(q)
      BY <1>6
    <2>1. /\ q.stage = "list" /\ q.reply # None
          /\ UNCHANGED <<order, seen, run, token, jobID, drawn, wanted, post>>
      BY DEF Exec!ListArrives, Exec!executor
    <2>2. CASE q.gen # 0 /\ select' = select /\ Exec!Over(q)
      BY <2>1, <2>2, RequestEnds DEF Exec!Over
    <2>3. CASE q.gen = 0 /\ q.reply = << >> /\ select' = Exec!Empty /\ Exec!Over(q)
      <3>1. token = run => jobID \notin Exec!Kept
        BY <2>1, <2>3 DEF ShownInv, LatestShows, Exec!ToSet
      <3> QED  BY <2>1, <2>3, <3>1, RequestEnds DEF Exec!Over
    <2>4. ASSUME q.gen = 0, NEW o \in Exec!ToSet(q.reply), jobID \in Exec!ToSet(q.reply) => o = jobID,
                 queries' = (queries \ {q}) \cup
                     {[gen |-> 0, by |-> q.by, stage |-> "detail", of |-> o, reply |-> None]},
                 select' = [options |-> Exec!ToSet(q.reply), value |-> o]
          PROVE  ShownInv'
      BY <2>1, <2>4, DetailBegins
    <2> QED  BY <2>2, <2>3, <2>4, ListStep DEF ExecTyped
  <1>7. CASE \E q \in queries : Exec!DetailArrives(q)
    <2> PICK q \in queries : Exec!DetailArrives(q)
      BY <1>7
    <2>1. /\ q.stage = "detail" /\ q.reply # None /\ queries' = queries \ {q}
          /\ UNCHANGED <<order, seen, run, token, select, wanted, post>>
      BY DEF Exec!DetailArrives, Exec!Over, Exec!executor
    <2>2. CASE q.gen = 0
      <3>1. drawn' = q.reply /\ jobID' = q.reply.id
        BY <2>2 DEF Exec!DetailArrives, Exec!renderJob, Exec!jobQuery
      <3>2. token = run => jobID' = q.of
        BY <2>1, <3>1 DEF ShownInv, LearnedHere
      <3> QED  BY <2>1, <2>2, <3>1, <3>2, RequestEnds
    <2>3. CASE q.gen # 0
      <3>1. UNCHANGED <<jobID, drawn>>
        BY <2>3 DEF Exec!DetailArrives, Exec!jobQuery
      <3> QED  BY <2>1, <2>3, <3>1, RequestEnds
    <2> QED  BY <2>2, <2>3
  <1>8. CASE \E q \in queries : Exec!QueryFails(q)
    <2> PICK q \in queries : Exec!QueryFails(q)
      BY <1>8
    <2>1. /\ queries' = queries \ {q}
          /\ UNCHANGED <<order, seen, run, token, jobID, drawn, select, wanted, post>>
          /\ "list" \in LossyRequests \/ token # run \/ (q.stage = "detail" /\ q.of \notin Exec!Kept)
      BY DEF Exec!QueryFails, Exec!Over, Exec!executor
    <2> QED  BY <2>1, RequestEnds
  <1>9. CASE Exec!Submitted
    <2>1. /\ post # None /\ post.stage = "accepted" /\ post' = None /\ jobID' = post.id
          /\ wanted' = jobID' /\ UNCHANGED select
          /\ Exec!Query("submit") /\ UNCHANGED <<order, seen, run, token>>
      BY <1>9 DEF Exec!Submitted, Exec!renderJob, Exec!Batch, Exec!executor
    <2>2. token = run => jobID' \in seen
      BY <2>1 DEF ShownInv, LearnedHere
    <2> QED  BY <2>1, <2>2, ListAsked
  <1>10. CASE Exec!Opened \/ Exec!Refresh
    <2>1. Exec!Query("reader") /\ UNCHANGED <<order, seen, run, token, post, jobID, wanted, select>>
      BY <1>10 DEF Exec!Opened, Exec!Refresh, Exec!executor, Exec!form
    <2> QED  BY <2>1, ListAsked
  <1>11. CASE Exec!Choose
    <2>1. /\ Exec!Query("reader") /\ UNCHANGED <<order, seen, run, token, post>> /\ select # None
          /\ \E id \in select.options :
                jobID' = id /\ select' = [select EXCEPT !.value = id] /\ wanted' = id
      BY <1>11 DEF Exec!Choose, Exec!executor, Exec!form
    <2>2. token = run => jobID' \in seen
      BY <2>1 DEF ShownInv, LearnedHere
    <2> QED  BY <2>1, <2>2, ListAsked
  <1>12. CASE Exec!Polled
    <2>1. UNCHANGED <<order, seen, run, token, jobID, select, wanted, queries, post>>
      BY <1>12 DEF Exec!Polled, Exec!renderJob, Exec!executor, Exec!form
    <2>2. drawn' = drawn \/ (drawn' # None /\ drawn'.id = jobID)
      BY <1>12 DEF Exec!Polled, Exec!renderJob
    <2> QED  BY <2>1, <2>2, ChoiceStays
  <1>13. CASE \/ Exec!Finish \/ Exec!PollServed \/ Exec!review \/ Exec!edit \/ Exec!Open \/ Exec!Poll
              \/ Exec!NotSubmitted \/ Exec!PollFails \/ Exec!OpeningFails \/ Exec!submit
              \/ UNCHANGED Exec!vars
    <2>1. /\ UNCHANGED <<order, seen, run, token, jobID, drawn, select, wanted, queries>>
          /\ post' = post \/ post' = None \/ post'.stage = "sent"
      BY <1>13 DEF Exec!Finish, Exec!PollServed, Exec!review, Exec!edit, Exec!Open, Exec!Poll,
             Exec!NotSubmitted, Exec!PollFails, Exec!OpeningFails, Exec!submit, Exec!vars,
             Exec!executor, Exec!form, Exec!net
    <2> QED  BY <2>1, ChoiceStays
  <1> QED  BY <1>1, <1>2, <1>3, <1>4, <1>5, <1>6, <1>7, <1>8, <1>9, <1>10, <1>11, <1>12, <1>13
           DEF Exec!Next, Exec!Executes, Exec!Arrives, Exec!Reader

\* Once nothing is asked for any more, the list stands on the batch the reader
\* chose or submitted last, and the results are those of the batch it stands on,
\* as far as they are kept and no list was lost, through answers that come late
\* and out of order, evicted results, restarts and reloads (execution.js:16-26).
THEOREM DrawnWasChosen ==
    ASSUME Exec!ExecutionAssumption
    PROVE  Exec!Spec => []Exec!ShownWasChosen
  <1>1. Exec!Init => ExecTyped /\ ShownInv
    <2> SUFFICES ASSUME Exec!Init PROVE ShownInv
      BY ExecTypedInit
    <2>1. /\ jobID = None /\ wanted = None /\ select = None /\ post = None /\ queries = {}
      BY DEF Exec!Init
    <2>2. None \notin Exec!Kept
      BY ExecTypedInit DEF ExecTyped, ExecutorTyped, Exec!ExecutionAssumption
    <2> QED  BY <2>1, <2>2 DEF ShownInv, OwnGenerations, LearnedHere, LatestShows
  <1>2. ExecTyped /\ ShownInv /\ [Exec!Next]_(Exec!vars) => (ExecTyped /\ ShownInv)'
    BY ExecTypedNext, ShownNext
  <1>3. ShownInv => Exec!ShownWasChosen
    BY DEF ShownInv, LatestShows, Current, Listing, Exec!ShownWasChosen, Exec!Settled
  <1> QED  BY <1>1, <1>2, <1>3, PTL DEF Exec!Spec
-----------------------------------------------------------------------------
(* The list of experiments, for any number of changes and clicks and any    *)
(* loss of requests and answers.                                            *)

Requests == [answer: 0 .. version \cup {None}]

WaitsTypes ==
    /\ version \in Nat /\ controls \in Nat /\ clicks \in Nat /\ confirmed \in 0 .. version
    /\ {busy, capable, message, doubt} \subseteq BOOLEAN /\ told \in {None, "operation", "read"}
    /\ shown \in 0 .. version \cup {None}
    /\ reads \subseteq Requests /\ control \in {None} \cup Requests

\* One request at a time, and the page is busy with it; an answer that comes is
\* no older than the last control; what was doubted is under a message.
OneRequest ==
    /\ \A r, q \in reads : r = q
    /\ control # None => reads = {}
    /\ busy <=> reads # {} \/ control # None
AnswersAreLater == \A r \in reads : r.answer # None => r.answer >= confirmed
DoubtHasMessage == doubt => message
WaitsInv ==
    /\ WaitsTypes /\ OneRequest /\ AnswersAreLater /\ DoubtHasMessage
    /\ Waits!ControlsAreClicks /\ Waits!ListFollowsControl /\ Waits!DoubtIsTold

LEMMA InitWaits ==
    ASSUME Waits!ContinuationPanelAssumption, Waits!Init
    PROVE  WaitsInv
  <1>1. WaitsTypes
    <2>1. version = 0 /\ controls = 0 /\ clicks = 0 /\ confirmed = 0 /\ shown = None /\ told = None
          /\ reads = {} /\ control = None
      BY DEF Waits!Init
    <2>2. {busy, capable, message, doubt} \subseteq BOOLEAN
      BY DEF Waits!Init
    <2> QED  BY <2>1, <2>2 DEF WaitsTypes
  <1>2. OneRequest /\ AnswersAreLater /\ DoubtHasMessage
    BY DEF Waits!Init, OneRequest, AnswersAreLater, DoubtHasMessage
  <1>3. Waits!ControlsAreClicks /\ Waits!ListFollowsControl /\ Waits!DoubtIsTold
    BY DEF Waits!Init, Waits!ControlsAreClicks, Waits!ListFollowsControl, Waits!DoubtIsTold
  <1> QED  BY <1>1, <1>2, <1>3 DEF WaitsInv

\* Every step keeps the invariant of the list of experiments.
LEMMA NextWaits ==
    ASSUME Waits!ContinuationPanelAssumption, WaitsInv, [Waits!Next]_(Waits!vars)
    PROVE  WaitsInv'
  <1> USE DEF Waits!ContinuationPanelAssumption, WaitsInv, Waits!service, Waits!page, Waits!seen
  <1>0. /\ \A r \in reads : r \in Requests /\ (r.answer = None \/ r.answer \in confirmed .. version)
        /\ \A n \in Nat \cup {None} : [answer |-> n] # None
        /\ [answer |-> None].answer = None /\ Waits!Unanswered = [answer |-> None] /\ Waits!Unanswered # None
    BY DEF WaitsTypes, AnswersAreLater, Requests, Waits!Unanswered
  <1>1. CASE Waits!Scheduler
    <2>1. WaitsTypes'
      BY <1>1 DEF Waits!Scheduler, WaitsTypes, Requests
    <2> QED  BY <1>1, <2>1 DEF Waits!Scheduler, OneRequest, AnswersAreLater, DoubtHasMessage,
                  Waits!ControlsAreClicks, Waits!ListFollowsControl, Waits!DoubtIsTold
  <1>2. CASE \E r \in reads : Waits!ServeRead(r)
    <2>1. PICK r \in reads : Waits!ServeRead(r)
      BY <1>2
    <2>2. reads' = {[answer |-> version]}
      BY <2>1 DEF Waits!ServeRead, OneRequest
    <2>3. WaitsTypes'
      BY <2>1, <2>2 DEF Waits!ServeRead, WaitsTypes, Requests
    <2>4. OneRequest'
      BY <2>1, <2>2 DEF Waits!ServeRead, OneRequest
    <2>5. AnswersAreLater'
      <3>1. UNCHANGED confirmed /\ version >= confirmed
        BY <2>1 DEF Waits!ServeRead, WaitsTypes
      <3> QED  BY <2>2, <3>1 DEF AnswersAreLater
    <2> QED  BY <2>1, <2>3, <2>4, <2>5 DEF Waits!ServeRead, DoubtHasMessage,
                  Waits!ControlsAreClicks, Waits!ListFollowsControl, Waits!DoubtIsTold
  <1>3. CASE Waits!ServeControl
    <2>1. /\ control # None /\ control.answer = None /\ control' = [answer |-> version + 1]
          /\ version' = version + 1 /\ controls' = controls + 1 /\ UNCHANGED <<Waits!page, reads, Waits!seen>>
      BY <1>3 DEF Waits!ServeControl
    <2>2. WaitsTypes'
      BY <2>1 DEF WaitsTypes, Requests
    <2>3. version + 1 # None /\ control' # None /\ control'.answer = version + 1
      BY <1>0, <2>1 DEF WaitsTypes
    <2>4. Waits!ControlsAreClicks'
      BY <2>1, <2>3 DEF WaitsTypes, Waits!ControlsAreClicks
    <2> QED  BY <2>1, <2>2, <2>3, <2>4 DEF OneRequest, AnswersAreLater, DoubtHasMessage,
                  Waits!ListFollowsControl, Waits!DoubtIsTold
  <1>4. CASE Waits!refresh
    <2>1. reads = {} /\ control = None /\ reads' = {Waits!Unanswered} /\ busy' = TRUE
      BY <1>4 DEF Waits!refresh, Waits!Begin, OneRequest
    <2>2. WaitsTypes'
      BY <1>0, <1>4, <2>1 DEF Waits!refresh, WaitsTypes, Requests
    <2> QED  BY <1>0, <1>4, <2>1, <2>2 DEF Waits!refresh, OneRequest, AnswersAreLater,
           DoubtHasMessage, Waits!ControlsAreClicks, Waits!ListFollowsControl,
           Waits!DoubtIsTold
  <1>5. CASE \E r \in reads : Waits!Refreshed(r)
    <2>1. PICK r \in reads : Waits!Refreshed(r)
      BY <1>5
    <2>2. reads' = {} /\ control' = None /\ busy' = FALSE /\ shown' = r.answer /\ r.answer \in confirmed .. version
      BY <1>0, <2>1 DEF Waits!Refreshed, OneRequest
    <2>3. WaitsTypes'
      BY <2>1, <2>2 DEF Waits!Refreshed, WaitsTypes, Requests
    <2>4. OneRequest' /\ AnswersAreLater' /\ DoubtHasMessage'
      BY <2>1, <2>2 DEF Waits!Refreshed, OneRequest, AnswersAreLater, DoubtHasMessage
    <2>5. Waits!ListFollowsControl' /\ Waits!DoubtIsTold' /\ Waits!ControlsAreClicks'
      BY <2>1, <2>2 DEF Waits!Refreshed, WaitsTypes, Waits!ControlsAreClicks,
             Waits!ListFollowsControl, Waits!DoubtIsTold, DoubtHasMessage
    <2> QED  BY <2>3, <2>4, <2>5
  <1>6. CASE \E r \in reads : Waits!RefreshFails(r)
    <2>1. PICK r \in reads : Waits!RefreshFails(r)
      BY <1>6
    <2>2. reads' = {} /\ control' = None /\ busy' = FALSE /\ told' = "read"
      BY <2>1 DEF Waits!RefreshFails, OneRequest
    <2>3. WaitsTypes'
      BY <2>1, <2>2 DEF Waits!RefreshFails, WaitsTypes, Requests
    <2> QED  BY <2>1, <2>2, <2>3 DEF Waits!RefreshFails, OneRequest, AnswersAreLater,
           DoubtHasMessage, Waits!ControlsAreClicks, Waits!ListFollowsControl,
           Waits!DoubtIsTold
  <1>7. CASE Waits!Click
    <2>1. reads = {} /\ control = None /\ control' = Waits!Unanswered /\ busy' = TRUE /\ clicks' = clicks + 1
      BY <1>7 DEF Waits!Click, Waits!Begin, OneRequest
    <2>2. WaitsTypes'
      BY <1>0, <1>7, <2>1 DEF Waits!Click, WaitsTypes, Requests
    <2>3. Waits!ControlsAreClicks'
      BY <1>0, <1>7, <2>1 DEF Waits!Click, WaitsTypes, Waits!ControlsAreClicks
    <2> QED  BY <1>0, <1>7, <2>1, <2>2, <2>3 DEF Waits!Click, OneRequest, AnswersAreLater,
           DoubtHasMessage, Waits!ListFollowsControl, Waits!DoubtIsTold
  <1>8. CASE Waits!Controlled
    <2>1. /\ reads = {} /\ reads' = {Waits!Unanswered} /\ control' = None /\ busy' = TRUE /\ doubt' = FALSE
          /\ control.answer \in 0 .. version /\ confirmed' = control.answer /\ message' = FALSE
      BY <1>8 DEF Waits!Controlled, Waits!ThenRefresh, OneRequest, WaitsTypes, Requests
    <2>2. WaitsTypes'
      BY <1>0, <1>8, <2>1 DEF Waits!Controlled, WaitsTypes, Requests
    <2>3. Waits!ControlsAreClicks'
      BY <1>8, <2>1 DEF Waits!Controlled, WaitsTypes, Waits!ControlsAreClicks
    <2> QED  BY <1>0, <2>1, <2>2, <2>3 DEF OneRequest, AnswersAreLater, DoubtHasMessage,
                  Waits!ListFollowsControl, Waits!DoubtIsTold
  <1>9. CASE Waits!ControlFails
    <2>1. /\ reads = {} /\ reads' = {Waits!Unanswered} /\ control' = None /\ busy' = TRUE /\ message' = TRUE
          /\ doubt' = TRUE /\ UNCHANGED <<Waits!service, capable, shown, clicks, confirmed>> /\ told' = "operation"
      BY <1>9 DEF Waits!ControlFails, Waits!ThenRefresh, OneRequest
    <2>2. WaitsTypes'
      BY <1>0, <2>1 DEF WaitsTypes, Requests
    <2>3. Waits!ControlsAreClicks'
      BY <2>1 DEF WaitsTypes, Waits!ControlsAreClicks
    <2> QED  BY <1>0, <2>1, <2>2, <2>3 DEF OneRequest, AnswersAreLater, DoubtHasMessage,
                  Waits!ListFollowsControl, Waits!DoubtIsTold
  <1>10. CASE UNCHANGED Waits!vars
    <2>1. WaitsTypes'
      BY <1>10 DEF Waits!vars, WaitsTypes, Requests
    <2> QED  BY <1>10, <2>1 DEF Waits!vars, OneRequest, AnswersAreLater, DoubtHasMessage,
                  Waits!ControlsAreClicks, Waits!ListFollowsControl, Waits!DoubtIsTold
  <1> QED  BY <1>1, <1>2, <1>3, <1>4, <1>5, <1>6, <1>7, <1>8, <1>9, <1>10 DEF Waits!Next

\* A control of an experiment is carried out at most once per click; the list
\* does not go back behind one that was confirmed; and one that is in doubt is
\* told of as long as it is.
THEOREM ControlsAreSafe ==
    ASSUME Waits!ContinuationPanelAssumption
    PROVE  Waits!Spec => /\ []Waits!ControlsAreClicks
                         /\ []Waits!ListFollowsControl
                         /\ []Waits!DoubtIsTold
  <1>1. Waits!Init => WaitsInv
    BY InitWaits
  <1>2. WaitsInv /\ [Waits!Next]_(Waits!vars) => WaitsInv'
    BY NextWaits
  <1>3. WaitsInv => Waits!ControlsAreClicks /\ Waits!ListFollowsControl /\ Waits!DoubtIsTold
    BY DEF WaitsInv
  <1> QED  BY <1>1, <1>2, <1>3, PTL DEF Waits!Spec

\* The panel of the experiments is busy exactly as long as a request is out, and
\* shows a list there was (continuations.js:45-67).
LEMMA ListTypes ==
    ASSUME Waits!ContinuationPanelAssumption
    PROVE  Waits!Spec => []Waits!TypeOK
  <1>1. Waits!Init => WaitsInv /\ version <= MaxChanges
    <2>1. Waits!Init => version <= MaxChanges
      BY DEF Waits!Init, Waits!ContinuationPanelAssumption
    <2> QED  BY <2>1, InitWaits
  <1>2. WaitsInv /\ version <= MaxChanges /\ [Waits!Next]_(Waits!vars)
        => WaitsInv' /\ (version <= MaxChanges)'
    <2> SUFFICES ASSUME WaitsInv, version <= MaxChanges, [Waits!Next]_(Waits!vars)
                 PROVE  version' <= MaxChanges
      BY NextWaits
    <2>1. version \in Nat /\ MaxChanges \in Nat
      BY DEF WaitsInv, WaitsTypes, Waits!ContinuationPanelAssumption
    <2>2. version' = version \/ (version < MaxChanges /\ version' = version + 1)
      BY DEF Waits!Next, Waits!Scheduler, Waits!ServeRead, Waits!ServeControl, Waits!refresh,
             Waits!Refreshed, Waits!RefreshFails, Waits!Click, Waits!Controlled,
             Waits!ControlFails, Waits!vars, Waits!service
    <2> QED  BY <2>1, <2>2
  <1>3. WaitsInv /\ version <= MaxChanges => Waits!TypeOK
    <2> SUFFICES ASSUME WaitsInv, version <= MaxChanges PROVE Waits!TypeOK
      OBVIOUS
    <2>1. WaitsTypes /\ OneRequest
      BY DEF WaitsInv
    <2>2. version \in 0 .. MaxChanges /\ shown \in 0 .. version \cup {None}
      BY <2>1 DEF WaitsTypes, Waits!ContinuationPanelAssumption
    <2>3. busy \in BOOLEAN /\ (busy <=> reads # {} \/ control # None)
      BY <2>1 DEF WaitsTypes, OneRequest
    <2>4. busy = (reads # {} \/ control # None)
      BY <2>3, Zenon
    <2> QED  BY <2>1, <2>2, <2>4 DEF WaitsTypes, Waits!TypeOK
  <1> QED  BY <1>1, <1>2, <1>3, PTL DEF Waits!Spec

-----------------------------------------------------------------------------
(* The panel of the cleanup, for any number of clicks and checks, and any   *)
(* loss and delay of requests and answers.                                  *)

\* The instance counts as this module does.
LEMMA PolicyFinite ==
    ASSUME NEW S
    PROVE  /\ Policy!Cardinality(S) = Cardinality(S)
           /\ Policy!IsFiniteSet(S) <=> IsFiniteSet(S)
  BY DEF Policy!Cardinality, Cardinality, Policy!IsFiniteSet, IsFiniteSet

LEMMA InitPolicy ==
    ASSUME Policy!PanelAssumption, Policy!Init
    PROVE  Policy!Types /\ Policy!WritesCounted /\ Policy!DetailFollows
           /\ Policy!OneOperation /\ Policy!AnswersHold
  <1>1. late = {} /\ Policy!IsFiniteSet(late) /\ Policy!Cardinality(late) = 0
    BY FS_EmptySet, PolicyFinite DEF Policy!Init
  <1>2. Policy!TypeOK
    <2>1. version \in [Audits -> 0 .. MaxChecks]
      BY DEF Policy!Init, Policy!PanelAssumption
    <2> QED  BY <2>1 DEF Policy!Init, Policy!TypeOK
  <1>3. Policy!Types
    BY <1>1, <1>2 DEF Policy!Init, Policy!Types
  <1>4. Policy!WritesCounted
    BY <1>1 DEF Policy!Init, Policy!WritesCounted, Policy!Unwritten
  <1> QED  BY <1>1, <1>3, <1>4 DEF Policy!Init, Policy!DetailFollows, Policy!DetailIsSelected,
                Policy!OneOperation, Policy!AnswersHold

\* What the service answers, and what the page asks for.
LEMMA PolicyRecords ==
    ASSUME Policy!PanelAssumption, Policy!Types
    PROVE  /\ Policy!Current \in Policy!Result /\ Policy!Current # None
           /\ Policy!Current.policy = policy
           /\ post # None => /\ post \in Policy!Change
                             /\ [policy |-> post.enabled, version |-> version] \in Policy!Result
                             /\ [policy |-> post.enabled, version |-> version] # None
           /\ reading # None => reading.answer \in {None} \cup Policy!Result
           /\ \A r \in Policy!Result : r.policy \in BOOLEAN
           /\ \A l \in loads : l.id \in Audits /\ [id |-> l.id, version |-> version[l.id]]
                                                    \in [id: Audits, version: Nat]
  <1>1. version \in [Audits -> Nat] /\ policy \in BOOLEAN
    BY DEF Policy!Types, Policy!TypeOK, Policy!PanelAssumption
  <1>2. Policy!Current \in Policy!Result /\ Policy!Current.policy = policy
    BY <1>1 DEF Policy!Current, Policy!Result
  <1>3. \A b \in BOOLEAN : [policy |-> b, version |-> version] \in Policy!Result
    BY <1>1 DEF Policy!Result
  <1>4. None \notin Policy!Result
    BY DEF Policy!PanelAssumption
  <1>5. post # None => post \in Policy!Change /\ post.enabled \in BOOLEAN
    BY DEF Policy!Types, Policy!Change
  <1>6. reading # None => reading.answer \in {None} \cup Policy!Result
    BY DEF Policy!Types
  <1>7. \A l \in loads : l.id \in Audits
    BY DEF Policy!Types, Policy!Load
  <1> QED  BY <1>1, <1>2, <1>3, <1>4, <1>5, <1>6, <1>7 DEF Policy!Result

\* A click adds a write that is not carried out yet, and no other step adds one.
LEMMA NextWritesCounted ==
    ASSUME Policy!PanelAssumption, Policy!Types, Policy!WritesCounted,
           [Policy!Next]_(Policy!vars)
    PROVE  Policy!WritesCounted' /\ Policy!IsFiniteSet(late)' /\ writes' \in Nat /\ clicks' \in Nat
  <1>0. /\ IsFiniteSet(late) /\ Cardinality(late) \in Nat /\ writes \in Nat /\ clicks \in Nat
        /\ Policy!Unwritten \in {0, 1} /\ Policy!Unwritten' \in {0, 1}
        /\ writes + Cardinality(late) + Policy!Unwritten <= clicks
    BY PolicyFinite, FS_CardinalityType DEF Policy!Types, Policy!WritesCounted, Policy!Unwritten
  <1> SUFFICES /\ IsFiniteSet(late') /\ writes' \in Nat /\ clicks' \in Nat
               /\ writes' + Cardinality(late') + Policy!Unwritten' <= clicks'
    BY PolicyFinite DEF Policy!WritesCounted
  <1>1. CASE Policy!Write
    <2>1. Policy!Unwritten = 1 /\ writes' = writes + 1 /\ late' = late /\ clicks' = clicks
      BY <1>1 DEF Policy!Write, Policy!Unwritten, Policy!seen
    <2>2. post'.answer # None
      BY <1>1, PolicyRecords DEF Policy!Write, Policy!Change
    <2>3. Policy!Unwritten' = 0
      BY <2>2 DEF Policy!Unwritten
    <2> QED  BY <1>0, <2>1, <2>3
  <1>2. CASE \E w \in late : Policy!LateWrite(w)
    <2> PICK w \in late : Policy!LateWrite(w)
      BY <1>2
    <2>1. writes' = writes + 1 /\ late' = late \ {w} /\ UNCHANGED <<clicks, post>>
      BY DEF Policy!LateWrite, Policy!seen
    <2>2. IsFiniteSet(late') /\ Cardinality(late') = Cardinality(late) - 1
      BY <1>0, <2>1, FS_RemoveElement
    <2>3. Policy!Unwritten' = Policy!Unwritten
      BY <2>1 DEF Policy!Unwritten
    <2> QED  BY <1>0, <2>1, <2>2, <2>3
  <1>3. CASE Policy!changePolicy
    <2>1. clicks' = clicks + 1 /\ UNCHANGED <<writes, late>> /\ Policy!Unwritten' <= 1
      BY <1>0, <1>3 DEF Policy!changePolicy, Policy!service
    <2> QED  BY <1>0, <2>1
  <1>4. CASE Policy!SaveFails
    <2>1. post # None /\ post' = None /\ UNCHANGED <<writes, clicks>> /\ Policy!Unwritten' = 0
      BY <1>4 DEF Policy!SaveFails, Policy!service, Policy!Unwritten
    <2>2. CASE late' = late
      BY <1>0, <2>1, <2>2
    <2>3. CASE post.answer = None /\ late' = late \cup {post}
      <3>1. /\ IsFiniteSet(late \cup {post})
            /\ Cardinality(late \cup {post}) = IF post \in late THEN Cardinality(late)
                                                             ELSE Cardinality(late) + 1
        BY <1>0, FS_AddElement
      <3>2. Policy!Unwritten = 1
        BY <2>1, <2>3 DEF Policy!Unwritten
      <3> QED  BY <1>0, <2>1, <2>3, <3>1, <3>2
    <2> QED  BY <1>4, <2>2, <2>3 DEF Policy!SaveFails, Policy!GivenUp
  <1>5. CASE Policy!Saved
    <2>1. post' = None /\ UNCHANGED <<writes, clicks, late>> /\ Policy!Unwritten' = 0
      BY <1>5 DEF Policy!Saved, Policy!service, Policy!seen, Policy!Unwritten
    <2> QED  BY <1>0, <2>1
  <1>6. CASE UNCHANGED <<writes, late, post, clicks>>
    <2>1. Policy!Unwritten' = Policy!Unwritten
      BY <1>6 DEF Policy!Unwritten
    <2> QED  BY <1>0, <1>6, <2>1
  <1> QED  BY <1>1, <1>2, <1>3, <1>4, <1>5, <1>6 DEF Policy!Next, Policy!Read, Policy!CheckAdds,
        Policy!refresh, Policy!Refreshed, Policy!RefreshFails, Policy!ChooseAudit, Policy!Unfold,
        Policy!Confirmed, Policy!Unconfirmed, Policy!ReadAudit, Policy!AuditRead, Policy!AuditFails,
        Policy!vars, Policy!service, Policy!net, Policy!seen

\* Values keep their kinds, those in requests and answers included.
LEMMA NextPolicyTypes ==
    ASSUME Policy!PanelAssumption, Policy!Types, Policy!WritesCounted,
           [Policy!Next]_(Policy!vars)
    PROVE  Policy!Types'
  <1> DEFINE Result == Policy!Result
             Versions == [id: Audits, version: Nat]
  <1>0. /\ policy \in BOOLEAN /\ available \in BOOLEAN /\ version \in [Audits -> 0 .. MaxChecks]
        /\ MaxChecks \in Nat /\ busy \in {"refresh", "detail", "save", "confirm", None}
        /\ available => status # None
        /\ selected \in Audits \cup {None} /\ sequence \in Sequences
        /\ status \in {None} \cup Result /\ loads \subseteq Policy!Load
        /\ post \in {None} \cup Policy!Change /\ late \subseteq Policy!Change
        /\ reading \in {None} \cup [answer: {None} \cup Result]
    BY DEF Policy!Types, Policy!TypeOK, Policy!PanelAssumption, Policy!Operations
  <1>1. writes' \in Nat /\ clicks' \in Nat /\ Policy!IsFiniteSet(late)'
    BY NextWritesCounted
  <1> SUFFICES
        /\ policy' \in BOOLEAN /\ available' \in BOOLEAN /\ version' \in [Audits -> 0 .. MaxChecks]
        /\ busy' \in {"refresh", "detail", "save", "confirm", None}
        /\ available' => status' # None
        /\ selected' \in Audits \cup {None} /\ sequence' \in Sequences
        /\ status' \in {None} \cup Result /\ loads' \subseteq Policy!Load
        /\ post' \in {None} \cup Policy!Change /\ late' \subseteq Policy!Change
        /\ reading' \in {None} \cup [answer: {None} \cup Result]
    BY <1>1 DEF Policy!Types, Policy!TypeOK, Policy!Operations, Policy!Load
  <1>2. /\ Policy!Current \in Result
        /\ \A b \in BOOLEAN : [policy |-> b, version |-> version] \in Result
        /\ None \notin Result
    BY <1>0 DEF Policy!Current, Policy!Result, Policy!PanelAssumption
  <1>3. \A a, by : a \in Audits /\ Policy!loadAudit(a, by) /\ by \in {"reader", "refresh"}
            => /\ selected' \in Audits /\ sequence' \in Sequences
               /\ loads' \subseteq Policy!Load
    BY <1>0 DEF Policy!loadAudit, Policy!Load
  <1> HIDE DEF Result, Versions
  <1>4. CASE Policy!Write
    <2>1. post \in Policy!Change /\ post.enabled \in BOOLEAN
      BY <1>0, <1>4 DEF Policy!Write, Policy!Change
    <2>2. post' \in Policy!Change
      BY <1>2, <1>4, <2>1 DEF Policy!Write, Policy!Change, Result
    <2> QED  BY <1>0, <1>4, <2>1, <2>2 DEF Policy!Write, Policy!state, Policy!detail, Policy!seen
  <1>5. CASE \E w \in late : Policy!LateWrite(w)
    <2> PICK w \in late : Policy!LateWrite(w)
      BY <1>5
    <2>1. w.enabled \in BOOLEAN
      BY <1>0 DEF Policy!Change
    <2> QED  BY <1>0, <2>1 DEF Policy!LateWrite, Policy!state, Policy!detail, Policy!seen
  <1>6. CASE Policy!Read
    <2>1. reading' \in [answer: {None} \cup Result]
      BY <1>2, <1>6 DEF Policy!Read
    <2> QED  BY <1>0, <1>6, <2>1
                  DEF Policy!Read, Policy!service, Policy!state, Policy!detail, Policy!seen
  <1>7. CASE Policy!CheckAdds
    <2>1. version' \in [Audits -> 0 .. MaxChecks]
      <3>1. PICK a \in Audits : version[a] < MaxChecks /\ version' = [version EXCEPT ![a] = @ + 1]
        BY <1>7 DEF Policy!CheckAdds
      <3>2. version[a] + 1 \in 0 .. MaxChecks
        BY <1>0, <3>1
      <3> QED  BY <1>0, <3>1, <3>2
    <2> QED  BY <1>0, <1>7, <2>1
                  DEF Policy!CheckAdds, Policy!state, Policy!detail, Policy!net, Policy!seen
  <1>8. CASE \E l \in loads : Policy!ReadAudit(l)
    <2> PICK l \in loads : Policy!ReadAudit(l)
      BY <1>8
    <2>1. l \in Policy!Load /\ version[l.id] \in Nat
      BY <1>0 DEF Policy!Load
    <2>2. [l EXCEPT !.answer = [id |-> l.id, version |-> version[l.id]]] \in Policy!Load
      BY <2>1 DEF Policy!Load
    <2>3. loads' \subseteq Policy!Load
      BY <1>0, <2>2 DEF Policy!ReadAudit
    <2> QED  BY <1>0, <2>3
                  DEF Policy!ReadAudit, Policy!service, Policy!state, Policy!detail, Policy!seen
  <1>9. CASE Policy!Refreshed
    <2>1. reading.answer \in Result
      BY <1>0, <1>9 DEF Policy!Refreshed
    <2>2. status' = reading.answer /\ available' = TRUE /\ reading' = None
          /\ UNCHANGED <<policy, version, post, late>>
      BY <1>9 DEF Policy!Refreshed, Policy!acceptStatus, Policy!service, Policy!seen
    <2>3. CASE unfolded /\ Policy!Newer(reading.answer)
      <3>1. selected \in Audits /\ Policy!loadAudit(selected, "refresh") /\ busy' = "detail"
        BY <1>0, <1>9, <2>3 DEF Policy!Refreshed, Policy!Newer
      <3> QED  BY <1>0, <1>2, <1>3, <2>1, <2>2, <3>1
    <2>4. CASE ~(unfolded /\ Policy!Newer(reading.answer))
      <3>1. UNCHANGED <<selected, sequence, loads>> /\ busy' = None
        BY <1>9, <2>4 DEF Policy!Refreshed, Policy!detail
      <3> QED  BY <1>0, <1>2, <2>1, <2>2, <3>1
    <2> QED  BY <2>3, <2>4
  <1>10. CASE Policy!ChooseAudit
    <2>1. PICK a \in Audits : Policy!loadAudit(a, "reader")
      BY <1>10 DEF Policy!ChooseAudit
    <2> QED  BY <1>0, <1>3, <1>10, <2>1
                  DEF Policy!ChooseAudit, Policy!service, Policy!state, Policy!seen
  <1>11. CASE Policy!changePolicy
    <2>1. status.policy \in BOOLEAN /\ clicks' \in Nat
      BY <1>0, <1>1, <1>11 DEF Policy!changePolicy, Policy!Result, Result
    <2>2. post' \in Policy!Change /\ busy' = "save"
      BY <1>11, <2>1 DEF Policy!changePolicy, Policy!Change
    <2> QED  BY <1>0, <1>11, <2>2 DEF Policy!changePolicy, Policy!service, Policy!detail
  <1>12. CASE Policy!Saved
    <2>1. post.answer \in Result
      BY <1>0, <1>12 DEF Policy!Saved, Policy!Change, Result
    <2> QED  BY <1>0, <1>2, <1>12, <2>1 DEF Policy!Saved, Policy!acceptStatus, Policy!service,
                  Policy!detail, Policy!seen
  <1>13. CASE Policy!Confirmed
    <2>1. reading.answer \in Result
      BY <1>0, <1>13 DEF Policy!Confirmed
    <2> QED  BY <1>0, <1>2, <1>13, <2>1 DEF Policy!Confirmed, Policy!acceptStatus, Policy!service,
                  Policy!detail, Policy!seen
  <1>14. CASE Policy!SaveFails
    <2>1. reading' \in [answer: {None} \cup Result] /\ post' = None /\ late' \subseteq Policy!Change
      BY <1>0, <1>14 DEF Policy!SaveFails, Policy!GivenUp
    <2> QED  BY <1>0, <1>14, <2>1 DEF Policy!SaveFails, Policy!service, Policy!detail
  <1>15. CASE Policy!refresh
    <2>1. reading' \in [answer: {None} \cup Result]
      BY <1>15 DEF Policy!refresh
    <2> QED  BY <1>0, <1>15, <2>1 DEF Policy!refresh, Policy!service, Policy!detail, Policy!seen
  <1>16. CASE \E l \in loads : Policy!AuditRead(l) \/ Policy!AuditFails(l)
    BY <1>0, <1>16 DEF Policy!AuditRead, Policy!AuditFails, Policy!Ends, Policy!service,
       Policy!detail, Policy!seen
  <1>17. CASE Policy!RefreshFails \/ Policy!Unconfirmed \/ Policy!Unfold
    <2>1. CASE Policy!RefreshFails
      BY <1>0, <2>1 DEF Policy!RefreshFails, Policy!service, Policy!detail, Policy!seen
    <2>2. CASE Policy!Unconfirmed
      BY <1>0, <2>2 DEF Policy!Unconfirmed, Policy!service, Policy!detail, Policy!seen
    <2>3. CASE Policy!Unfold
      BY <1>0, <2>3 DEF Policy!Unfold, Policy!service, Policy!detail, Policy!state, Policy!net,
         Policy!seen
    <2> QED  BY <1>17, <2>1, <2>2, <2>3
  <1>18. CASE UNCHANGED Policy!vars
    BY <1>0, <1>18 DEF Policy!vars, Policy!service, Policy!detail, Policy!state, Policy!net,
       Policy!seen
  <1> QED  BY <1>4, <1>5, <1>6, <1>7, <1>8, <1>9, <1>10, <1>11, <1>12, <1>13, <1>14, <1>15,
                <1>16, <1>17, <1>18 DEF Policy!Next

\* The details, by the sequence of the load that brought them.
LEMMA NextDetailFollows ==
    ASSUME Policy!PanelAssumption, Policy!Types, Policy!DetailFollows,
           [Policy!Next]_(Policy!vars)
    PROVE  Policy!DetailFollows'
  <1>0. /\ audit # None => selected = audit.id
        /\ \A l \in loads : /\ l.seq = sequence => l.id = selected
                            /\ l.answer # None => l.answer.id = l.id
        /\ \A l \in loads : l \in Policy!Load
    BY DEF Policy!DetailFollows, Policy!DetailIsSelected, Policy!Types
  <1> SUFFICES
        /\ audit' # None => selected' = audit'.id
        /\ \A l \in loads' : /\ l.seq = sequence' => l.id = selected'
                             /\ l.answer # None => l.answer.id = l.id
    BY DEF Policy!DetailFollows, Policy!DetailIsSelected
  <1>1. ASSUME NEW a, NEW by, Policy!loadAudit(a, by)
        PROVE  /\ audit' # None => selected' = audit'.id
               /\ \A l \in loads' : /\ l.seq = sequence' => l.id = selected'
                                    /\ l.answer # None => l.answer.id = l.id
    <2>1. audit' = None /\ selected' = a /\ \A l \in loads : l.seq # sequence'
      BY <1>1 DEF Policy!loadAudit
    <2>2. loads' = loads \cup {[id |-> a, seq |-> sequence', by |-> by, answer |-> None]}
      BY <1>1 DEF Policy!loadAudit
    <2> QED  BY <1>0, <2>1, <2>2
  <1>2. CASE Policy!Refreshed
    <2>1. CASE Policy!loadAudit(selected, "refresh")
      BY <1>1, <2>1
    <2>2. CASE UNCHANGED <<Policy!detail, loads>>
      BY <1>0, <2>2 DEF Policy!detail
    <2> QED  BY <1>2, <2>1, <2>2 DEF Policy!Refreshed
  <1>3. CASE Policy!ChooseAudit
    BY <1>1, <1>3 DEF Policy!ChooseAudit
  <1>4. CASE \E l \in loads : Policy!ReadAudit(l)
    <2> PICK l \in loads : Policy!ReadAudit(l)
      BY <1>4
    <2> DEFINE read == [l EXCEPT !.answer = [id |-> l.id, version |-> version[l.id]]]
    <2>1. read.seq = l.seq /\ read.id = l.id /\ read.answer.id = l.id
      BY <1>0 DEF Policy!Load
    <2>2. loads' = (loads \ {l}) \cup {read} /\ UNCHANGED <<selected, audit, sequence>>
      BY DEF Policy!ReadAudit, Policy!detail
    <2> HIDE DEF read
    <2> QED  BY <1>0, <2>1, <2>2
  <1>5. CASE \E l \in loads : Policy!AuditRead(l)
    <2> PICK l \in loads : Policy!AuditRead(l)
      BY <1>5
    <2>1. /\ UNCHANGED <<selected, sequence>> /\ loads' \subseteq loads /\ l.answer # None
          /\ audit' = IF l.seq = sequence THEN l.answer ELSE audit
      BY DEF Policy!AuditRead, Policy!Ends, Policy!ShowAudit
    <2> QED  BY <1>0, <2>1
  <1>6. CASE UNCHANGED <<selected, audit, sequence>> /\ loads' \subseteq loads
    BY <1>0, <1>6
  <1> QED  BY <1>2, <1>3, <1>4, <1>5, <1>6 DEF Policy!Next, Policy!Write, Policy!LateWrite,
        Policy!Read, Policy!CheckAdds, Policy!refresh, Policy!RefreshFails, Policy!Unfold,
        Policy!changePolicy, Policy!Saved, Policy!SaveFails, Policy!Confirmed,
        Policy!Unconfirmed, Policy!AuditFails, Policy!Ends, Policy!vars, Policy!detail,
        Policy!net

\* The operation that is under way owns its requests, and the answers about the
\* policy hold as long as no write was given up.
LEMMA NextAnswersHold ==
    ASSUME Policy!PanelAssumption, Policy!Types, Policy!OneOperation, Policy!AnswersHold,
           [Policy!Next]_(Policy!vars)
    PROVE  Policy!OneOperation' /\ Policy!AnswersHold'
  <1>0. /\ None \notin {"refresh", "detail", "save", "confirm"}
        /\ Policy!Current.policy = policy
        /\ loads \subseteq Policy!Load /\ post \in {None} \cup Policy!Change
    BY PolicyRecords DEF Policy!PanelAssumption, Policy!Operations, Policy!Types
  <1>a. /\ post # None => busy = "save"
        /\ reading # None => busy \in {"refresh", "confirm"}
        /\ \A l \in loads : l.by = "refresh" => busy = "detail"
        /\ \A l, m \in loads : l.by = "refresh" /\ m.by = "refresh" => l = m
    BY DEF Policy!OneOperation
  <1>b. ~doubted =>
            /\ late = {}
            /\ reading # None /\ reading.answer # None => reading.answer.policy = policy
            /\ post # None /\ post.answer # None => post.answer.policy = policy
            /\ available /\ busy # "save" => status.policy = policy
    BY DEF Policy!AnswersHold
  <1> SUFFICES
        /\ /\ post' # None => busy' = "save"
           /\ reading' # None => busy' \in {"refresh", "confirm"}
           /\ \A l \in loads' : l.by = "refresh" => busy' = "detail"
           /\ \A l, m \in loads' : l.by = "refresh" /\ m.by = "refresh" => l = m
        /\ ~doubted' =>
            /\ late' = {}
            /\ reading' # None /\ reading'.answer # None => reading'.answer.policy = policy'
            /\ post' # None /\ post'.answer # None => post'.answer.policy = policy'
            /\ available' /\ busy' # "save" => status'.policy = policy'
    BY DEF Policy!OneOperation, Policy!AnswersHold
  <1>1. CASE Policy!Write
    <2>1. /\ post # None /\ post \in Policy!Change /\ policy' = post.enabled
          /\ post' = [post EXCEPT !.answer = [policy |-> post.enabled, version |-> version]]
          /\ UNCHANGED <<busy, reading, loads, late, doubted, status, available>>
      BY <1>0, <1>1 DEF Policy!Write, Policy!state, Policy!seen
    <2>2. post'.answer.policy = policy' /\ busy = "save" /\ reading = None
      BY <1>0, <1>a, <2>1 DEF Policy!Change
    <2> QED  BY <1>a, <1>b, <2>1, <2>2
  <1>2. CASE \E w \in late : Policy!LateWrite(w)
    <2>1. late # {} /\ UNCHANGED <<busy, reading, loads, post, doubted>>
      BY <1>2 DEF Policy!LateWrite, Policy!state, Policy!seen
    <2> QED  BY <1>a, <1>b, <2>1
  <1>3. CASE Policy!Read
    <2>1. /\ reading # None /\ reading'.answer = Policy!Current
          /\ UNCHANGED <<policy, status, available, busy, loads, post, late, doubted>>
      BY <1>3 DEF Policy!Read, Policy!service, Policy!state, Policy!seen
    <2> QED  BY <1>0, <1>a, <1>b, <2>1
  <1>4. CASE Policy!CheckAdds
    BY <1>4, <1>a, <1>b DEF Policy!CheckAdds, Policy!state, Policy!net, Policy!seen
  <1>5. CASE \E l \in loads : Policy!ReadAudit(l)
    <2> PICK l \in loads : Policy!ReadAudit(l)
      BY <1>5
    <2> DEFINE read == [l EXCEPT !.answer = [id |-> l.id, version |-> version[l.id]]]
    <2>1. read.by = l.by
      BY <1>0 DEF Policy!Load
    <2>2. /\ loads' = (loads \ {l}) \cup {read}
          /\ UNCHANGED <<policy, status, available, busy, reading, post, late, doubted>>
      BY DEF Policy!ReadAudit, Policy!service, Policy!state, Policy!seen
    <2> HIDE DEF read
    <2> QED  BY <1>a, <1>b, <2>1, <2>2
  <1>6. CASE Policy!refresh
    <2>1. /\ busy = None /\ busy' = "refresh" /\ reading' = [answer |-> None]
          /\ UNCHANGED <<policy, status, available, loads, post, late, doubted>>
      BY <1>6 DEF Policy!refresh, Policy!service, Policy!seen
    <2>2. post = None /\ (\A l \in loads : l.by # "refresh") /\ reading'.answer = None
      BY <1>0, <1>a, <2>1
    <2> QED  BY <1>0, <1>a, <1>b, <2>1, <2>2
  <1>7. CASE Policy!Refreshed
    <2>1. /\ busy = "refresh" /\ reading # None /\ reading.answer # None /\ reading' = None
          /\ status' = reading.answer /\ UNCHANGED <<policy, post, late, doubted>>
      BY <1>7 DEF Policy!Refreshed, Policy!acceptStatus, Policy!service, Policy!seen
    <2>2. post = None /\ \A l \in loads : l.by # "refresh"
      BY <1>a, <2>1
    <2>3. CASE Policy!loadAudit(selected, "refresh") /\ busy' = "detail"
      <3>1. loads' = loads \cup {[id |-> selected, seq |-> sequence', by |-> "refresh", answer |-> None]}
        BY <2>3 DEF Policy!loadAudit
      <3> QED  BY <1>b, <2>1, <2>2, <2>3, <3>1
    <2>4. CASE loads' = loads /\ busy' = None
      BY <1>0, <1>b, <2>1, <2>2, <2>4
    <2> QED  BY <1>7, <2>3, <2>4 DEF Policy!Refreshed
  <1>8. CASE Policy!RefreshFails \/ Policy!Unconfirmed
    <2>1. /\ busy \in {"refresh", "confirm"} /\ busy' = None /\ reading' = None
          /\ UNCHANGED <<policy, status, loads, post, late, doubted>>
          /\ available' => available
      BY <1>8 DEF Policy!RefreshFails, Policy!Unconfirmed, Policy!service, Policy!seen
    <2>2. post = None /\ \A l \in loads : l.by # "refresh"
      BY <1>a, <2>1
    <2> QED  BY <1>b, <2>1, <2>2
  <1>9. CASE Policy!ChooseAudit
    <2>1. PICK a \in Audits : Policy!loadAudit(a, "reader")
      BY <1>9 DEF Policy!ChooseAudit
    <2>2. loads' = loads \cup {[id |-> a, seq |-> sequence', by |-> "reader", answer |-> None]}
      BY <2>1 DEF Policy!loadAudit
    <2>3. UNCHANGED <<policy, status, available, busy, reading, post, late, doubted>>
      BY <1>9 DEF Policy!ChooseAudit, Policy!service, Policy!state, Policy!seen
    <2> QED  BY <1>a, <1>b, <2>2, <2>3
  <1>10. CASE \E l \in loads : Policy!AuditRead(l) \/ Policy!AuditFails(l)
    <2> PICK l \in loads : Policy!AuditRead(l) \/ Policy!AuditFails(l)
      BY <1>10
    <2>1. /\ loads' = loads \ {l} /\ busy' = IF l.by = "refresh" THEN None ELSE busy
          /\ UNCHANGED <<policy, status, available, reading, post, late, doubted>>
      BY DEF Policy!AuditRead, Policy!AuditFails, Policy!Ends, Policy!service, Policy!seen
    <2>2. CASE l.by = "refresh"
      <3>1. busy = "detail" /\ (\A m \in loads' : m.by # "refresh") /\ post = None /\ reading = None
        BY <1>a, <2>1, <2>2
      <3> QED  BY <1>b, <2>1, <2>2, <3>1
    <2>3. CASE l.by # "refresh"
      BY <1>a, <1>b, <2>1, <2>3
    <2> QED  BY <2>2, <2>3
  <1>11. CASE Policy!changePolicy
    <2>1. /\ busy = None /\ busy' = "save" /\ post'.answer = None
          /\ UNCHANGED <<policy, status, available, reading, loads, late, doubted>>
      BY <1>11 DEF Policy!changePolicy, Policy!service
    <2> QED  BY <1>0, <1>a, <1>b, <2>1
  <1>12. CASE Policy!Saved
    <2>1. /\ busy = "save" /\ post # None /\ post.answer # None /\ post' = None /\ busy' = None
          /\ status' = post.answer /\ UNCHANGED <<policy, reading, loads, late, doubted>>
      BY <1>12 DEF Policy!Saved, Policy!acceptStatus, Policy!service, Policy!seen
    <2> QED  BY <1>a, <1>b, <2>1
  <1>13. CASE Policy!SaveFails
    <2>1. /\ busy = "save" /\ post # None /\ post' = None /\ available' = FALSE
          /\ busy' = "confirm" /\ reading' = [answer |-> None]
          /\ UNCHANGED <<policy, status, loads>>
          /\ ~doubted' => ~doubted /\ late' = late
      BY <1>13 DEF Policy!SaveFails, Policy!GivenUp, Policy!service
    <2>2. reading'.answer = None
      BY <2>1
    <2> QED  BY <1>a, <1>b, <2>1, <2>2
  <1>14. CASE Policy!Confirmed
    <2>1. /\ busy = "confirm" /\ reading # None /\ reading.answer # None /\ reading' = None
          /\ busy' = None /\ status' = reading.answer
          /\ UNCHANGED <<policy, loads, post, late, doubted>>
      BY <1>14 DEF Policy!Confirmed, Policy!acceptStatus, Policy!service, Policy!seen
    <2> QED  BY <1>a, <1>b, <2>1
  <1>15. CASE UNCHANGED <<policy, status, available, busy, loads, reading, post, late, doubted>>
    BY <1>15, <1>a, <1>b
  <1> QED  BY <1>1, <1>2, <1>3, <1>4, <1>5, <1>6, <1>7, <1>8, <1>9, <1>10, <1>11, <1>12,
        <1>13, <1>14, <1>15 DEF Policy!Next, Policy!Unfold, Policy!vars, Policy!service,
        Policy!state, Policy!detail, Policy!net, Policy!seen

PolicyInv ==
    Policy!Types /\ Policy!WritesCounted /\ Policy!DetailFollows
    /\ Policy!OneOperation /\ Policy!AnswersHold

\* The inductive invariant of the panel of the cleanup.
LEMMA PolicyHolds ==
    ASSUME Policy!PanelAssumption
    PROVE  Policy!Spec => []PolicyInv
  <1>1. Policy!Init => PolicyInv
    BY InitPolicy DEF PolicyInv
  <1>2. PolicyInv /\ [Policy!Next]_(Policy!vars) => PolicyInv'
    BY NextPolicyTypes, NextWritesCounted, NextDetailFollows, NextAnswersHold DEF PolicyInv
  <1> QED  BY <1>1, <1>2, PTL DEF Policy!Spec

\* The policy is written at most once per click (cleanup.js:120-143): what is
\* under way or late is counted before it is carried out.
THEOREM WrittenOnce ==
    ASSUME Policy!PanelAssumption
    PROVE  Policy!Spec => []Policy!WritesAreClicks
  <1>1. PolicyInv => Policy!WritesAreClicks
    <2> SUFFICES ASSUME PolicyInv PROVE Policy!WritesAreClicks
      OBVIOUS
    <2>1. /\ IsFiniteSet(late) /\ writes \in Nat /\ clicks \in Nat
          /\ writes + Cardinality(late) + Policy!Unwritten <= clicks
      BY PolicyFinite DEF PolicyInv, Policy!Types, Policy!WritesCounted
    <2>2. Cardinality(late) \in Nat /\ Policy!Unwritten \in {0, 1}
      BY <2>1, FS_CardinalityType DEF Policy!Unwritten
    <2>3. writes + Policy!Unwritten <= clicks
      BY <2>1, <2>2
    <2> QED  BY <2>3 DEF Policy!WritesAreClicks, Policy!Unwritten
  <1> QED  BY <1>1, PolicyHolds, PTL

\* A switch that can be clicked shows the policy that holds, as long as no
\* write was given up, and the details are those of the selected audit
\* (cleanup.js:102, 108-143).
THEOREM SwitchIsTrue ==
    ASSUME Policy!PanelAssumption
    PROVE  Policy!Spec => /\ []Policy!TypeOK /\ []Policy!DetailIsSelected
                          /\ []Policy!SwitchShowsPolicy
  <1>1. PolicyInv => Policy!SwitchShowsPolicy
    <2>1. Policy!PanelAssumption => None # "save"
      BY DEF Policy!PanelAssumption, Policy!Operations
    <2> QED  BY <2>1 DEF PolicyInv, Policy!AnswersHold, Policy!SwitchShowsPolicy
  <1>2. PolicyInv => Policy!TypeOK /\ Policy!DetailIsSelected
    BY DEF PolicyInv, Policy!Types, Policy!DetailFollows
  <1> QED  BY <1>1, <1>2, PolicyHolds, PTL

-----------------------------------------------------------------------------
(* The pages of the grid, for any number of machines, lists and layouts,    *)
(* and timers that come at any time.                                        *)

\* Every second the deadline comes nearer the reader was quiet for.
QuietOrWaiting == quiet + left >= seconds
PagerInv ==
    /\ quiet \in Nat /\ left \in Nat /\ seconds \in Nat
    /\ QuietOrWaiting

LEMMA InitPager ==
    ASSUME Pager!PagingAssumption, Pager!Init
    PROVE  PagerInv
  BY DEF Pager!PagingAssumption, Pager!Init, PagerInv, QuietOrWaiting

\* What starts the dwell again also ends the quiet, except a save.
LEMMA NextPager ==
    ASSUME Pager!PagingAssumption, PagerInv, [Pager!Next]_(Pager!vars)
    PROVE  PagerInv'
  <1>0. /\ quiet \in Nat /\ left \in Nat /\ seconds \in Nat /\ quiet + left >= seconds
        /\ Rates \cup {0} \subseteq Nat
    BY DEF PagerInv, QuietOrWaiting, Pager!PagingAssumption
  <1> SUFFICES quiet' \in Nat /\ left' \in Nat /\ seconds' \in Nat /\ quiet' + left' >= seconds'
    BY DEF PagerInv, QuietOrWaiting
  <1>1. CASE Pager!Second
    BY <1>0, <1>1 DEF Pager!Second
  <1>2. CASE Pager!Tick
    <2>1. (left' = left \/ left' = seconds) /\ quiet' = quiet /\ seconds' = seconds
      BY <1>2 DEF Pager!Tick, Pager!TickSuspended, Pager!TickWaits, Pager!TickTurns, Pager!render
    <2> QED  BY <1>0, <2>1
  <1>3. CASE Pager!Render
    <2>1. (left' = left \/ left' = seconds) /\ quiet' = quiet /\ seconds' = seconds
      BY <1>3 DEF Pager!Render, Pager!render
    <2> QED  BY <1>0, <2>1
  <1>4. CASE Pager!Filter \/ Pager!Previous \/ Pager!Following
    <2>1. left' = seconds /\ quiet' = 0 /\ seconds' = seconds
      BY <1>4 DEF Pager!Filter, Pager!Previous, Pager!Following, Pager!render
    <2> QED  BY <1>0, <2>1
  <1>5. CASE Pager!setSeconds
    BY <1>0, <1>5 DEF Pager!setSeconds
  <1>6. CASE \E b \in Blockers : Pager!Block(b)
    BY <1>0, <1>6 DEF Pager!Block
  <1>7. CASE \E b \in Blockers : Pager!Unblock(b)
    <2> PICK b \in Blockers : Pager!Unblock(b)
      BY <1>7
    <2>1. CASE b = "busy"
      <3>1. UNCHANGED <<left, quiet, seconds>>
        BY <2>1 DEF Pager!Unblock, Pager!ResetsAtEnd
      <3> QED  BY <1>0, <3>1
    <2>2. CASE b # "busy"
      <3>1. Pager!ResetsAtEnd(b)
        BY <2>2 DEF Pager!PagingAssumption, Pager!ResetsAtEnd
      <3>2. left' = seconds /\ quiet' = 0 /\ seconds' = seconds
        BY <2>2, <3>1 DEF Pager!Unblock
      <3> QED  BY <1>0, <3>2
    <2> QED  BY <2>1, <2>2
  <1>8. CASE UNCHANGED <<left, quiet, seconds>>
    BY <1>0, <1>8
  <1> QED  BY <1>1, <1>2, <1>3, <1>4, <1>5, <1>6, <1>7, <1>8
             DEF Pager!Next, Pager!Reconfigure, Pager!vars

\* A page turns by itself only when the reader has left it alone for the whole
\* interval, however late timers are (page-rotation.js:11-31).
THEOREM TurnedAfterDwell ==
    ASSUME Pager!PagingAssumption
    PROVE  Pager!Spec => [][Pager!TurnsAfterDwell]_(Pager!vars)
  <1>1. Pager!Init => PagerInv
    BY InitPager
  <1>2. PagerInv /\ [Pager!Next]_(Pager!vars) => PagerInv'
    BY NextPager
  <1>3. PagerInv => Pager!TurnsAfterDwell
    BY DEF PagerInv, QuietOrWaiting, Pager!TurnsAfterDwell, Pager!TickTurns
  <1> QED  BY <1>1, <1>2, <1>3, PTL DEF Pager!Spec

\* The instance counts as this module does.
LEMMA PagerFinite ==
    ASSUME NEW S
    PROVE  Pager!Cardinality(S) = Cardinality(S) /\ (Pager!IsFiniteSet(S) <=> IsFiniteSet(S))
  BY DEF Pager!Cardinality, Cardinality, Pager!IsFiniteSet, IsFiniteSet

\* In a finite set of numbers there is one at each position: positions differ,
\* and if one were missing there would be more numbers than positions.
LEMMA EveryPosition ==
    ASSUME NEW S, S \subseteq Nat, IsFiniteSet(S), NEW r \in Nat, r < Cardinality(S)
    PROVE  \E m \in S : Cardinality({k \in S : k < m}) = r
  <1> DEFINE Below(m) == {k \in S : k < m}
             Rank == [m \in S |-> Cardinality(Below(m))]
             Others == (0 .. (Cardinality(S) - 1)) \ {r}
  <1>1. Cardinality(S) \in Nat
    BY FS_CardinalityType
  <1>2. ASSUME NEW m \in S
        PROVE  /\ IsFiniteSet(Below(m)) /\ Cardinality(Below(m)) \in Nat
               /\ Cardinality(Below(m)) < Cardinality(S)
    <2>1. IsFiniteSet(S \ {m}) /\ Cardinality(S \ {m}) = Cardinality(S) - 1
      BY FS_RemoveElement
    <2>2. Below(m) \in SUBSET (S \ {m})
      OBVIOUS
    <2> HIDE DEF Below
    <2>3. IsFiniteSet(Below(m)) /\ Cardinality(Below(m)) <= Cardinality(S \ {m})
      BY <2>1, <2>2, FS_Subset
    <2>4. Cardinality(Below(m)) \in Nat
      BY <2>3, FS_CardinalityType
    <2> QED  BY <1>1, <2>1, <2>3, <2>4
  <1>3. ASSUME NEW m \in S, NEW k \in S, k < m
        PROVE  Cardinality(Below(k)) # Cardinality(Below(m))
    <2>1. \A x \in S : x < k => x < m
      BY <1>3
    <2>2. Below(k) \in SUBSET Below(m)
      BY <2>1
    <2>3. k \in Below(m)
      BY <1>3
    <2>4. ~(k < k)
      OBVIOUS
    <2>5. k \notin Below(k)
      BY <2>4
    <2>6. IsFiniteSet(Below(m))
      BY <1>2
    <2> HIDE DEF Below
    <2> QED  BY <2>2, <2>3, <2>5, <2>6, FS_Subset
  <1>4. IsFiniteSet(Others) /\ Cardinality(Others) < Cardinality(S)
    <2> DEFINE last == Cardinality(S) - 1
               Places == 0 .. last
    <2>0. last \in Int /\ last >= 0 /\ Cardinality(S) = last + 1
      BY <1>1
    <2>1. IsFiniteSet(Places) /\ Cardinality(Places) = Cardinality(S)
      <3> HIDE DEF last
      <3> QED  BY <2>0, FS_Interval
    <2>2. r \in Places
      BY <1>1
    <2>3. IsFiniteSet(Places \ {r}) /\ Cardinality(Places \ {r}) = Cardinality(Places) - 1
      BY <2>1, <2>2, FS_RemoveElement
    <2> QED  BY <1>1, <2>1, <2>3
  <1>5. SUFFICES ASSUME \A m \in S : Rank[m] # r
                 PROVE  FALSE
    OBVIOUS
  <1>6. Rank \in [S -> Others]
    <2>1. \A m \in S : Cardinality(Below(m)) \in Others
      BY <1>1, <1>2, <1>5
    <2> HIDE DEF Below, Others
    <2> QED  BY <2>1
  <1>7. PICK k \in S, m \in S : k # m /\ Rank[k] = Rank[m]
    <2> HIDE DEF Rank, Others
    <2> QED  BY <1>4, <1>6, FS_PigeonHole
  <1>8. k < m \/ m < k
    BY <1>7
  <1> QED  BY <1>3, <1>7, <1>8

\* What a render draws exists.
PageDrawn ==
    /\ pageCount = (Cardinality(paginationKey[2]) + paginationKey[1] - 1) \div paginationKey[1]
    /\ page = 0 \/ page < pageCount
DrawnInv == Pager!TypeOK /\ PageDrawn

\* The pages of a list, whatever page is asked for.
LEMMA Drawn ==
    ASSUME Pager!PagingAssumption, NEW ms \in MachineLists, NEW q \in Queries, NEW n \in Sizes,
           NEW p \in Nat, NEW then, Pager!render(ms, q, n, p, then)
    PROVE  /\ page' \in Nat /\ pageCount' \in Nat /\ paginationKey' \in Sizes \X SUBSET Machines
           /\ PageDrawn'
  <1>1. ms \cap q \in SUBSET Machines /\ n \in Nat \ {0}
    BY DEF Pager!PagingAssumption
  <1>2. paginationKey' = <<n, ms \cap q>>
        /\ pageCount' = (Cardinality(ms \cap q) + n - 1) \div n
    BY PagerFinite DEF Pager!render, Pager!Key, Pager!filtered, Pager!Pages
  <1>3. IsFiniteSet(Machines)
    BY PagerFinite DEF Pager!PagingAssumption
  <1>4. Cardinality(ms \cap q) \in Nat
    BY <1>1, <1>3, FS_Subset, FS_CardinalityType
  <1>5. pageCount' \in Nat
    BY <1>1, <1>2, <1>4
  <1>6. page' \in Nat /\ (page' = 0 \/ page' < pageCount')
    BY <1>5 DEF Pager!render, Pager!Clamp
  <1>7. paginationKey' \in Sizes \X SUBSET Machines /\ paginationKey'[1] = n
        /\ paginationKey'[2] = ms \cap q
    BY <1>1, <1>2
  <1> QED  BY <1>2, <1>5, <1>6, <1>7 DEF PageDrawn

LEMMA InitDrawn ==
    ASSUME Pager!PagingAssumption, Pager!Init
    PROVE  DrawnInv
  <1>1. /\ machines \in MachineLists /\ query \in Queries /\ size \in Sizes
        /\ size \in Nat \ {0} /\ machines \cap query \in SUBSET Machines
    BY DEF Pager!PagingAssumption, Pager!Init
  <1>2. paginationKey = <<size, machines \cap query>>
        /\ pageCount = (Cardinality(machines \cap query) + size - 1) \div size /\ page = 0
    BY PagerFinite DEF Pager!Init, Pager!Key, Pager!filtered, Pager!Pages
  <1>3. IsFiniteSet(Machines)
    BY PagerFinite DEF Pager!PagingAssumption
  <1>4. Cardinality(machines \cap query) \in Nat
    BY <1>1, <1>3, FS_Subset, FS_CardinalityType
  <1>5. pageCount \in Nat
    BY <1>1, <1>2, <1>4
  <1>6. paginationKey \in Sizes \X SUBSET Machines /\ paginationKey[1] = size
        /\ paginationKey[2] = machines \cap query
    BY <1>1, <1>2
  <1>7. seconds \in Rates \cup {0} /\ left \in 0..seconds /\ blockers \subseteq Blockers /\ quiet \in Nat
    BY DEF Pager!PagingAssumption, Pager!Init
  <1> QED  BY <1>1, <1>2, <1>5, <1>6, <1>7 DEF DrawnInv, PageDrawn, Pager!TypeOK

LEMMA NextDrawn ==
    ASSUME Pager!PagingAssumption, DrawnInv, [Pager!Next]_(Pager!vars)
    PROVE  DrawnInv'
  <1>0. /\ machines \in MachineLists /\ query \in Queries /\ size \in Sizes
        /\ page \in Nat /\ pageCount \in Nat /\ paginationKey \in Sizes \X SUBSET Machines
        /\ seconds \in Rates \cup {0} /\ left \in 0..seconds /\ Rates \subseteq Nat \ {0}
        /\ blockers \subseteq Blockers /\ quiet \in Nat
        /\ PageDrawn
    BY DEF DrawnInv, Pager!TypeOK, Pager!PagingAssumption
  \* A step that draws, and one that does not.
  <1>a. ASSUME NEW q \in Queries, NEW n \in Sizes, NEW p \in Nat, NEW then \in 0..seconds,
               Pager!render(machines, q, n, p, then), query' = q, size' = n,
               UNCHANGED <<machines, seconds, blockers>>, quiet' \in Nat
        PROVE  DrawnInv'
    <2>1. /\ page' \in Nat /\ pageCount' \in Nat /\ paginationKey' \in Sizes \X SUBSET Machines
          /\ PageDrawn'
      BY <1>0, <1>a, Drawn
    <2>2. left' \in 0..seconds
      BY <1>0, <1>a DEF Pager!render
    <2> QED  BY <1>0, <1>a, <2>1, <2>2 DEF DrawnInv, Pager!TypeOK
  <1>b. ASSUME UNCHANGED Pager!rendered, machines' \in MachineLists, UNCHANGED <<query, size>>,
               seconds' \in Rates \cup {0}, left' \in 0..seconds', blockers' \subseteq Blockers,
               quiet' \in Nat
        PROVE  DrawnInv'
    BY <1>0, <1>b DEF DrawnInv, Pager!TypeOK, PageDrawn, Pager!rendered
  <1>1. CASE Pager!Second
    <2>1. left' \in 0..seconds' /\ quiet' \in Nat
      BY <1>0, <1>1 DEF Pager!Second
    <2> QED  BY <1>0, <1>1, <1>b, <2>1 DEF Pager!Second
  <1>2. CASE Pager!Tick
    <2>1. CASE Pager!TickSuspended \/ Pager!TickWaits
      <3>1. left' \in 0..seconds' /\ UNCHANGED Pager!rendered
        BY <1>0, <1>2, <2>1 DEF Pager!Tick, Pager!TickSuspended, Pager!TickWaits
      <3> QED  BY <1>0, <1>2, <1>b, <3>1 DEF Pager!Tick
    <2>2. CASE Pager!TickTurns
      <3>1. (page + 1) % pageCount \in Nat
        <4>1. pageCount > 1
          BY <1>0, <2>2 DEF Pager!TickTurns, Pager!Suspended
        <4> QED  BY <1>0, <4>1
      <3>2. seconds \in 0..seconds
        BY <1>0
      <3> QED  BY <1>0, <1>2, <1>a, <2>2, <3>1, <3>2 DEF Pager!Tick, Pager!TickTurns
    <2> QED  BY <1>2, <2>1, <2>2 DEF Pager!Tick
  <1>3. CASE Pager!Render
    BY <1>0, <1>3, <1>a DEF Pager!Render
  <1>4. CASE Pager!Reconfigure
    BY <1>0, <1>4, <1>b DEF Pager!Reconfigure
  <1>5. CASE Pager!Filter \/ Pager!Previous \/ Pager!Following
    <2>1. seconds \in 0..seconds /\ 0 \in Nat /\ page + 1 \in Nat
      BY <1>0
    <2>2. page > 0 => page - 1 \in Nat
      BY <1>0
    <2> QED  BY <1>0, <1>5, <1>a, <2>1, <2>2 DEF Pager!Filter, Pager!Previous, Pager!Following
  <1>6. CASE Pager!setSeconds
    <2>1. seconds' \in Rates \cup {0} /\ left' \in 0..seconds'
      BY <1>0, <1>6 DEF Pager!setSeconds
    <2> QED  BY <1>0, <1>6, <1>b, <2>1 DEF Pager!setSeconds
  <1>7. CASE \E b \in Blockers : Pager!Block(b) \/ Pager!Unblock(b)
    <2> PICK b \in Blockers : Pager!Block(b) \/ Pager!Unblock(b)
      BY <1>7
    <2>1. left' \in 0..seconds' /\ blockers' \subseteq Blockers /\ quiet' \in Nat
      BY <1>0 DEF Pager!Block, Pager!Unblock
    <2>2. UNCHANGED Pager!rendered /\ UNCHANGED <<machines, query, size, seconds>>
          /\ machines' \in MachineLists /\ seconds' \in Rates \cup {0}
      BY <1>0 DEF Pager!Block, Pager!Unblock
    <2> QED  BY <1>0, <1>b, <2>1, <2>2
  <1>8. CASE UNCHANGED Pager!vars
    BY <1>0, <1>8, <1>b DEF Pager!vars, Pager!rendered
  <1> QED  BY <1>1, <1>2, <1>3, <1>4, <1>5, <1>6, <1>7, <1>8 DEF Pager!Next

\* The page on the screen exists in the list it was drawn from, and shows a
\* machine unless the list is empty (app.js:42-46, 71-96).
THEOREM PagesExist ==
    ASSUME Pager!PagingAssumption
    PROVE  Pager!Spec => []Pager!TypeOK /\ []Pager!PageExists
  <1>1. DrawnInv => Pager!TypeOK /\ Pager!PageExists
    <2> SUFFICES ASSUME DrawnInv
                 PROVE  Pager!PageExists
      BY DEF DrawnInv
    <2> DEFINE n == paginationKey[1]
               list == paginationKey[2]
    <2>1. n \in Nat \ {0} /\ list \subseteq Machines /\ page \in Nat
      BY DEF DrawnInv, Pager!TypeOK, Pager!PagingAssumption
    <2>2. IsFiniteSet(list) /\ Cardinality(list) \in Nat /\ list \subseteq Nat
      BY <2>1, FS_Subset, FS_CardinalityType, PagerFinite DEF Pager!PagingAssumption
    <2>3. ASSUME list # {}
          PROVE  Pager!Visible # {}
      <3>1. Cardinality(list) # 0
        BY <2>2, <2>3, FS_EmptySet
      <3>2. page * n \in Nat /\ page * n < Cardinality(list)
        <4>1. CASE page = 0
          BY <2>1, <2>2, <3>1, <4>1
        <4>2. CASE page < (Cardinality(list) + n - 1) \div n
          <5> HIDE DEF n, list
          <5> QED  BY <2>1, <2>2, <4>2
        <4> QED  BY <4>1, <4>2 DEF DrawnInv, PageDrawn
      <3>3. PICK m \in list : Cardinality({k \in list : k < m}) = page * n
        <4> HIDE DEF n, list
        <4> QED  BY <2>2, <3>2, EveryPosition
      <3>4. Pager!Position(m) = page * n
        BY <3>3, PagerFinite DEF Pager!Position
      <3>5. (page * n) \div n = page
        <4> HIDE DEF n
        <4> QED  BY <2>1
      <3>6. m \in Pager!Visible
        BY <3>4, <3>5 DEF Pager!Visible
      <3> QED  BY <3>6
    <2> QED  BY <2>3 DEF Pager!PageExists, DrawnInv, PageDrawn
  <1> QED  BY <1>1, InitDrawn, NextDrawn, PTL DEF Pager!Spec

-----------------------------------------------------------------------------
(* The SSH terminal, for any number of machines, sessions and earlier       *)
(* connections with work left, sizes of chunks, and readers who choose and  *)
(* close at any time.                                                       *)

Choices == Targets \cup {None}
Message == [type: {"ack"}, bytes: ChunkSizes] \cup [type: {"input"}, to: Choices]
Connection ==
    [gen: Term!Gens, ws: {"connecting", "open", "closing", "closed"},
     srv: {"none", "accepted", "shell", "over"}, machine: Choices,
     in: Seq(Message), out: Seq(ChunkSizes), drawn: Seq(ChunkSizes),
     awaits: ChunkSizes \cup {0}, ack: ChunkSizes \cup {0}]
TermTypes ==
    /\ machine \in Choices /\ socket \in {0, None} /\ shown \subseteq {0}
    /\ checking \subseteq Term!Gens /\ listing \subseteq [gen: Term!Gens, machine: Choices]
    /\ conns \subseteq Connection

\* The current generation has one piece of work: it waits for the list of
\* machines, for the service, or is one connection.
OneCurrent ==
    /\ \A c, d \in conns : c.gen = 0 /\ d.gen = 0 => c = d
    /\ 0 \in checking => \A c \in conns : c.gen # 0
    /\ \A l \in listing : l.gen = 0 => 0 \notin checking /\ \A c \in conns : c.gen # 0

\* A socket that is not being closed is the dialog's, sends to the machine that
\* is selected, and sends nothing before it is open.
OwnSocket ==
    \A c \in conns :
        /\ c.ws \in {"connecting", "open"} => c.gen = 0 /\ socket = 0
        /\ c.ws = "open" => c.machine = machine
        /\ c.ws = "connecting" => c.in = << >>

\* A chunk is on one place of its way at a time: sent, drawn, acknowledged, and
\* received, unless its acknowledgment was dropped.
NoAck(in) == \A i \in DOMAIN in : in[i].type # "ack"
OneAck(in, n) ==
    \E i \in DOMAIN in : in[i] = [type |-> "ack", bytes |-> n]
                         /\ \A j \in DOMAIN in : in[j].type = "ack" => j = i
Nothing(c) == c.out = << >> /\ c.drawn = << >> /\ c.ack = 0 /\ NoAck(c.in)
OneChunk(c) ==
    \/ Nothing(c)
    \/ /\ c.awaits # 0
       /\ \/ c.out = <<c.awaits>> /\ c.drawn = << >> /\ c.ack = 0 /\ NoAck(c.in)
          \/ c.out = << >> /\ c.drawn = <<c.awaits>> /\ c.ack = 0 /\ NoAck(c.in)
          \/ c.out = << >> /\ c.drawn = << >> /\ c.ack = 0 /\ OneAck(c.in, c.awaits)
          \/ c.out = << >> /\ c.drawn = << >> /\ c.ack = c.awaits /\ NoAck(c.in)
Fits(c) ==
    /\ c.srv \in {"none", "accepted"} => Nothing(c) /\ c.awaits = 0
    /\ c.srv = "shell" => OneChunk(c)
ToSelected(c) == \A i \in DOMAIN c.in : c.in[i].type = "input" => c.in[i].to = c.machine
ChunksFit ==
    /\ refused = 0
    /\ \A c \in conns : Fits(c) /\ ToSelected(c)

TermInv == TermTypes /\ OneCurrent /\ OwnSocket /\ ChunksFit

\* The instance counts as this module does.
LEMMA TermFinite ==
    ASSUME NEW S
    PROVE  Term!Cardinality(S) = Cardinality(S)
  BY DEF Term!Cardinality, Cardinality

\* A generation that grows older stays within the bound.
LEMMA OlderGens ==
    ASSUME Term!TerminalAssumption, TermTypes, Term!Cardinality(Term!InUse) <= MaxOld,
           NEW g \in Term!InUse
    PROVE  Term!Older(g) \in Term!Gens /\ Term!Older(g) # 0
  <1> DEFINE Use == Term!InUse
             Less == {h \in Use : h < g}
  <1>1. Use \subseteq 0 .. MaxOld /\ MaxOld \in Nat
    BY DEF TermTypes, Connection, Term!InUse, Term!Gens, Term!TerminalAssumption
  <1>2. IsFiniteSet(Use)
    <2>1. IsFiniteSet(0 .. MaxOld) /\ Use \in SUBSET (0 .. MaxOld)
      BY <1>1, FS_Interval
    <2> HIDE DEF Use
    <2> QED  BY <2>1, FS_Subset
  <1>3. IsFiniteSet(Use \ {g}) /\ Cardinality(Use \ {g}) = Cardinality(Use) - 1
    BY <1>2, FS_RemoveElement
  <1>4. Less \subseteq Use \ {g}
    BY <1>1
  <1>5. IsFiniteSet(Less) /\ Cardinality(Less) <= Cardinality(Use \ {g})
    BY <1>3, <1>4, FS_Subset
  <1>6. Cardinality(Less) \in Nat /\ Cardinality(Use) \in Nat /\ Cardinality(Use) <= MaxOld
    BY <1>2, <1>5, FS_CardinalityType, TermFinite
  <1>7. Term!Older(g) = 1 + Cardinality(Less)
    BY TermFinite DEF Term!Older
  <1> HIDE DEF Use, Less
  <1> QED  BY <1>1, <1>3, <1>5, <1>6, <1>7 DEF Term!Gens

\* A disconnection: no work of an earlier generation is current, and no socket
\* that was open stays open.
LEMMA Disconnects ==
    ASSUME Term!TerminalAssumption, TermInv,
           NEW lists \in SUBSET listing, NEW asked \in SUBSET [gen: {0}, machine: Choices],
           NEW started \in SUBSET {0}, asked = {} \/ started = {},
           Term!disconnect(lists, asked, started), machine' \in Choices, refused' = refused
    PROVE  TermInv'
  <1> DEFINE closed(c) == [c EXCEPT !.ws = IF socket = c.gen THEN "closing" ELSE @]
             aged(c) == [closed(c) EXCEPT !.gen = Term!Older(@)]
  <1>1. \A g \in Term!InUse : Term!Older(g) \in Term!Gens /\ Term!Older(g) # 0
    BY OlderGens DEF TermInv, Term!disconnect
  <1>2. conns \subseteq Connection /\ MaxOld \in Nat
    BY DEF TermInv, TermTypes, Term!TerminalAssumption
  <1>3. \A e \in conns' : \E c \in conns : e = aged(c)
    BY DEF Term!disconnect, Term!Aged, Term!Closing
  <1>4. \A c \in conns :
            /\ aged(c) \in Connection /\ aged(c).gen # 0
            /\ aged(c).ws \notin {"connecting", "open"}
            /\ aged(c).machine = c.machine /\ aged(c).in = c.in /\ aged(c).out = c.out
            /\ aged(c).drawn = c.drawn /\ aged(c).awaits = c.awaits /\ aged(c).ack = c.ack
            /\ aged(c).srv = c.srv
    <2> TAKE c \in conns
    <2>1. c \in Connection /\ c.gen \in Term!InUse
      BY <1>2 DEF Term!InUse
    <2>2. Term!Older(c.gen) \in Term!Gens /\ Term!Older(c.gen) # 0
      BY <1>1, <2>1
    <2>3. closed(c) \in Connection /\ closed(c).gen = c.gen
      BY <2>1 DEF Connection
    <2>4. closed(c).ws \notin {"connecting", "open"}
      BY <2>1 DEF Connection, TermInv, OwnSocket
    <2> QED  BY <2>1, <2>2, <2>3, <2>4 DEF Connection
  <1> HIDE DEF aged, closed
  <1>5. \A l \in listing' : l \in asked \/ l.gen # 0
    <2> TAKE l \in listing'
    <2>1. l \in asked \/ \E k \in lists : l = [k EXCEPT !.gen = Term!Older(@)]
      BY DEF Term!disconnect, Term!Aged
    <2>2. \A k \in lists : k \in [gen: Term!Gens, machine: Choices] /\ k.gen \in Term!InUse
      BY DEF TermInv, TermTypes, Term!InUse
    <2> QED  BY <1>1, <2>1, <2>2
  <1>6. listing' \subseteq [gen: Term!Gens, machine: Choices]
    <2> SUFFICES ASSUME NEW l \in listing' PROVE l \in [gen: Term!Gens, machine: Choices]
      OBVIOUS
    <2>1. l \in asked \/ \E k \in lists : l = [k EXCEPT !.gen = Term!Older(@)]
      BY DEF Term!disconnect, Term!Aged
    <2>2. \A k \in lists : k \in [gen: Term!Gens, machine: Choices] /\ k.gen \in Term!InUse
      BY DEF TermInv, TermTypes, Term!InUse
    <2> QED  BY <1>1, <1>2, <2>1, <2>2 DEF Term!Gens
  <1>7. checking' \subseteq Term!Gens /\ (0 \in checking' => 0 \in started)
    <2>1. checking' = {Term!Older(g) : g \in checking} \cup started
      BY DEF Term!disconnect
    <2>2. checking \subseteq Term!InUse /\ 0 \in Term!Gens
      BY <1>2 DEF Term!InUse, Term!Gens
    <2> QED  BY <1>1, <2>1, <2>2
  <1>8. TermTypes'
    BY <1>3, <1>4, <1>6, <1>7 DEF TermInv, TermTypes, Term!disconnect
  <1>9. OneCurrent'
    BY <1>3, <1>4, <1>5, <1>7 DEF OneCurrent
  <1>10. OwnSocket'
    BY <1>3, <1>4 DEF OwnSocket
  <1>11. ChunksFit'
    <2>1. \A c \in conns : Fits(c) /\ ToSelected(c)
      BY DEF TermInv, ChunksFit
    <2>2. \A c \in conns : Fits(aged(c)) /\ ToSelected(aged(c))
      BY <1>4, <2>1 DEF Fits, ToSelected, OneChunk, Nothing
    <2> QED  BY <1>3, <2>2 DEF TermInv, ChunksFit
  <1> QED  BY <1>8, <1>9, <1>10, <1>11 DEF TermInv

\* A step of one connection keeps what is said of the others.
LEMMA Replaces ==
    ASSUME TermInv, NEW c \in conns, NEW d \in Connection, Term!Replace(c, d),
           UNCHANGED <<machine, listing, checking, refused>>, shown' \subseteq {0},
           d.gen = c.gen,
           socket' = socket \/ (socket' = None /\ c.gen = 0 /\ d.ws = "closed"),
           d.ws \in {"connecting", "open"} => c.ws \in {"connecting", "open"},
           d.ws = "open" => d.machine = machine,
           d.ws = "connecting" => d.in = << >>,
           Fits(d), ToSelected(d)
    PROVE  TermInv'
  <1>1. conns' = (conns \ {c}) \cup {d}
    BY DEF Term!Replace
  <1>2. TermTypes'
    BY <1>1 DEF TermInv, TermTypes
  <1>3. OneCurrent'
    BY <1>1 DEF TermInv, OneCurrent
  <1>4. OwnSocket'
    BY <1>1 DEF TermInv, OwnSocket, OneCurrent
  <1>5. ChunksFit'
    BY <1>1 DEF TermInv, ChunksFit
  <1> QED  BY <1>2, <1>3, <1>4, <1>5 DEF TermInv

\* What is appended to a queue and what is taken from one.
LEMMA Queues ==
    ASSUME NEW in \in Seq(Message)
    PROVE  /\ \A m \in Message : Append(in, m) \in Seq(Message)
           /\ \A m \in Message : m.type = "input" /\ NoAck(in) => NoAck(Append(in, m))
           /\ \A m \in Message, n \in ChunkSizes : m.type = "input" /\ OneAck(in, n) => OneAck(Append(in, m), n)
           /\ \A n \in ChunkSizes : /\ [type |-> "ack", bytes |-> n] \in Message
                                    /\ NoAck(in) => OneAck(Append(in, [type |-> "ack", bytes |-> n]), n)
           /\ in # << >> => /\ Tail(in) \in Seq(Message) /\ Head(in) \in Message
                            /\ NoAck(in) => NoAck(Tail(in)) /\ Head(in).type = "input"
                            /\ \A n \in ChunkSizes : OneAck(in, n) /\ Head(in).type # "ack" => OneAck(Tail(in), n)
                            /\ \A n \in ChunkSizes : OneAck(in, n) /\ Head(in).type = "ack"
                                    => Head(in).bytes = n /\ NoAck(Tail(in))
  <1>1. \A m \in Message : /\ Append(in, m) \in Seq(Message)
                           /\ Len(Append(in, m)) = Len(in) + 1 /\ Append(in, m)[Len(in) + 1] = m
                           /\ \A i \in 1 .. Len(in) : Append(in, m)[i] = in[i]
    OBVIOUS
  <1>2. Len(in) \in Nat /\ DOMAIN in = 1 .. Len(in) /\ \A i \in 1 .. Len(in) : in[i] \in Message
    OBVIOUS
  <1>3. \A m \in Message : DOMAIN Append(in, m) = 1 .. Len(in) + 1
    BY <1>1
  <1>4. \A m \in Message : m.type = "input" /\ NoAck(in) => NoAck(Append(in, m))
    BY <1>1, <1>2, <1>3 DEF NoAck
  <1>5. ASSUME NEW m \in Message, NEW n, m.type = "input", OneAck(in, n)
        PROVE  OneAck(Append(in, m), n)
    <2>1. PICK i \in DOMAIN in : in[i] = [type |-> "ack", bytes |-> n]
                                 /\ \A j \in DOMAIN in : in[j].type = "ack" => j = i
      BY <1>5 DEF OneAck
    <2> DEFINE in2 == Append(in, m)
    <2>2. i \in DOMAIN in2 /\ in2[i] = [type |-> "ack", bytes |-> n]
      BY <1>1, <1>2, <1>3, <2>1
    <2>3. \A j \in DOMAIN in2 : in2[j].type = "ack" => j = i
      BY <1>1, <1>2, <1>3, <1>5, <2>1
    <2> QED  BY <2>2, <2>3 DEF OneAck
  <1>6. ASSUME NEW n \in ChunkSizes
        PROVE  /\ [type |-> "ack", bytes |-> n] \in Message
               /\ NoAck(in) => OneAck(Append(in, [type |-> "ack", bytes |-> n]), n)
    <2> DEFINE m == [type |-> "ack", bytes |-> n]
               in2 == Append(in, m)
    <2>1. m \in Message
      BY DEF Message
    <2>2. Len(in) + 1 \in DOMAIN in2 /\ in2[Len(in) + 1] = m
      BY <1>1, <1>2, <1>3, <2>1
    <2>3. NoAck(in) => \A j \in DOMAIN in2 : in2[j].type = "ack" => j = Len(in) + 1
      BY <1>1, <1>2, <1>3, <2>1 DEF NoAck
    <2> QED  BY <2>1, <2>2, <2>3 DEF OneAck
  <1>7. ASSUME in # << >>
        PROVE  /\ Tail(in) \in Seq(Message) /\ Head(in) \in Message
               /\ NoAck(in) => NoAck(Tail(in)) /\ Head(in).type = "input"
               /\ \A n \in ChunkSizes : OneAck(in, n) /\ Head(in).type # "ack" => OneAck(Tail(in), n)
               /\ \A n \in ChunkSizes : OneAck(in, n) /\ Head(in).type = "ack"
                       => Head(in).bytes = n /\ NoAck(Tail(in))
    <2>1. /\ Tail(in) \in Seq(Message) /\ Head(in) = in[1] /\ 1 \in DOMAIN in
          /\ DOMAIN Tail(in) = 1 .. Len(in) - 1
          /\ \A i \in 1 .. Len(in) - 1 : Tail(in)[i] = in[i + 1]
      BY <1>2, <1>7
    <2>2. \A m \in Message : m.type \in {"ack", "input"}
      BY DEF Message
    <2>3. NoAck(in) => NoAck(Tail(in)) /\ Head(in).type = "input"
      BY <1>2, <2>1, <2>2 DEF NoAck
    <2>4. ASSUME NEW n, OneAck(in, n)
          PROVE  /\ Head(in).type # "ack" => OneAck(Tail(in), n)
                 /\ Head(in).type = "ack" => Head(in).bytes = n /\ NoAck(Tail(in))
      <3>1. PICK i \in DOMAIN in : in[i] = [type |-> "ack", bytes |-> n]
                                   /\ \A j \in DOMAIN in : in[j].type = "ack" => j = i
        BY <2>4 DEF OneAck
      <3>2. CASE i = 1
        BY <1>2, <2>1, <3>1, <3>2 DEF NoAck
      <3>3. CASE i # 1
        <4>1. i - 1 \in DOMAIN Tail(in) /\ Tail(in)[i - 1] = [type |-> "ack", bytes |-> n]
          BY <1>2, <2>1, <3>1, <3>3
        <4>2. \A j \in DOMAIN Tail(in) : Tail(in)[j].type = "ack" => j = i - 1
          BY <1>2, <2>1, <3>1, <3>3
        <4>3. Head(in).type # "ack"
          BY <2>1, <3>1, <3>3
        <4> QED  BY <4>1, <4>2, <4>3 DEF OneAck
      <3> QED  BY <3>2, <3>3
    <2> QED  BY <1>2, <2>1, <2>3, <2>4
  <1> QED  BY <1>1, <1>4, <1>5, <1>6, <1>7

\* The connections that are replaced, one action after the other.
LEMMA ConnectionSteps ==
    ASSUME Term!TerminalAssumption, TermInv, NEW c \in conns,
           Term!Service(c) \/ Term!Page(c) \/ Term!Ends(c)
    PROVE  TermInv'
  <1>0. /\ c \in Connection /\ Fits(c) /\ ToSelected(c) /\ 0 \notin ChunkSizes
        /\ c.ws \in {"connecting", "open"} => c.gen = 0 /\ socket = 0
        /\ c.ws = "open" => c.machine = machine
        /\ c.ws = "connecting" => c.in = << >>
        /\ refused = 0 /\ machine \in Choices /\ shown \subseteq {0}
    BY DEF TermInv, TermTypes, OwnSocket, ChunksFit, Term!TerminalAssumption
  <1>a. /\ c.in \in Seq(Message) /\ c.out \in Seq(ChunkSizes) /\ c.drawn \in Seq(ChunkSizes)
        /\ c.awaits \in ChunkSizes \cup {0} /\ c.ack \in ChunkSizes \cup {0}
        /\ c.srv \in {"none", "accepted", "shell", "over"} /\ c.machine \in Choices
        /\ c.ws \in {"connecting", "open", "closing", "closed"}
    BY <1>0 DEF Connection
  <1> DEFINE Says(srv) == [c EXCEPT !.srv = srv]
  \* What the service may say of a connection, but for what is on its way.
  <1>1. ASSUME NEW srv \in {"none", "accepted", "shell", "over"},
               Term!Replace(c, Says(srv)), UNCHANGED <<Term!dialog, listing, checking, shown, refused>>,
               \/ srv = c.srv \/ srv = "over"
               \/ (c.srv \in {"none", "accepted"} /\ srv \in {"accepted", "shell"})
        PROVE  TermInv'
    <2> DEFINE d == Says(srv)
    <2>1. d \in Connection /\ d.gen = c.gen /\ d.ws = c.ws /\ d.machine = c.machine /\ d.in = c.in
          /\ d.out = c.out /\ d.drawn = c.drawn /\ d.awaits = c.awaits /\ d.ack = c.ack /\ d.srv = srv
      BY <1>0 DEF Connection
    <2>2. Fits(d) /\ ToSelected(d)
      BY <1>0, <1>1, <2>1 DEF Fits, OneChunk, Nothing, ToSelected
    <2> HIDE DEF d
    <2> QED  BY <1>0, <1>1, <2>1, <2>2, Replaces DEF Term!dialog, d
  <1>2. CASE Term!Accept(c)
    <2> DEFINE srv == IF Term!Cardinality(Term!Sessions) < MaxSessions THEN "accepted" ELSE "over"
    <2>1. srv = "accepted" \/ srv = "over"
      OBVIOUS
    <2>2. /\ c.srv = "none" /\ Term!Replace(c, Says(srv))
          /\ UNCHANGED <<Term!dialog, listing, checking, shown, refused>>
      BY <1>2, Zenon DEF Term!Accept
    <2> HIDE DEF srv
    <2>3. srv \in {"none", "accepted", "shell", "over"}
          /\ (srv = "over" \/ (c.srv \in {"none", "accepted"} /\ srv \in {"accepted", "shell"}))
      BY <2>1, <2>2
    <2> HIDE DEF Says
    <2> QED  BY <1>1, <2>2, <2>3
  <1>3. CASE Term!Shell(c)
    BY <1>1, <1>3 DEF Term!Shell
  <1>4. CASE Term!Over(c) \/ Term!Ends(c)
    <2>1. /\ Term!Replace(c, Says("over"))
          /\ UNCHANGED <<Term!dialog, listing, checking, shown, refused>>
      BY <1>4, Zenon DEF Term!Over, Term!Ends
    <2>2. "over" \in {"none", "accepted", "shell", "over"}
      OBVIOUS
    <2> HIDE DEF Says
    <2> QED  BY <1>1, <2>1, <2>2
  <1>5. CASE Term!Chunk(c)
    <2> PICK n \in ChunkSizes : Term!Replace(c, [c EXCEPT !.out = Append(@, n), !.awaits = n])
      BY <1>5 DEF Term!Chunk
    <2> DEFINE d == [c EXCEPT !.out = Append(@, n), !.awaits = n]
    <2>1. Nothing(c) /\ c.srv = "shell"
      BY <1>0, <1>5 DEF Term!Chunk, Fits, OneChunk
    <2>2. Append(c.out, n) \in Seq(ChunkSizes) /\ Append(c.out, n) = <<n>>
      BY <1>a, <2>1 DEF Nothing
    <2>3. d \in Connection /\ d.gen = c.gen /\ d.ws = c.ws /\ d.machine = c.machine /\ d.in = c.in
          /\ d.out = <<n>> /\ d.drawn = c.drawn /\ d.awaits = n /\ d.ack = c.ack /\ d.srv = c.srv
      BY <1>0, <2>2 DEF Connection
    <2> HIDE DEF d
    <2>4. Fits(d) /\ ToSelected(d)
      BY <1>0, <2>1, <2>3 DEF Fits, OneChunk, Nothing, ToSelected
    <2>5. Term!Replace(c, d) /\ UNCHANGED <<machine, socket, listing, checking, shown, refused>>
      BY <1>5 DEF Term!Chunk, Term!dialog, d
    <2> QED  BY <1>0, <2>3, <2>4, <2>5, Replaces
  <1>6. CASE Term!Acknowledged(c)
    <2>1. c.ack = c.awaits /\ c.srv = "shell" /\ c.out = << >> /\ c.drawn = << >> /\ NoAck(c.in)
      BY <1>0, <1>6 DEF Term!Acknowledged, Fits, OneChunk, Nothing
    <2> DEFINE d == [c EXCEPT !.awaits = 0, !.ack = 0]
    <2>2. d \in Connection /\ d.gen = c.gen /\ d.ws = c.ws /\ d.machine = c.machine /\ d.in = c.in
          /\ d.out = c.out /\ d.drawn = c.drawn /\ d.awaits = 0 /\ d.ack = 0 /\ d.srv = c.srv
      BY <1>0 DEF Connection
    <2>3. Term!Replace(c, d) /\ UNCHANGED <<machine, socket, listing, checking, shown, refused>>
      BY <1>6, <2>1 DEF Term!Acknowledged, Term!dialog
    <2> HIDE DEF d
    <2>4. Fits(d) /\ ToSelected(d)
      BY <1>0, <2>1, <2>2 DEF Fits, OneChunk, Nothing, ToSelected
    <2> QED  BY <1>0, <2>2, <2>3, <2>4, Replaces
  <1>7. CASE Term!Receive(c)
    <2>1. /\ c.srv = "shell" /\ c.in # << >> /\ OneChunk(c) /\ Head(c.in) \in Message
          /\ Tail(c.in) \in Seq(Message) /\ UNCHANGED <<machine, socket, listing, checking, shown>>
      BY <1>0, <1>7, <1>a, Queues DEF Term!Receive, Fits, Term!dialog
    <2>2. \A i \in DOMAIN Tail(c.in) : Tail(c.in)[i] = c.in[i + 1] /\ i + 1 \in DOMAIN c.in
      BY <1>a, <2>1
    <2>3. CASE Head(c.in).type = "input"
      <3> DEFINE d == [c EXCEPT !.in = Tail(@)]
      <3>1. d \in Connection /\ d.gen = c.gen /\ d.ws = c.ws /\ d.machine = c.machine /\ d.in = Tail(c.in)
            /\ d.out = c.out /\ d.drawn = c.drawn /\ d.awaits = c.awaits /\ d.ack = c.ack /\ d.srv = c.srv
        BY <1>0, <2>1 DEF Connection
      <3>2. Term!Replace(c, d) /\ refused' = refused
        BY <1>7, <2>3 DEF Term!Receive
      <3> HIDE DEF d
      <3>3. OneChunk(d)
        BY <1>a, <2>1, <2>3, <3>1, Queues DEF OneChunk, Nothing
      <3>4. Fits(d) /\ ToSelected(d)
        BY <1>0, <2>1, <2>2, <3>1, <3>3 DEF Fits, ToSelected
      <3> QED  BY <1>0, <2>1, <3>1, <3>2, <3>4, Replaces
    <2>4. CASE Head(c.in).type # "input"
      <3>1. Head(c.in).type = "ack"
        BY <2>1, <2>4 DEF Message
      <3>2. /\ c.awaits # 0 /\ c.out = << >> /\ c.drawn = << >> /\ c.ack = 0
            /\ OneAck(c.in, c.awaits)
        BY <1>a, <2>1, <2>4, Queues DEF OneChunk, Nothing
      <3>3. Head(c.in).bytes = c.awaits /\ NoAck(Tail(c.in))
        BY <1>a, <2>1, <3>1, <3>2, Queues
      <3> DEFINE d == [c EXCEPT !.in = Tail(@), !.ack = c.awaits]
      <3>4. d \in Connection /\ d.gen = c.gen /\ d.ws = c.ws /\ d.machine = c.machine /\ d.in = Tail(c.in)
            /\ d.out = c.out /\ d.drawn = c.drawn /\ d.awaits = c.awaits /\ d.ack = c.awaits /\ d.srv = c.srv
        BY <1>0, <1>a, <2>1 DEF Connection
      <3>5. Term!Replace(c, [[c EXCEPT !.in = Tail(@)] EXCEPT !.ack = Head(c.in).bytes]) /\ refused' = refused
        BY <1>7, <2>4, <3>2 DEF Term!Receive
      <3>6. [[c EXCEPT !.in = Tail(@)] EXCEPT !.ack = Head(c.in).bytes] = d
        BY <1>0, <3>3 DEF Connection
      <3> HIDE DEF d
      <3>7. Fits(d) /\ ToSelected(d)
        BY <1>0, <2>1, <2>2, <3>2, <3>3, <3>4 DEF Fits, OneChunk, ToSelected
      <3> QED  BY <1>0, <2>1, <3>4, <3>5, <3>6, <3>7, Replaces
    <2> QED  BY <2>3, <2>4
  <1>8. CASE Term!Gone(c)
    <2>1. conns' \subseteq conns /\ UNCHANGED <<machine, socket, listing, checking, shown, refused>>
      BY <1>8 DEF Term!Gone, Term!dialog
    <2> QED  BY <2>1 DEF TermInv, TermTypes, OneCurrent, OwnSocket, ChunksFit
  <1>9. CASE Term!SocketOpens(c)
    <2>1. /\ Term!Mine(c) /\ c.srv = "accepted" /\ c.in = << >> /\ c.ws = "connecting"
          /\ UNCHANGED <<machine, socket, listing, checking, shown, refused>>
      BY <1>0, <1>9 DEF Term!SocketOpens, Term!Mine, Term!generation, Term!dialog
    <2> DEFINE d == [c EXCEPT !.ws = "open", !.machine = machine]
    <2>2. d \in Connection /\ d.gen = c.gen /\ d.ws = "open" /\ d.machine = machine /\ d.in = c.in
          /\ d.out = c.out /\ d.drawn = c.drawn /\ d.awaits = c.awaits /\ d.ack = c.ack /\ d.srv = c.srv
      BY <1>0 DEF Connection
    <2>3. Term!Replace(c, d)
      BY <1>9, <2>1 DEF Term!SocketOpens
    <2> HIDE DEF d
    <2>4. Fits(d) /\ ToSelected(d)
      BY <1>0, <2>1, <2>2 DEF Fits, OneChunk, Nothing, ToSelected
    <2> QED  BY <1>0, <2>1, <2>2, <2>3, <2>4, Replaces
  <1>10. CASE Term!Output(c)
    <2> DEFINE mine == Term!Mine(c) /\ terminal
               d == [c EXCEPT !.out = Tail(@),
                              !.drawn = IF mine THEN Append(@, Head(c.out)) ELSE @]
    <2>1. /\ c.out # << >> /\ Term!Replace(c, d)
          /\ UNCHANGED <<machine, socket, listing, checking, refused>>
          /\ shown' = IF mine THEN shown \cup {c.gen} ELSE shown
      BY <1>10 DEF Term!Output, Term!dialog
    <2>2. shown' \subseteq {0}
      BY <1>0, <2>1 DEF Term!Mine, Term!generation
    <2>3. Tail(c.out) \in Seq(ChunkSizes) /\ Head(c.out) \in ChunkSizes
          /\ Append(c.drawn, Head(c.out)) \in Seq(ChunkSizes)
      BY <1>a, <2>1
    <2>4. /\ d \in Connection /\ d.gen = c.gen /\ d.ws = c.ws /\ d.machine = c.machine /\ d.in = c.in
          /\ d.out = Tail(c.out) /\ (d.drawn = c.drawn \/ d.drawn = Append(c.drawn, Head(c.out)))
          /\ d.awaits = c.awaits /\ d.ack = c.ack /\ d.srv = c.srv
      BY <1>0, <2>3 DEF Connection
    <2> HIDE DEF d, mine
    <2>5. Fits(d)
      <3>1. CASE c.srv = "over"
        BY <2>4, <3>1 DEF Fits
      <3>2. CASE c.srv # "over"
        <4>1. /\ c.srv = "shell" /\ c.awaits # 0 /\ c.out = <<c.awaits>> /\ c.drawn = << >> /\ c.ack = 0
              /\ NoAck(c.in)
          BY <1>0, <1>a, <2>1, <3>2 DEF Fits, OneChunk, Nothing
        <4>2. Tail(c.out) = << >> /\ Append(c.drawn, Head(c.out)) = <<c.awaits>>
          BY <4>1
        <4> QED  BY <2>4, <4>1, <4>2 DEF Fits, OneChunk, Nothing
      <3> QED  BY <3>1, <3>2
    <2>6. ToSelected(d)
      BY <1>0, <2>4 DEF ToSelected
    <2> QED  BY <1>0, <2>1, <2>2, <2>4, <2>5, <2>6, Replaces
  <1>11. CASE Term!Drawn(c)
    <2> DEFINE d == [c EXCEPT !.drawn = Tail(@)]
               ack == [type |-> "ack", bytes |-> Head(c.drawn)]
               e == [d EXCEPT !.in = Append(@, ack)]
    <2>1. /\ c.drawn # << >> /\ UNCHANGED <<machine, socket, listing, checking, shown, refused>>
          /\ Term!Replace(c, d) \/ (c.ws = "open" /\ Term!Replace(c, e))
      BY <1>11 DEF Term!Drawn, Term!dialog, Term!Replace, Term!Ack
    <2>2. Tail(c.drawn) \in Seq(ChunkSizes) /\ Head(c.drawn) \in ChunkSizes
      BY <1>a, <2>1
    <2>3. ack \in Message /\ Append(c.in, ack) \in Seq(Message)
          /\ (NoAck(c.in) => OneAck(Append(c.in, ack), Head(c.drawn)))
      BY <1>a, <2>2, Queues
    <2>4. /\ d \in Connection /\ d.gen = c.gen /\ d.ws = c.ws /\ d.machine = c.machine /\ d.in = c.in
          /\ d.out = c.out /\ d.drawn = Tail(c.drawn) /\ d.awaits = c.awaits /\ d.ack = c.ack /\ d.srv = c.srv
      BY <1>0, <2>2 DEF Connection
    <2>5. /\ e \in Connection /\ e.gen = c.gen /\ e.ws = c.ws /\ e.machine = c.machine
          /\ e.in = Append(c.in, ack) /\ e.out = c.out /\ e.drawn = Tail(c.drawn)
          /\ e.awaits = c.awaits /\ e.ack = c.ack /\ e.srv = c.srv
      BY <1>0, <2>2, <2>3 DEF Connection
    <2>6. ack.type = "ack" /\ ack.bytes = Head(c.drawn)
      OBVIOUS
    <2> HIDE DEF d, e, ack
    <2>7. Fits(d) /\ Fits(e)
      <3>1. CASE c.srv = "over"
        BY <2>4, <2>5, <3>1 DEF Fits
      <3>2. CASE c.srv # "over"
        <4>1. /\ c.srv = "shell" /\ c.awaits # 0 /\ c.out = << >> /\ c.drawn = <<c.awaits>> /\ c.ack = 0
              /\ NoAck(c.in)
          BY <1>0, <1>a, <2>1, <3>2 DEF Fits, OneChunk, Nothing
        <4>2. Tail(c.drawn) = << >> /\ Head(c.drawn) = c.awaits
          BY <4>1
        <4> QED  BY <2>3, <2>4, <2>5, <4>1, <4>2 DEF Fits, OneChunk, Nothing
      <3> QED  BY <3>1, <3>2
    <2>8. ToSelected(d)
      BY <1>0, <2>4 DEF ToSelected
    <2>9. ToSelected(e)
      <3>1. \A i \in DOMAIN e.in : e.in[i] = ack \/ (i \in DOMAIN c.in /\ e.in[i] = c.in[i])
        BY <1>a, <2>3, <2>5
      <3> QED  BY <1>0, <2>5, <2>6, <3>1 DEF ToSelected
    <2>10. CASE Term!Replace(c, d)
      BY <1>0, <2>1, <2>4, <2>7, <2>8, <2>10, Replaces
    <2>11. CASE c.ws = "open" /\ Term!Replace(c, e)
      BY <1>0, <2>1, <2>5, <2>7, <2>9, <2>11, Replaces
    <2> QED  BY <2>1, <2>10, <2>11
  <1>12. CASE Term!Closed(c)
    <2> DEFINE d == [c EXCEPT !.ws = "closed"]
    <2>1. /\ Term!Replace(c, d) /\ UNCHANGED <<machine, listing, checking, shown, refused>>
          /\ socket' = IF c.gen = 0 THEN None ELSE socket
      BY <1>12 DEF Term!Closed, Term!Mine, Term!generation
    <2>2. d \in Connection /\ d.gen = c.gen /\ d.ws = "closed" /\ d.machine = c.machine /\ d.in = c.in
          /\ d.out = c.out /\ d.drawn = c.drawn /\ d.awaits = c.awaits /\ d.ack = c.ack /\ d.srv = c.srv
      BY <1>0 DEF Connection
    <2> HIDE DEF d
    <2>3. Fits(d) /\ ToSelected(d)
      BY <1>0, <2>2 DEF Fits, OneChunk, Nothing, ToSelected
    <2> QED  BY <1>0, <2>1, <2>2, <2>3, Replaces
  <1> QED  BY <1>2, <1>3, <1>4, <1>5, <1>6, <1>7, <1>8, <1>9, <1>10, <1>11, <1>12
             DEF Term!Service, Term!Page

LEMMA InitTerm ==
    ASSUME Term!TerminalAssumption, Term!Init
    PROVE  TermInv
  BY DEF Term!Init, TermInv, TermTypes, OneCurrent, OwnSocket, ChunksFit, Choices

LEMMA NextTerm ==
    ASSUME Term!TerminalAssumption, TermInv, [Term!Next]_(Term!vars)
    PROVE  TermInv'
  <1>0. /\ machine \in Choices /\ Targets \subseteq Choices /\ None \in Choices /\ None \notin Targets
        /\ listing \subseteq [gen: Term!Gens, machine: Choices] /\ MaxOld \in Nat
    BY DEF TermInv, TermTypes, Choices, Term!TerminalAssumption
  <1>1. CASE \E m \in Choices : Term!Open(m)
    <2> PICK m \in Choices : Term!Open(m)
      BY <1>1
    <2>1. [gen |-> 0, machine |-> m] \in [gen: {0}, machine: Choices]
      OBVIOUS
    <2> QED  BY <1>0, <2>1, Disconnects DEF Term!Open, Term!generation
  <1>2. ASSUME NEW m \in Choices, NEW lists \in SUBSET listing, Term!openConnection(m, lists), refused' = refused
        PROVE  TermInv'
    <2> DEFINE started == IF m # None /\ open THEN {0} ELSE {}
    <2>1. started \in SUBSET {0} /\ Term!disconnect(lists, {}, started) /\ machine' \in Choices
      BY <1>2 DEF Term!openConnection, Term!generation
    <2> HIDE DEF started
    <2> QED  BY <1>2, <2>1, Disconnects
  <1>3. CASE \E m \in Targets : Term!Select(m)
    BY <1>0, <1>2, <1>3 DEF Term!Select
  <1>4. CASE \E l \in listing : Term!Listed(l)
    <2> PICK l \in listing : Term!Listed(l)
      BY <1>4
    <2>1. CASE Term!openConnection(l.machine, listing \ {l})
      BY <1>0, <1>2, <2>1 DEF Term!Listed
    <2>2. CASE /\ listing' = listing \ {l}
               /\ machine' = IF l.gen = 0 /\ open THEN None ELSE machine
               /\ UNCHANGED <<socket, checking, conns, shown, refused>>
      <3>1. TermTypes' /\ OneCurrent' /\ ChunksFit'
        BY <1>0, <2>2 DEF TermInv, TermTypes, OneCurrent, ChunksFit
      <3>2. OwnSocket'
        BY <2>2 DEF TermInv, OneCurrent, OwnSocket
      <3> QED  BY <3>1, <3>2 DEF TermInv
    <2> QED  BY <2>1, <2>2 DEF Term!Listed, Term!generation
  <1>5. CASE (\E l \in listing : Term!NotListed(l)) \/ (\E g \in checking : Term!NotChecked(g))
    <2>1. listing' \subseteq listing /\ checking' \subseteq checking
          /\ UNCHANGED <<machine, socket, conns, shown, refused>>
      BY <1>5 DEF Term!NotListed, Term!NotChecked, Term!dialog
    <2> QED  BY <2>1 DEF TermInv, TermTypes, OneCurrent, OwnSocket, ChunksFit
  <1>6. CASE \E g \in checking : Term!Checked(g)
    <2> PICK g \in checking : Term!Checked(g)
      BY <1>6
    <2>1. checking' = checking \ {g} /\ UNCHANGED <<machine, listing, shown, refused>>
      BY DEF Term!Checked
    <2>2. CASE UNCHANGED <<socket, conns>>
      BY <2>1, <2>2 DEF TermInv, TermTypes, OneCurrent, OwnSocket, ChunksFit
    <2>3. CASE g = 0 /\ socket' = 0
               /\ conns' = conns \cup {[gen |-> 0, ws |-> "connecting", srv |-> "none", machine |-> None,
                                        in |-> << >>, out |-> << >>, drawn |-> << >>, awaits |-> 0, ack |-> 0]}
      <3> DEFINE d == [gen |-> 0, ws |-> "connecting", srv |-> "none", machine |-> None,
                       in |-> << >>, out |-> << >>, drawn |-> << >>, awaits |-> 0, ack |-> 0]
      <3>1. d \in Connection
        BY <1>0 DEF Connection, Term!Gens
      <3>2. Fits(d) /\ ToSelected(d)
        BY DEF Fits, Nothing, NoAck, ToSelected
      <3>3. d.gen = 0 /\ d.ws = "connecting" /\ d.in = << >>
        OBVIOUS
      <3>4. conns' = conns \cup {d} /\ \A c \in conns : c.gen # 0
        BY <2>3 DEF TermInv, OneCurrent
      <3>5. \A l \in listing : l.gen # 0
        BY <2>3 DEF TermInv, OneCurrent
      <3> HIDE DEF d
      <3>6. TermTypes'
        BY <2>1, <2>3, <3>1, <3>4 DEF TermInv, TermTypes
      <3>7. OneCurrent'
        BY <2>1, <2>3, <3>3, <3>4, <3>5 DEF OneCurrent
      <3>8. OwnSocket'
        BY <2>1, <2>3, <3>3, <3>4 DEF TermInv, OwnSocket
      <3>9. ChunksFit'
        BY <2>1, <3>2, <3>4 DEF TermInv, ChunksFit
      <3> QED  BY <3>6, <3>7, <3>8, <3>9 DEF TermInv
    <2> QED  BY <2>2, <2>3 DEF Term!Checked, Term!generation
  <1>7. CASE Term!Type
    <2>1. PICK c \in conns : /\ c.gen = socket /\ c.ws = "open"
                             /\ Term!Replace(c, [c EXCEPT !.in = Append(@, [type |-> "input", to |-> machine])])
      BY <1>7 DEF Term!Type, Term!Input
    <2> DEFINE typed == [type |-> "input", to |-> machine]
               d == [c EXCEPT !.in = Append(@, typed)]
    <2>2. c \in Connection /\ c.in \in Seq(Message) /\ Fits(c) /\ ToSelected(c) /\ c.machine = machine
      BY <2>1 DEF TermInv, TermTypes, ChunksFit, OwnSocket, Connection
    <2>3. typed \in Message /\ typed.type = "input" /\ typed.to = machine
      BY <1>0 DEF Message
    <2>4. /\ Append(c.in, typed) \in Seq(Message)
          /\ (NoAck(c.in) => NoAck(Append(c.in, typed)))
          /\ \A n \in ChunkSizes : OneAck(c.in, n) => OneAck(Append(c.in, typed), n)
      BY <2>2, <2>3, Queues
    <2>5. d \in Connection /\ d.gen = c.gen /\ d.ws = c.ws /\ d.machine = c.machine
          /\ d.in = Append(c.in, typed) /\ d.out = c.out /\ d.drawn = c.drawn
          /\ d.awaits = c.awaits /\ d.ack = c.ack /\ d.srv = c.srv
      BY <2>2, <2>4 DEF Connection
    <2>6. UNCHANGED <<machine, socket, listing, checking, shown, refused>> /\ shown' \subseteq {0}
      BY <1>7 DEF Term!Type, Term!dialog, TermInv, TermTypes
    <2>7. Term!Replace(c, d)
      BY <2>1
    <2>8. c.awaits \in ChunkSizes \cup {0} /\ Fits(c)
      BY <2>1 DEF TermInv, TermTypes, ChunksFit, Connection
    <2> HIDE DEF d, typed
    <2>10. Fits(d)
      BY <2>2, <2>4, <2>5, <2>8 DEF Fits, OneChunk, Nothing
    <2>9. ToSelected(d)
      <3>1. \A i \in DOMAIN d.in : d.in[i] = typed \/ (i \in DOMAIN c.in /\ d.in[i] = c.in[i])
        BY <2>2, <2>3, <2>5
      <3> QED  BY <2>2, <2>3, <2>5, <3>1 DEF ToSelected
    <2> QED  BY <2>1, <2>2, <2>5, <2>6, <2>7, <2>9, <2>10, Replaces
  <1>8. CASE Term!Disconnect \/ Term!Close
    <2>1. Term!disconnect(listing, {}, {}) /\ UNCHANGED <<machine, refused>>
      BY <1>8 DEF Term!Disconnect, Term!Close
    <2> QED  BY <1>0, <2>1, Disconnects
  <1>9. CASE \E c \in conns : Term!Service(c) \/ Term!Page(c) \/ Term!Ends(c)
    BY <1>9, ConnectionSteps
  <1>10. CASE UNCHANGED Term!vars
    BY <1>10 DEF Term!vars, Term!dialog, TermInv, TermTypes, OneCurrent, OwnSocket, ChunksFit
  <1> QED  BY <1>1, <1>3, <1>4, <1>5, <1>6, <1>7, <1>8, <1>9, <1>10 DEF Term!Next, Choices

LEMMA TermHolds ==
    ASSUME Term!TerminalAssumption
    PROVE  Term!Spec => []TermInv
  <1>1. Term!Init => TermInv
    BY InitTerm
  <1>2. TermInv /\ [Term!Next]_(Term!vars) => TermInv'
    BY NextTerm
  <1> QED  BY <1>1, <1>2, PTL DEF Term!Spec

\* What is typed reaches the machine that was selected when it was typed: there
\* is one live socket at most, the dialog's own (ssh-terminal.js:38-60).
THEOREM TypedForSelected ==
    ASSUME Term!TerminalAssumption
    PROVE  Term!Spec => []Term!InputReachesSelected /\ []Term!OneSocket
  <1>1. TermInv => Term!InputReachesSelected
    BY DEF TermInv, ChunksFit, ToSelected, Term!InputReachesSelected
  <1>2. TermInv => Term!OneSocket
    BY DEF TermInv, OwnSocket, Term!OneSocket, Term!Live, Term!Mine, Term!generation
  <1> QED  BY <1>1, <1>2, TermHolds, PTL

\* No session ends because the page acknowledged what was not sent to it, or
\* twice, and what is shown is the output of the connection it belongs to
\* (ssh-terminal.js:54-57, terminal.go:87-114).
THEOREM AcknowledgedOnce ==
    ASSUME Term!TerminalAssumption
    PROVE  Term!Spec => []Term!AcksMatch /\ []Term!ShowsItsOwn
  <1>1. TermInv => Term!AcksMatch /\ Term!ShowsItsOwn
    BY DEF TermInv, TermTypes, ChunksFit, Term!AcksMatch, Term!ShowsItsOwn, Term!generation
  <1> QED  BY <1>1, TermHolds, PTL

\* What is a picture of a finite set has no more elements.
LEMMA Pictures ==
    ASSUME NEW S, IsFiniteSet(S), NEW n \in Nat, Cardinality(S) <= n,
           NEW g, g = [x \in S |-> g[x]], NEW T, \A y \in T : \E x \in S : y = g[x]
    PROVE  IsFiniteSet(T) /\ Cardinality(T) <= n
  <1> DEFINE R == {g[x] : x \in S}
  <1>1. g \in Surjection(S, R)
    BY DEF Surjection
  <1>2. IsFiniteSet(R) /\ Cardinality(R) <= Cardinality(S)
    BY <1>1, FS_Surjection
  <1>3. T \subseteq R
    OBVIOUS
  <1>4. IsFiniteSet(T) /\ Cardinality(T) <= Cardinality(R)
    BY <1>2, <1>3, FS_Subset
  <1>5. Cardinality(T) \in Nat /\ Cardinality(R) \in Nat /\ Cardinality(S) \in Nat
    BY <1>2, <1>4, FS_CardinalityType
  <1> QED  BY <1>2, <1>4, <1>5

\* There are no more sessions than the service allows.
TermSlots ==
    /\ open \in BOOLEAN /\ terminal \in BOOLEAN
    /\ IsFiniteSet(conns) /\ IsFiniteSet(Term!Sessions) /\ Cardinality(Term!Sessions) <= MaxSessions

\* A step after which every connection, and every session, is what one was
\* before, with changes.
LEMMA SessionsChange ==
    ASSUME Term!TerminalAssumption, TermSlots, open' \in BOOLEAN, terminal' \in BOOLEAN,
           NEW g, g = [c \in conns |-> g[c]],
           \A e \in conns' : \E c \in conns : e = g[c]
                                 /\ (e.srv \in {"accepted", "shell"} => c.srv \in {"accepted", "shell"})
    PROVE  TermSlots'
  <1> DEFINE Old == Term!Sessions
             New == Term!Sessions'
             h == [c \in Old |-> g[c]]
  <1>1. IsFiniteSet(conns) /\ Cardinality(conns) \in Nat /\ Cardinality(conns) <= Cardinality(conns)
    BY FS_CardinalityType DEF TermSlots
  <1>2. \A e \in conns' : \E c \in conns : e = g[c]
    OBVIOUS
  <1>3. IsFiniteSet(conns')
    <2> DEFINE n == Cardinality(conns)
    <2> HIDE DEF n
    <2>1. n \in Nat /\ Cardinality(conns) <= n
      BY <1>1 DEF n
    <2> QED  BY <1>1, <1>2, <2>1, Pictures
  <1>4. \A e \in New : \E c \in Old : e = h[c]
    BY DEF Term!Sessions
  <1>5. h = [c \in Old |-> h[c]] /\ MaxSessions \in Nat
    BY DEF Term!TerminalAssumption
  <1>6. IsFiniteSet(Old) /\ Cardinality(Old) <= MaxSessions
    BY DEF TermSlots
  <1> HIDE DEF Old, New, h
  <1>7. IsFiniteSet(New) /\ Cardinality(New) <= MaxSessions
    BY <1>4, <1>5, <1>6, Pictures
  <1> QED  BY <1>3, <1>7 DEF TermSlots, New

\* A step of one connection, which does not become a session.
LEMMA SessionKept ==
    ASSUME Term!TerminalAssumption, TermSlots, UNCHANGED <<open, terminal>>,
           NEW c \in conns, NEW d, Term!Replace(c, d),
           d.srv \in {"accepted", "shell"} => c.srv \in {"accepted", "shell"}
    PROVE  TermSlots'
  <1> DEFINE g == [e \in conns |-> IF e = c THEN d ELSE e]
  <1>1. g = [e \in conns |-> g[e]]
    OBVIOUS
  <1>2. \A e \in conns' : \E b \in conns : e = g[b]
            /\ (e.srv \in {"accepted", "shell"} => b.srv \in {"accepted", "shell"})
    <2> TAKE e \in conns'
    <2>1. CASE e = d
      <3>1. e = g[c]
        BY <2>1
      <3> QED  BY <2>1, <3>1
    <2>2. CASE e # d
      <3>1. e \in conns /\ e # c
        BY <2>2 DEF Term!Replace
      <3>2. e = g[e]
        BY <3>1
      <3> QED  BY <3>1, <3>2
    <2> QED  BY <2>1, <2>2
  <1>3. open' \in BOOLEAN /\ terminal' \in BOOLEAN
    BY DEF TermSlots
  <1> HIDE DEF g
  <1> QED  BY <1>1, <1>2, <1>3, SessionsChange

\* A step after which there are no more connections.
LEMMA SessionsLeft ==
    ASSUME Term!TerminalAssumption, TermSlots, open' \in BOOLEAN, terminal' \in BOOLEAN,
           conns' \subseteq conns
    PROVE  TermSlots'
  <1> DEFINE g == [e \in conns |-> e]
  <1>1. g = [e \in conns |-> g[e]]
    OBVIOUS
  <1>2. \A e \in conns' : \E b \in conns : e = g[b]
            /\ (e.srv \in {"accepted", "shell"} => b.srv \in {"accepted", "shell"})
    OBVIOUS
  <1> HIDE DEF g
  <1> QED  BY <1>1, <1>2, SessionsChange

\* A disconnection ends no session by itself, and makes none.
LEMMA SessionsAge ==
    ASSUME Term!TerminalAssumption, TermTypes, TermSlots, open' \in BOOLEAN,
           NEW lists, NEW asked, NEW started, Term!disconnect(lists, asked, started)
    PROVE  TermSlots'
  <1> DEFINE closed(c) == [c EXCEPT !.ws = IF socket = c.gen THEN "closing" ELSE @]
             aged(c) == [closed(c) EXCEPT !.gen = Term!Older(@)]
             g == [c \in conns |-> aged(c)]
  <1>0. conns' = Term!Aged(Term!Closing(conns))
    BY DEF Term!disconnect
  <1>1. \A e \in conns' : \E c \in conns : e = aged(c)
    BY <1>0, Zenon DEF Term!Aged, Term!Closing
  <1>2. \A c \in conns : aged(c).srv = c.srv
    <2> TAKE c \in conns
    <2>1. c \in Connection
      BY DEF TermTypes
    <2>2. closed(c) \in [gen: Term!Gens, ws: {"connecting", "open", "closing", "closed"},
                         srv: {"none", "accepted", "shell", "over"}, machine: Choices,
                         in: Seq(Message), out: Seq(ChunkSizes), drawn: Seq(ChunkSizes),
                         awaits: ChunkSizes \cup {0}, ack: ChunkSizes \cup {0}]
          /\ closed(c).srv = c.srv
      BY <2>1 DEF Connection
    <2> HIDE DEF closed
    <2> QED  BY <2>2
  <1> HIDE DEF aged
  <1>3. g = [c \in conns |-> g[c]] /\ \A c \in conns : g[c] = aged(c)
    OBVIOUS
  <1> HIDE DEF g
  <1>4. \A e \in conns' : \E b \in conns : e = g[b]
            /\ (e.srv \in {"accepted", "shell"} => b.srv \in {"accepted", "shell"})
    BY <1>1, <1>2, <1>3
  <1>5. terminal' \in BOOLEAN
    BY DEF Term!disconnect
  <1> QED  BY <1>3, <1>4, <1>5, SessionsChange

\* The sessions of the service, one step of a connection after the other.
LEMMA SessionSteps ==
    ASSUME Term!TerminalAssumption, TermTypes, TermSlots, NEW c \in conns,
           Term!Service(c) \/ Term!Page(c) \/ Term!Ends(c)
    PROVE  TermSlots'
  <1>0. c \in Connection /\ open \in BOOLEAN /\ terminal \in BOOLEAN
    BY DEF TermTypes, TermSlots
  <1>1. CASE Term!Accept(c)
    <2> DEFINE srv == IF Term!Cardinality(Term!Sessions) < MaxSessions THEN "accepted" ELSE "over"
               d == [c EXCEPT !.srv = srv]
    <2>1. Term!Replace(c, d) /\ UNCHANGED <<open, terminal>>
      BY <1>1, Zenon DEF Term!Accept, Term!dialog
    <2>2. d.srv = srv
      BY <1>0 DEF Connection
    <2>3. CASE srv = "over"
      <3> HIDE DEF d, srv
      <3> QED  BY <2>1, <2>2, <2>3, SessionKept
    <2>4. CASE srv # "over"
      <3>1. Cardinality(Term!Sessions) < MaxSessions
        BY <2>4, TermFinite
      <3> HIDE DEF d, srv
      <3>2. IsFiniteSet(Term!Sessions \cup {d})
            /\ Cardinality(Term!Sessions \cup {d}) <= MaxSessions
        <4> DEFINE S == Term!Sessions
        <4>1. IsFiniteSet(S) /\ Cardinality(S) \in Nat /\ MaxSessions \in Nat /\ Cardinality(S) < MaxSessions
          BY <3>1, FS_CardinalityType DEF TermSlots, Term!TerminalAssumption
        <4> HIDE DEF S
        <4>2. IsFiniteSet(S \cup {d}) /\ Cardinality(S \cup {d}) <= MaxSessions
          BY <4>1, FS_AddElement
        <4> QED  BY <4>2 DEF S
      <3>3. IsFiniteSet(conns \cup {d})
        BY FS_AddElement DEF TermSlots
      <3>4. conns' \in SUBSET (conns \cup {d}) /\ Term!Sessions' \in SUBSET (Term!Sessions \cup {d})
        BY <2>1 DEF Term!Replace, Term!Sessions
      <3>5. IsFiniteSet(conns')
        BY <3>3, <3>4, FS_Subset
      <3>6. IsFiniteSet(Term!Sessions') /\ Cardinality(Term!Sessions') <= MaxSessions
        <4> DEFINE S == Term!Sessions \cup {d}
                   R == Term!Sessions'
        <4>1. IsFiniteSet(S) /\ Cardinality(S) <= MaxSessions /\ R \in SUBSET S /\ MaxSessions \in Nat
          BY <3>2, <3>4 DEF Term!TerminalAssumption
        <4> HIDE DEF S, R
        <4>2. IsFiniteSet(R) /\ Cardinality(R) <= Cardinality(S)
          BY <4>1, FS_Subset
        <4>3. Cardinality(R) \in Nat /\ Cardinality(S) \in Nat
          BY <4>1, <4>2, FS_CardinalityType
        <4>4. IsFiniteSet(R) /\ Cardinality(R) <= MaxSessions
          BY <4>1, <4>2, <4>3
        <4> QED  BY <4>4 DEF R
      <3> QED  BY <1>0, <2>1, <3>5, <3>6 DEF TermSlots
    <2> QED  BY <2>3, <2>4
  <1>2. CASE Term!Gone(c)
    <2>1. conns' \subseteq conns /\ UNCHANGED <<open, terminal>>
      BY <1>2 DEF Term!Gone, Term!dialog
    <2> QED  BY <1>0, <2>1, SessionsLeft
  \* A connection that does not change what the service says of it.
  <1>3. ASSUME NEW d, Term!Replace(c, d), UNCHANGED <<open, terminal>>,
               d.srv = c.srv \/ d.srv = "over" \/ c.srv \in {"accepted", "shell"}
        PROVE  TermSlots'
    BY <1>3, SessionKept
  <1>4. CASE Term!Shell(c)
    <2>1. Term!Replace(c, [c EXCEPT !.srv = "shell"]) /\ UNCHANGED <<open, terminal>> /\ c.srv = "accepted"
      BY <1>4, Zenon DEF Term!Shell, Term!dialog
    <2> QED  BY <1>3, <2>1, Zenon
  <1>5. CASE Term!Over(c) \/ Term!Ends(c)
    <2> DEFINE d == [c EXCEPT !.srv = "over"]
    <2>1. Term!Replace(c, d) /\ UNCHANGED <<open, terminal>>
      BY <1>5, Zenon DEF Term!Over, Term!Ends, Term!dialog
    <2>2. d.srv = "over"
      BY <1>0 DEF Connection
    <2> HIDE DEF d
    <2> QED  BY <1>3, <2>1, <2>2
  <1>6. CASE Term!Chunk(c) \/ Term!Acknowledged(c) \/ Term!Receive(c)
    <2>1. UNCHANGED <<open, terminal>> /\ c.srv = "shell" /\ \E d : Term!Replace(c, d)
      BY <1>6, Zenon DEF Term!Chunk, Term!Acknowledged, Term!Receive, Term!dialog
    <2> QED  BY <1>3, <2>1
  <1>7. CASE Term!SocketOpens(c)
    <2>1. UNCHANGED <<open, terminal>> /\ c.srv = "accepted" /\ \E d : Term!Replace(c, d)
      BY <1>7, Zenon DEF Term!SocketOpens, Term!dialog
    <2> QED  BY <1>3, <2>1
  <1>8. CASE Term!Output(c)
    <2> DEFINE drawn2 == IF Term!Mine(c) /\ terminal THEN Append(c.drawn, Head(c.out)) ELSE c.drawn
               d == [c EXCEPT !.out = Tail(@),
                              !.drawn = IF Term!Mine(c) /\ terminal THEN Append(@, Head(c.out)) ELSE @]
    <2>1. Term!Replace(c, d) /\ UNCHANGED <<open, terminal>>
      BY <1>8 DEF Term!Output, Term!dialog
    <2>2. d.srv = c.srv
      BY <1>0 DEF Connection
    <2> HIDE DEF d
    <2> QED  BY <1>3, <2>1, <2>2
  <1>9. CASE Term!Drawn(c)
    <2> DEFINE d == [c EXCEPT !.drawn = Tail(@)]
               e == [d EXCEPT !.in = Append(@, [type |-> "ack", bytes |-> Head(c.drawn)])]
    <2>1. (Term!Replace(c, d) \/ Term!Replace(c, e)) /\ UNCHANGED <<open, terminal>>
      BY <1>9 DEF Term!Drawn, Term!dialog, Term!Replace, Term!Ack
    <2>2. d.srv = c.srv /\ e.srv = c.srv
      BY <1>0 DEF Connection
    <2> HIDE DEF d, e
    <2> QED  BY <1>3, <2>1, <2>2
  <1>10. CASE Term!Closed(c)
    <2> DEFINE d == [c EXCEPT !.ws = "closed"]
    <2>1. Term!Replace(c, d) /\ UNCHANGED <<open, terminal>>
      BY <1>10 DEF Term!Closed
    <2>2. d.srv = c.srv
      BY <1>0 DEF Connection
    <2> HIDE DEF d
    <2> QED  BY <1>3, <2>1, <2>2
  <1> QED  BY <1>1, <1>2, <1>4, <1>5, <1>6, <1>7, <1>8, <1>9, <1>10 DEF Term!Service, Term!Page

LEMMA SlotsNext ==
    ASSUME Term!TerminalAssumption, TermTypes, TermSlots, [Term!Next]_(Term!vars)
    PROVE  TermSlots'
  <1>0. open \in BOOLEAN /\ terminal \in BOOLEAN
    BY DEF TermSlots
  <1>1. CASE \E m \in Targets \cup {None} : Term!Open(m)
    <2>1. PICK ls, as, ss : Term!disconnect(ls, as, ss)
      BY <1>1, Zenon DEF Term!Open
    <2>2. open' \in BOOLEAN
      BY <1>1 DEF Term!Open
    <2> QED  BY <2>1, <2>2, SessionsAge
  <1>2. CASE \E m \in Targets : Term!Select(m)
    <2>1. UNCHANGED open /\ \E ls, as, ss : Term!disconnect(ls, as, ss)
      BY <1>2, Zenon DEF Term!Select, Term!openConnection
    <2> QED  BY <1>0, <2>1, SessionsAge
  <1>3. CASE \E l \in listing : Term!Listed(l) \/ Term!NotListed(l)
    <2> PICK l \in listing : Term!Listed(l) \/ Term!NotListed(l)
      BY <1>3
    <2>1. \/ UNCHANGED open /\ \E m, ls : Term!openConnection(m, ls)
          \/ UNCHANGED <<open, terminal, conns>>
      BY Zenon DEF Term!Listed, Term!NotListed, Term!dialog
    <2>2. CASE UNCHANGED <<open, terminal, conns>>
      BY <1>0, <2>2, SessionsLeft
    <2>3. CASE UNCHANGED open /\ \E m, ls : Term!openConnection(m, ls)
      <3>1. \E ls, as, ss : Term!disconnect(ls, as, ss)
        BY <2>3, Zenon DEF Term!openConnection
      <3> QED  BY <1>0, <2>3, <3>1, SessionsAge
    <2> QED  BY <2>1, <2>2, <2>3
  <1>4. CASE \E g \in checking : Term!Checked(g) \/ Term!NotChecked(g)
    <2> PICK g \in checking : Term!Checked(g) \/ Term!NotChecked(g)
      BY <1>4
    <2> DEFINE d == [gen |-> g, ws |-> "connecting", srv |-> "none", machine |-> None,
                     in |-> << >>, out |-> << >>, drawn |-> << >>, awaits |-> 0, ack |-> 0]
    <2>1. UNCHANGED <<open, terminal>> /\ (conns' = conns \/ conns' = conns \cup {d})
      BY DEF Term!Checked, Term!NotChecked, Term!dialog
    <2>2. d.srv = "none"
      OBVIOUS
    <2> HIDE DEF d
    <2>3. CASE conns' = conns
      BY <1>0, <2>1, <2>3, SessionsLeft
    <2>4. CASE conns' = conns \cup {d}
      <3>1. IsFiniteSet(conns')
        BY <2>4, FS_AddElement DEF TermSlots
      <3>2. Term!Sessions' = Term!Sessions
        BY <2>2, <2>4 DEF Term!Sessions
      <3> QED  BY <1>0, <2>1, <3>1, <3>2 DEF TermSlots
    <2> QED  BY <2>1, <2>3, <2>4
  <1>5. CASE Term!Type
    <2>1. PICK c \in conns : Term!Replace(c, [c EXCEPT !.in = Append(@, Term!Input)])
      BY <1>5 DEF Term!Type
    <2> DEFINE d == [c EXCEPT !.in = Append(@, Term!Input)]
    <2>2. d.srv = c.srv
      <3>1. c \in Connection
        BY DEF TermTypes
      <3> QED  BY <3>1 DEF Connection
    <2>3. Term!Replace(c, d) /\ UNCHANGED <<open, terminal>>
      BY <1>5, <2>1 DEF Term!Type, Term!dialog
    <2> HIDE DEF d
    <2> QED  BY <2>2, <2>3, SessionKept
  <1>6. CASE Term!Disconnect \/ Term!Close
    <2>1. open' \in BOOLEAN /\ \E ls, as, ss : Term!disconnect(ls, as, ss)
      BY <1>0, <1>6, Zenon DEF Term!Disconnect, Term!Close
    <2> QED  BY <2>1, SessionsAge
  <1>7. CASE \E c \in conns : Term!Service(c) \/ Term!Page(c) \/ Term!Ends(c)
    BY <1>7, SessionSteps
  <1>8. CASE UNCHANGED Term!vars
    <2>1. UNCHANGED <<open, terminal, conns>>
      BY <1>8 DEF Term!vars, Term!dialog
    <2> QED  BY <1>0, <2>1, SessionsLeft
  <1> QED  BY <1>1, <1>2, <1>3, <1>4, <1>5, <1>6, <1>7, <1>8 DEF Term!Next

\* The service never has more sessions than it allows, and the dialog, its
\* connections and its generations are what they are said to be
\* (terminal.go:33-49, ssh-terminal.js:38-60).
THEOREM SessionsBounded ==
    ASSUME Term!TerminalAssumption
    PROVE  Term!Spec => []Term!TypeOK
  <1>1. Term!Init => TermSlots
    <2> SUFFICES ASSUME Term!Init PROVE TermSlots
      OBVIOUS
    <2>1. conns = {} /\ Term!Sessions = {} /\ MaxSessions \in Nat
      BY DEF Term!Init, Term!Sessions, Term!TerminalAssumption
    <2>2. IsFiniteSet(conns) /\ IsFiniteSet(Term!Sessions) /\ Cardinality(Term!Sessions) <= MaxSessions
      BY <2>1, FS_EmptySet
    <2>3. open \in BOOLEAN /\ terminal \in BOOLEAN
      BY DEF Term!Init
    <2> QED  BY <2>2, <2>3 DEF TermSlots
  <1>2. TermInv /\ TermSlots /\ [Term!Next]_(Term!vars) => TermSlots'
    BY SlotsNext DEF TermInv
  <1>3. TermInv /\ TermSlots => Term!TypeOK
    <2> SUFFICES ASSUME TermTypes, TermSlots PROVE Term!TypeOK
      BY DEF TermInv
    <2>1. 0 \in Term!Gens
      BY DEF Term!Gens, Term!TerminalAssumption
    <2> QED  BY <2>1, TermFinite DEF TermTypes, TermSlots, Term!TypeOK, Choices
  <1> QED  BY <1>1, <1>2, <1>3, TermHolds, PTL DEF Term!Spec

=============================================================================
