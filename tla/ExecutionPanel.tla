---------------------------- MODULE ExecutionPanel ----------------------------
(***************************************************************************)
(* One-off execution: the dialog (src/web/execution.js) and the part of the *)
(* executor it talks to (internal/watch/execution.go), which keeps what it  *)
(* executed in memory only.  A batch is named by the identifier the page    *)
(* draws when it is reviewed; command and targets stay with it.  The        *)
(* service gives every run of the program a token of its own, and a page    *)
(* keeps the token it was loaded with.  The demonstration, in which this    *)
(* dialog sends nothing, is not part of this module.                        *)
(***************************************************************************)
EXTENDS Naturals, SequencesExt, FreshNames

CONSTANTS
    IDs,        \* identifiers the page may draw
    MaxOld,     \* bound: how often a request of jobs() on its way may be overtaken
    Keep,       \* batches whose results are kept (five in the code)
    MaxRuns,    \* bound: runs of the program
    Lossy,      \* requests that may be lost: "post", "list", "poll", "config"
    None

\* The list of batches: what it offers, and what is chosen in it.
Lists == [options: SUBSET IDs, value: IDs \cup {None}]

ExecutionAssumption ==
    /\ Keep \in Nat \ {0} /\ MaxRuns \in Nat \ {0} /\ MaxOld \in Nat
    /\ Lossy \subseteq {"post", "list", "poll", "config"}
    /\ None \notin IDs /\ None \notin Lists

VARIABLES
    run, seen, order, active, done,     \* the executor of this run
    starts,         \* how often a batch was started, in all runs; observed only
    token, opening, prepared, submitting, jobID, drawn,     \* the page
    select,         \* the list of batches; None as long as it was not read
    post, queries, poll,                \* requests in flight
    wanted,         \* the batch the reader chose or submitted last; observed only
    unanswered      \* batches with results whose submission got no answer; observed only

executor == <<run, seen, order, active, done, starts>>
net == <<post, queries, poll>>
form == <<token, opening, prepared, submitting>>
results == <<jobID, drawn>>
choice == <<select, wanted>>
vars == <<executor, form, results, choice, net, unanswered>>

Kept == ToSet(order)
Batch(id) == [id |-> id, done |-> id \in done]
Drawn == {None} \cup [id: IDs, done: BOOLEAN]
Empty == [options |-> {}, value |-> None]
Answer(stage, r) == [r EXCEPT !.stage = stage]

\* jobRunning and dialog.open; the dialog is open in all of this module.
jobRunning == drawn # None /\ ~drawn.done

Init ==
    /\ run = 1 /\ seen = {} /\ order = << >> /\ active = None /\ done = {}
    /\ starts = [id \in IDs |-> 0]
    /\ token = 1 /\ opening = FALSE /\ prepared = None /\ submitting = FALSE
    /\ jobID = None /\ drawn = None
    /\ post = None /\ queries = {} /\ poll = None
    /\ select = None /\ wanted = None /\ unanswered = {}

-----------------------------------------------------------------------------
(* The executor.                                                            *)

\* The identifiers of this run, those without a result included.
Known(id) == id \in seen

Refused == Answer("refused", post)
Start ==
    LET id == post.id IN
    /\ post # None /\ post.stage = "sent"
    /\ \/ (token # run \/ Known(id)) /\ UNCHANGED executor
          /\ post' = IF token = run /\ id \in Kept THEN Answer("accepted", post) ELSE Refused
       \/ token = run /\ ~Known(id) /\ post' = Refused  \* a batch is active, or its targets changed
          /\ UNCHANGED executor
       \/ /\ token = run /\ ~Known(id) /\ active = None
          /\ seen' = seen \cup {id}
          /\ order' = Append(IF Len(order) >= Keep THEN Tail(order) ELSE order, id)
          /\ active' = id
          /\ starts' = [starts EXCEPT ![id] = @ + 1]
          /\ post' = Answer("accepted", post)
          /\ UNCHANGED <<run, done>>
    /\ unanswered' = unanswered \cap Kept'
    /\ UNCHANGED <<form, results, choice, queries, poll>>

Finish ==
    /\ active # None /\ active' = None /\ done' = done \cup {active}
    /\ UNCHANGED <<run, seen, order, starts, form, results, choice, net, unanswered>>

Restart ==
    /\ run < MaxRuns /\ run' = run + 1
    /\ seen' = {} /\ order' = << >> /\ active' = None /\ done' = {}
    /\ unanswered' = {}
    /\ UNCHANGED <<starts, form, results, choice, net>>

ListServed(q) ==
    /\ q.stage = "list" /\ q.reply = None
    /\ queries' = (queries \ {q}) \cup {[q EXCEPT !.reply = IF token = run THEN order ELSE << >>]}
    /\ UNCHANGED <<executor, form, results, choice, post, poll, unanswered>>

DetailServed(q) ==
    /\ q.stage = "detail" /\ q.reply = None
    /\ token = run /\ q.of \in Kept
    /\ queries' = (queries \ {q}) \cup {[q EXCEPT !.reply = Batch(q.of)]}
    /\ UNCHANGED <<executor, form, results, choice, post, poll, unanswered>>

PollServed ==
    /\ poll # None /\ poll.reply = None
    /\ token = run /\ poll.of \in Kept
    /\ poll' = [poll EXCEPT !.reply = Batch(poll.of)]
    /\ UNCHANGED <<executor, form, results, choice, post, queries, unanswered>>

-----------------------------------------------------------------------------
(* The page.                                                                *)

renderJob(job) == drawn' = job /\ jobID' = job.id

\* jobs(): the list, then the batch that is chosen by then.  A generation is
\* told by how many began after it, and jobQuery names the latest.
jobQuery == 0
Query(by) ==
    /\ \A q \in queries : q.gen < MaxOld
    /\ queries' = {[q EXCEPT !.gen = @ + 1] : q \in queries} \cup
                     {[gen |-> jobQuery, by |-> by, stage |-> "list", of |-> None, reply |-> None]}

\* The handler that waited for q goes on.
Over(q) ==
    /\ queries' = queries \ {q}
    /\ submitting' = (submitting /\ q.by # "submit")

\* The form is there again while the list is read after a submission.
review ==
    /\ prepared = None
    /\ prepared' \in OneOf({id \in IDs : starts[id] = 0 /\ (post = None \/ post.id # id)})
    /\ UNCHANGED <<executor, token, opening, submitting, results, choice, net, unanswered>>

\* The reader goes back, and gives up what was prepared.
edit ==
    /\ ~submitting /\ prepared # None /\ prepared' = None
    /\ unanswered' = unanswered \ {prepared}
    /\ UNCHANGED <<executor, token, opening, submitting, results, choice, net>>

submit ==
    /\ ~submitting /\ prepared # None
    /\ submitting' = TRUE /\ post' = [stage |-> "sent", id |-> prepared]
    /\ UNCHANGED <<executor, token, opening, prepared, results, choice, queries, poll,
                   unanswered>>

Submitted ==
    /\ post # None /\ post.stage = "accepted"
    /\ post' = None /\ prepared' = None
    /\ renderJob(Batch(post.id))
    /\ wanted' = post.id /\ unanswered' = unanswered \ {post.id}
    /\ Query("submit")
    /\ UNCHANGED <<executor, token, opening, submitting, select, poll>>

\* The batch stays prepared: the same button submits the same identifier.
NotSubmitted ==
    /\ \/ post # None /\ post.stage = "refused" /\ unanswered' = unanswered \ {post.id}
       \/ post # None /\ "post" \in Lossy /\ unanswered' = unanswered \cup ({post.id} \cap Kept)
    /\ post' = None /\ submitting' = FALSE
    /\ UNCHANGED <<executor, token, opening, prepared, results, choice, queries, poll>>

\* The dialog opens, reads the configuration and goes on.  It can be closed
\* and opened again before: opening says whether any of them still reads.
Open ==
    /\ opening' = TRUE
    /\ UNCHANGED <<executor, token, prepared, submitting, results, choice, net, unanswered>>

\* A form of Opened that shows an empty form without reading the list.
OpenedBlank ==
    /\ opening /\ opening' \in BOOLEAN
    /\ prepared' = IF submitting THEN prepared ELSE None
    /\ UNCHANGED <<executor, token, submitting, results, choice, net, unanswered>>

Opened ==
    /\ opening /\ opening' \in BOOLEAN
    /\ prepared' = IF submitting THEN prepared ELSE None
    /\ Query("reader")
    /\ UNCHANGED <<executor, token, submitting, results, choice, post, poll, unanswered>>

OpeningFails ==
    /\ opening /\ "config" \in Lossy /\ opening' \in BOOLEAN
    /\ UNCHANGED <<executor, token, prepared, submitting, results, choice, net, unanswered>>

Choose ==
    /\ select # None
    /\ \E id \in select.options \ {select.value} :
          jobID' = id /\ select' = [select EXCEPT !.value = id] /\ wanted' = id
    /\ Query("reader")
    /\ UNCHANGED <<executor, form, drawn, post, poll, unanswered>>

Refresh == Query("reader") /\ UNCHANGED <<executor, form, results, choice, post, poll, unanswered>>

\* Of the batches on the list, the one to show: that one, or the newest.
Among(id, list) == IF id \in ToSet(list) THEN id ELSE Last(list)

ListArrives(q) ==
    /\ q.stage = "list" /\ q.reply # None
    /\ \/ q.gen # jobQuery /\ Over(q) /\ UNCHANGED select
       \/ q.gen = jobQuery /\ q.reply = << >> /\ Over(q) /\ select' = Empty
       \/ /\ q.gen = jobQuery /\ q.reply # << >>
          /\ queries' = (queries \ {q}) \cup
                {[q EXCEPT !.stage = "detail", !.reply = None, !.of = Among(jobID, q.reply)]}
          /\ select' = [options |-> ToSet(q.reply), value |-> Among(jobID, q.reply)]
          /\ UNCHANGED submitting
    /\ UNCHANGED <<executor, token, opening, prepared, results, wanted, post, poll,
                   unanswered>>

DetailArrives(q) ==
    /\ q.stage = "detail" /\ q.reply # None
    /\ IF q.gen = jobQuery THEN renderJob(q.reply) ELSE UNCHANGED results
    /\ Over(q)
    /\ UNCHANGED <<executor, token, opening, prepared, choice, post, poll, unanswered>>

QueryFails(q) ==
    /\ \/ "list" \in Lossy
       \/ token # run
       \/ q.stage = "detail" /\ q.of \notin Kept
    /\ Over(q)
    /\ UNCHANGED <<executor, token, opening, prepared, results, choice, post, poll, unanswered>>

\* The timer, every one and a half seconds.
Poll ==
    /\ poll = None /\ jobID # None /\ jobRunning
    /\ poll' = [of |-> jobID, reply |-> None]
    /\ UNCHANGED <<executor, form, results, choice, post, queries, unanswered>>

\* A form of Polled that draws whatever the answer is about.
PolledAny ==
    /\ poll # None /\ poll.reply # None
    /\ poll' = None
    /\ renderJob(poll.reply)
    /\ UNCHANGED <<executor, form, choice, post, queries, unanswered>>

Polled ==
    /\ poll # None /\ poll.reply # None
    /\ poll' = None
    /\ IF poll.reply.id = jobID THEN renderJob(poll.reply) ELSE UNCHANGED results
    /\ UNCHANGED <<executor, form, choice, post, queries, unanswered>>
PollFails ==
    /\ poll # None /\ ("poll" \in Lossy \/ token # run \/ poll.of \notin Kept)
    /\ poll' = None
    /\ UNCHANGED <<executor, form, results, choice, post, queries, unanswered>>

\* The page is loaded again.
Reload ==
    /\ token' = run /\ opening' = FALSE /\ prepared' = None /\ submitting' = FALSE
    /\ jobID' = None /\ drawn' = None /\ post' = None /\ queries' = {} /\ poll' = None
    /\ select' = None /\ wanted' = None
    /\ unanswered' = unanswered \cup (IF post = None THEN {} ELSE {post.id} \cap Kept)
    /\ UNCHANGED executor

Executes == Start \/ Finish \/ PollServed \/ \E q \in queries : ListServed(q) \/ DetailServed(q)
Arrives == \/ Submitted \/ Polled \/ Opened
           \/ \E q \in queries : ListArrives(q) \/ DetailArrives(q)
Reader == review \/ edit \/ submit \/ Open \/ Choose \/ Refresh
Next == \/ Executes \/ Arrives \/ Reader \/ Poll
        \/ Restart \/ Reload \/ NotSubmitted \/ OpeningFails \/ PollFails \/ \E q \in queries : QueryFails(q)

Spec == Init /\ [][Next]_vars

-----------------------------------------------------------------------------
\* Every variable has a value of its kind.
TypeOK ==
    /\ run \in 1 .. MaxRuns /\ token \in 1 .. run
    /\ seen \subseteq IDs /\ Kept \subseteq seen /\ Len(order) <= Keep
    /\ active \in Kept \cup {None} /\ done \subseteq seen
    /\ opening \in BOOLEAN /\ submitting \in BOOLEAN
    /\ prepared \in IDs \cup {None} /\ jobID \in IDs \cup {None} /\ drawn \in Drawn
    /\ post = None \/ (post.stage \in {"sent", "accepted", "refused"} /\ post.id \in IDs)
    /\ \A q \in queries : q.gen \in 0 .. MaxOld /\ q.stage \in {"list", "detail"}
    /\ select \in {None} \cup Lists /\ wanted \in IDs \cup {None} /\ unanswered \subseteq Kept

\* A batch that was reviewed once is started once at most, through lost
\* requests and answers, repeated submissions, evicted results, restarts of
\* the program and reloads of the page (README.md:90, 92).
OnceOnly == \A id \in IDs : starts[id] <= 1

\* While a submission is on its way, the batch it submits stays prepared, so
\* that the button repeats that identifier (execution.js:18).
SubmissionKept == post # None /\ submitting => prepared = post.id

\* A batch that was executed, and whose submission was not answered, is not
\* forgotten in silence as long as its results are kept: it is still prepared,
\* or the last list the page read offers it.  Opening the dialog and loading the
\* page take the identifier away, but then the list is read (execution.js:17-19,
\* README.md:92).  Going back (execution.js:11, 24) is the reader's own word,
\* and ends this.
LostIsFound ==
    \A id \in unanswered :
        run = token /\ select # None /\ queries = {} /\ "list" \notin Lossy
        => id = prepared \/ id \in select.options

\* When no request is left, the list stands on the batch the reader chose or
\* submitted last, and the results are those of the batch the list stands on,
\* as far as their results are kept: answers to a list that was overtaken and
\* polls of another batch are not drawn (execution.js:17, 26).
Settled == queries = {} /\ poll = None
ShownWasChosen ==
    Settled /\ "list" \notin Lossy /\ run = token =>
        /\ wanted \in Kept => select # None /\ select.value = wanted
        /\ select # None /\ select.value \in Kept => drawn # None /\ drawn.id = select.value
=============================================================================
