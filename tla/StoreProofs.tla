---------------------------- MODULE StoreProofs ----------------------------
(***************************************************************************)
(* More about the task controller, on top of its inductive invariant: what *)
(* outcomes are recorded, when a grant is given back, when an experiment   *)
(* may be offered machines again, and that what is written can be loaded.  *)
(***************************************************************************)
EXTENDS TaskControllerProofs

----------------------------------------------------------------------------
(***************************************************************************)
(* What a step may do to a continuation                                    *)
(***************************************************************************)

Claimed(x) == x.state \in OccupiedStates \ {"offered"}

\* Launch intents stay, and with them the grant they were made under, until
\* the experiment is completed.
Carries(x, y) ==
    /\ x.intents \subseteq y.intents
    /\ x.state = "completed" => y.state = "completed"
    /\ Claimed(x) => \/ Claimed(y) /\ y.grant = x.grant
                     \/ y.state = "completed"
                     \/ y.intents = {}

\* Continuation c may become y, when it is x: orderly again, under another
\* generation only with no delivery in doubt, and giving back a claimed grant
\* only when a report may.
MayBecome(c, x, y) ==
    /\ y \in Continuation
    /\ Orderly(c, y)
    /\ Carries(x, y)
    /\ y.generation # x.generation => ~DeliveryOpen(x)
    /\ Claimed(x) /\ ~IsOccupied(y) => up /\ (Releasable(c, x) \/ Completable(c, x))

\* What every step does to every continuation.
ContinuationsMove ==
    \A c \in ContinuationIDs :
        IF Known(c) THEN MayBecome(c, continuations[c], continuations'[c])
        ELSE Known(c)' => continuations'[c] \in Continuation /\ Orderly(c, continuations'[c])

\* The continuation c of a running service, as both invariants know it.
LEMMA KnownContinuation ==
    ASSUME IInv, StoreInv, NEW c \in ContinuationIDs, Known(c)
    PROVE  continuations[c] \in Continuation /\ Orderly(c, continuations[c])
  BY DEF IInv, TypeOK, StoreInv, ContinuationsOrderly, Known

\* A continuation may stay as it is.
LEMMA StaysOrderly ==
    ASSUME NEW c, NEW x \in Continuation, Orderly(c, x)
    PROVE  MayBecome(c, x, x)
  <1>1. Claimed(x) => IsOccupied(x)
    BY IdAssumption DEF Claimed, IsOccupied
  <1> QED  BY <1>1 DEF MayBecome, Carries

\* A write of one continuation moves no other.
LEMMA SavedMove ==
    ASSUME IInv, StoreInv, NEW c \in ContinuationIDs, NEW y, SaveContinuation(c, y),
           IF Known(c) THEN MayBecome(c, continuations[c], y)
           ELSE y \in Continuation /\ Orderly(c, y)
    PROVE  ContinuationsMove
  <1>1. \A d \in ContinuationIDs : continuations'[d] = IF d = c THEN y ELSE continuations[d]
    BY DEF SaveContinuation, IInv, TypeOK
  <1>2. \A d \in ContinuationIDs \ {c} : Known(d) => MayBecome(d, continuations[d], continuations[d])
    BY KnownContinuation, StaysOrderly
  <1> QED  BY <1>1, <1>2 DEF ContinuationsMove, Known

\* When a bundle is kept, order is kept with it.
LEMMA KeptMove ==
    ASSUME NEW c, NEW x \in Continuation, Orderly(c, x), NEW y \in Continuation,
           y.allocations = x.allocations, y.grant = x.grant, y.generation = x.generation,
           y.mode = x.mode,
           \/ y.state = x.state
           \/ x.state = "paused" /\ y.state = "waiting_resources"
           \/ x.state \in OccupiedStates /\ Claimed(y),
           \/ y.intents = x.intents
           \/ x.intents \subseteq y.intents /\ Claimed(y),
           y.state = "offered" => y.offerUntil \in {x.offerUntil, "past"},
           y.stop # "none" => y.state \notin {"waiting_resources", "offered"},
           y.wake = x.wake \/ y.wake # NoWake,
           y.mode = "bridge" \/ ~DeliveryOpen(y) \/ DeliveryOpen(x)
    PROVE  MayBecome(c, x, y)
  <1>1. IsOccupied(x) <=> IsOccupied(y)
    BY IdAssumption DEF IsOccupied, OccupiedStates, Claimed
  <1>2. WholeBundle(c, x) => WholeBundle(c, y)
    BY DEF WholeBundle
  <1>3. Orderly(c, y)
    BY <1>1, <1>2 DEF Orderly, OccupiedStates, Claimed
  <1>4. Claimed(x) => Claimed(y) /\ IsOccupied(y)
    BY <1>1, IdAssumption DEF Claimed, IsOccupied, OccupiedStates
  <1> QED  BY <1>3, <1>4 DEF MayBecome, Carries, OccupiedStates, Claimed

\* When everything is given back, order is kept if nobody had claimed it, or
\* a report may.
LEMMA FreedMove ==
    ASSUME NEW c, NEW x \in Continuation, Orderly(c, x),
           NEW s \in ContinuationStates \ OccupiedStates,
           NEW y \in Continuation,
           y.state = s, y.allocations = {}, y.grant = 0, y.intents = x.intents,
           y.generation # x.generation => ~DeliveryOpen(x),
           y.mode = "heartbeat" => ~DeliveryOpen(y),
           x.state # "completed",
           s # "completed" => x.intents = {},
           y.stop # "none" => s # "waiting_resources",
           Claimed(x) => up /\ (Releasable(c, x) \/ Completable(c, x))
    PROVE  MayBecome(c, x, y)
  <1>1. ~IsOccupied(y) /\ s # "offered"
    BY DEF IsOccupied, OccupiedStates
  <1>2. Orderly(c, y)
    BY <1>1 DEF Orderly
  <1> QED  BY <1>1, <1>2 DEF MayBecome, Carries

\* Every field of a freed continuation.
LEMMA FreedIs ==
    ASSUME NEW x \in Continuation, NEW s \in ContinuationStates
    PROVE  /\ Freed(x, s) \in Continuation
           /\ Freed(x, s).state = s /\ Freed(x, s).allocations = {} /\ Freed(x, s).grant = 0
           /\ Freed(x, s).generation = x.generation /\ Freed(x, s).wake = x.wake
           /\ Freed(x, s).intents = x.intents /\ Freed(x, s).stop = x.stop
           /\ Freed(x, s).mode = x.mode /\ Freed(x, s).expiresAt = x.expiresAt
  <1>1. Freed(x, s) \in Continuation
    BY FreedType
  <1> QED  BY <1>1 DEF Freed, Continuation

----------------------------------------------------------------------------
(***************************************************************************)
(* The handlers of continuations                                           *)
(***************************************************************************)

\* A new experiment holds nothing (RegisterContinuation).
LEMMA RegisterMoves ==
    ASSUME IInv, StoreInv, NEW c \in ContinuationIDs, NEW mode \in {"bridge", "heartbeat"},
           RegisterContinuation(c, mode)
    PROVE  ContinuationsMove
  <1> DEFINE x == [state |-> "waiting_resources", generation |-> 0, grant |-> 0, mode |-> mode,
                   allocations |-> {}, offerUntil |-> "nil", expiresAt |-> "future",
                   wake |-> NoWake, intents |-> {}, stop |-> "none"]
  <1>1. x \in Continuation
    BY InputAssumption DEF Continuation, ContinuationStates
  <1>2. Orderly(c, x)
    BY DEF Orderly, IsOccupied, OccupiedStates, DeliveryOpen
  <1>3. SaveContinuation(c, x) /\ ~Known(c)
    BY DEF RegisterContinuation
  <1> HIDE DEF x
  <1> QED  BY <1>1, <1>2, <1>3, SavedMove

\* An offer hands over one machine for each planned task, under a generation
\* of its own, with no delivery in doubt.
LEMMA OfferedMove ==
    ASSUME TypeOK, NEW c \in ContinuationIDs, NEW x \in Continuation, Orderly(c, x),
           x.state = "waiting_resources", x.stop = "none", ~DeliveryOpen(x),
           x.generation < MaxGeneration, NEW f \in Bundles(c)
    PROVE  MayBecome(c, x, Offered(x, f))
  <1> DEFINE y == Offered(x, f)
             w == [generation |-> x.generation + 1, kind |-> "resources_ready",
                   status |-> "pending", sender |-> None, attempts |-> 0, overdue |-> FALSE]
             b == {<<t, f[t]>> : t \in DOMAIN f}
  <1>1. y \in Continuation /\ DOMAIN f = Plan[c]
    BY OfferedType
  <1>2. b = {<<t, f[t]>> : t \in Plan[c]} /\ w.status = "pending" /\ w # NoWake
    <2>1. x.generation + 1 \in 0..MaxGeneration
      BY InputAssumption DEF Continuation
    <2>2. w \in Wake
      BY <2>1 DEF Wake
    <2> QED  BY <1>1, <2>2, IdAssumption
  <1>3. y = [x EXCEPT !.state = "offered", !.generation = @ + 1, !.grant = x.generation + 1,
                      !.offerUntil = "future", !.allocations = b, !.wake = w]
    BY DEF Offered
  <1> HIDE DEF y, w, b
  <1>9. /\ y.state = "offered" /\ y.generation = x.generation + 1 /\ y.grant = x.generation + 1
        /\ y.offerUntil = "future" /\ y.allocations = b /\ y.wake = w
        /\ y.intents = x.intents /\ y.stop = x.stop
    BY <1>3 DEF Continuation
  <1>4. \A t, u \in Plan[c] : t # u => ~resourcesConflict(f[t], f[u])
    BY DEF Bundles
  <1>5. WholeBundle(c, y)
    <2>1. {p[1] : p \in y.allocations} = Plan[c]
      <3>1. \A t \in Plan[c] : <<t, f[t]>> \in y.allocations /\ <<t, f[t]>>[1] = t
        BY <1>2, <1>9
      <3>2. \A p \in y.allocations : p[1] \in Plan[c]
        BY <1>2, <1>9
      <3> QED  BY <3>1, <3>2
    <2>2. ASSUME NEW p \in y.allocations, NEW o \in y.allocations, p # o
          PROVE  ~resourcesConflict(p[2], o[2])
      <3>1. PICK t \in Plan[c] : p = <<t, f[t]>>
        BY <1>2, <1>9
      <3>2. PICK u \in Plan[c] : o = <<u, f[u]>>
        BY <1>2, <1>9
      <3> QED  BY <1>4, <2>2, <3>1, <3>2
    <2> QED  BY <2>1, <2>2 DEF WholeBundle
  <1>6. x.intents = {}
    BY DEF Orderly, OccupiedStates
  <1>7. x.generation + 1 > 0
    BY InputAssumption DEF Continuation
  <1>8. Orderly(c, y)
    BY <1>1, <1>2, <1>5, <1>6, <1>7, <1>9, IdAssumption
    DEF Orderly, DeliveryOpen, IsOccupied, OccupiedStates
  <1> QED  BY <1>1, <1>6, <1>8, <1>9 DEF MayBecome, Carries, Claimed, OccupiedStates, y

\* A heartbeat may ask for an offer at any time, because it has no delivery
\* (EvaluateContinuation).
LEMMA EvaluateMoves ==
    ASSUME IInv, StoreInv, NEW c \in ContinuationIDs, EvaluateContinuation(c)
    PROVE  ContinuationsMove
  <1> DEFINE x == continuations[c]
  <1>1. x \in Continuation /\ Orderly(c, x)
    BY KnownContinuation DEF EvaluateContinuation
  <1>2. /\ Known(c) /\ x.mode = "heartbeat" /\ x.state = "waiting_resources"
        /\ x.generation < MaxGeneration
        /\ \E f \in Bundles(c) : SaveContinuation(c, Offered(x, f))
    BY DEF EvaluateContinuation
  <1>3. x.stop = "none" /\ ~DeliveryOpen(x)
    BY <1>1, <1>2 DEF Orderly
  <1>4. PICK f \in Bundles(c) : SaveContinuation(c, Offered(x, f))
    BY <1>2
  <1>5. MayBecome(c, x, Offered(x, f))
    BY <1>1, <1>2, <1>3, OfferedMove DEF IInv
  <1> QED  BY <1>2, <1>4, <1>5, SavedMove

\* A claim keeps the bundle (ClaimContinuation).
LEMMA ClaimMoves ==
    ASSUME IInv, StoreInv, NEW c \in ContinuationIDs, NEW g, NEW kind, ClaimContinuation(c, g, kind)
    PROVE  ContinuationsMove
  <1> DEFINE x == continuations[c]
             w == [x.wake EXCEPT !.status = "delivered"]
             y == [x EXCEPT !.state = "claimed", !.offerUntil = "nil", !.wake = w]
  <1>1. x \in Continuation /\ Orderly(c, x)
    BY KnownContinuation DEF ClaimContinuation
  <1>2. Known(c) /\ x.state = "offered" /\ x.stop = "none" /\ x.wake # NoWake
        /\ SaveContinuation(c, y)
    BY DEF ClaimContinuation, Fenced
  <1>3. w \in Wake /\ w.status = "delivered"
    BY <1>1, <1>2 DEF Continuation, Wake
  <1> HIDE DEF w, x
  <1>4. /\ y \in Continuation /\ y.wake = w /\ y.state = "claimed" /\ y.stop = x.stop
        /\ y.allocations = x.allocations /\ y.grant = x.grant /\ y.generation = x.generation
        /\ y.intents = x.intents /\ y.mode = x.mode
    BY <1>1, <1>3 DEF Continuation, ContinuationStates, OccupiedStates
  <1> HIDE DEF y
  <1>5. MayBecome(c, x, y)
    BY <1>1, <1>2, <1>3, <1>4, KeptMove, IdAssumption DEF OccupiedStates, Claimed, DeliveryOpen
  <1> QED  BY <1>2, <1>5, SavedMove DEF x

\* A report frees a grant that was not used, or whose tasks have all exited
\* (ReportContinuation).
LEMMA ReportMoves ==
    ASSUME IInv, StoreInv, NEW c \in ContinuationIDs, NEW g, NEW kind, ReportContinuation(c, g, kind)
    PROVE  ContinuationsMove
  <1> DEFINE x == continuations[c]
  <1>1. x \in Continuation /\ Orderly(c, x)
    BY KnownContinuation DEF ReportContinuation
  <1>2. Known(c) /\ Claimed(x) /\ up
    BY DEF ReportContinuation, Claimed
  <1>3. PICK s \in {"paused", "cancelled", "waiting_resources", "completed"} :
           /\ SaveContinuation(c, Freed(x, s))
           /\ \/ s = "completed" /\ Completable(c, x)
              \/ Releasable(c, x) /\ x.intents = {} /\ s = AfterRelease(x)
    BY DEF ReportContinuation, AfterRelease, Releasable
  <1>4. s \in ContinuationStates \ OccupiedStates
    BY DEF ContinuationStates, OccupiedStates, TerminalStates
  <1>5. x.stop # "none" => s # "waiting_resources"
    BY <1>1, <1>3 DEF AfterRelease, Continuation
  <1> HIDE DEF x
  <1> DEFINE y == Freed(x, s)
  <1>6. /\ y \in Continuation
        /\ y.state = s /\ y.allocations = {} /\ y.grant = 0
        /\ y.generation = x.generation /\ y.wake = x.wake
        /\ y.intents = x.intents /\ y.stop = x.stop /\ y.mode = x.mode
    BY <1>1, <1>4, FreedIs
  <1> HIDE DEF y
  <1>7. MayBecome(c, x, y)
    BY <1>1, <1>2, <1>3, <1>4, <1>5, <1>6, FreedMove DEF Claimed, OccupiedStates, DeliveryOpen, Orderly
  <1> QED  BY <1>2, <1>3, <1>7, SavedMove DEF x, y

\* Changing the mode, stopping and resuming take back only what nobody
\* claimed, and a new mode forgets no delivery that is in doubt
\* (ControlContinuation).
LEMMA ControlMoves ==
    ASSUME IInv, StoreInv, NEW c \in ContinuationIDs, NEW action, ControlContinuation(c, action)
    PROVE  ContinuationsMove
  <1> DEFINE x == continuations[c]
             idle == x.state \in {"waiting_resources", "offered", "paused"}
  <1>1. x \in Continuation /\ Orderly(c, x) /\ Known(c) /\ x.state \notin TerminalStates
    BY KnownContinuation DEF ControlContinuation
  <1>2. idle => ~Claimed(x) /\ x.state # "completed" /\ x.intents = {}
    BY <1>1 DEF Claimed, OccupiedStates, Orderly
  <1>3. CASE /\ action \in {"bridge", "heartbeat"} /\ idle /\ x.generation < MaxGeneration
             /\ ~DeliveryOpen(x)
             /\ SaveContinuation(c,
                  [Freed(x, IF x.state = "paused" THEN "paused" ELSE "waiting_resources")
                     EXCEPT !.mode = action, !.generation = @ + 1, !.wake = NoWake])
    <2> DEFINE s == IF x.state = "paused" THEN "paused" ELSE "waiting_resources"
               z == Freed(x, s)
               y == [z EXCEPT !.mode = action, !.generation = @ + 1, !.wake = NoWake]
    <2>1. s \in ContinuationStates \ OccupiedStates /\ s # "completed"
      BY DEF ContinuationStates, OccupiedStates
    <2>2. x.stop # "none" => s # "waiting_resources"
      BY <1>1, <1>3 DEF Orderly
    <2> HIDE DEF s, x
    <2>3. /\ z \in Continuation /\ z.state = s /\ z.allocations = {} /\ z.grant = 0
          /\ z.generation = x.generation /\ z.intents = x.intents /\ z.stop = x.stop
      BY <1>1, <2>1, FreedIs
    <2> HIDE DEF z
    <2>4. z.generation + 1 \in 0..MaxGeneration
      BY <1>3, <2>3, InputAssumption DEF Continuation
    <2>5. /\ y \in Continuation /\ y.state = s /\ y.allocations = {} /\ y.grant = 0
          /\ y.wake = NoWake /\ y.intents = x.intents /\ y.stop = x.stop
      BY <1>3, <2>3, <2>4 DEF Continuation
    <2>6. SaveContinuation(c, y)
      BY <1>3 DEF y, z, s
    <2> HIDE DEF y
    <2>7. MayBecome(c, x, y)
      BY <1>1, <1>2, <1>3, <2>1, <2>2, <2>5, FreedMove DEF DeliveryOpen
    <2> QED  BY <1>1, <2>6, <2>7, SavedMove DEF x
  <1>4. CASE /\ action \in {"pause", "cancel"} /\ idle
             /\ SaveContinuation(c, Freed(x, IF action = "cancel" THEN "cancelled" ELSE "paused"))
    <2> DEFINE s == IF action = "cancel" THEN "cancelled" ELSE "paused"
               y == Freed(x, s)
    <2>1. s \in ContinuationStates \ OccupiedStates /\ s # "completed" /\ s # "waiting_resources"
      BY DEF ContinuationStates, OccupiedStates, TerminalStates
    <2>2. SaveContinuation(c, y)
      BY <1>4
    <2> HIDE DEF s, x
    <2>3. /\ y \in Continuation /\ y.state = s /\ y.allocations = {} /\ y.grant = 0
          /\ y.generation = x.generation /\ y.wake = x.wake /\ y.intents = x.intents
          /\ y.mode = x.mode
      BY <1>1, <2>1, FreedIs
    <2> HIDE DEF y
    <2>4. MayBecome(c, x, y)
      BY <1>1, <1>2, <1>4, <2>1, <2>3, FreedMove DEF DeliveryOpen, Orderly
    <2> QED  BY <1>1, <2>2, <2>4, SavedMove DEF x
  <1>5. CASE /\ action \in {"pause", "cancel"} /\ ~idle
             /\ SaveContinuation(c, [x EXCEPT !.stop = action])
    <2> DEFINE y == [x EXCEPT !.stop = action]
    <2> HIDE DEF x
    <2>1. /\ y \in Continuation /\ y.wake = x.wake /\ y.state = x.state /\ y.mode = x.mode
          /\ y.allocations = x.allocations /\ y.grant = x.grant /\ y.generation = x.generation
          /\ y.intents = x.intents /\ y.offerUntil = x.offerUntil
      BY <1>1, <1>5 DEF Continuation
    <2>2. SaveContinuation(c, y)
      BY <1>5
    <2> HIDE DEF y
    <2>3. DeliveryOpen(y) <=> DeliveryOpen(x)
      BY <2>1 DEF DeliveryOpen
    <2>4. MayBecome(c, x, y)
      BY <1>1, <1>5, <2>1, <2>3, KeptMove
    <2> QED  BY <1>1, <2>2, <2>4, SavedMove DEF x
  <1>6. CASE /\ action = "resume"
             /\ SaveContinuation(c,
                  [x EXCEPT !.state = IF @ = "paused" THEN "waiting_resources" ELSE @,
                            !.stop = "none"])
    <2> DEFINE s == IF x.state = "paused" THEN "waiting_resources" ELSE x.state
               y == [x EXCEPT !.state = s, !.stop = "none"]
    <2>1. s \in ContinuationStates /\ (s # x.state => x.state = "paused" /\ s = "waiting_resources")
      BY <1>1 DEF Continuation, ContinuationStates
    <2>2. SaveContinuation(c, y)
      BY <1>1, <1>6 DEF Continuation
    <2> HIDE DEF s, x
    <2>3. /\ y \in Continuation /\ y.wake = x.wake /\ y.state = s /\ y.mode = x.mode
          /\ y.allocations = x.allocations /\ y.grant = x.grant /\ y.generation = x.generation
          /\ y.intents = x.intents /\ y.offerUntil = x.offerUntil /\ y.stop = "none"
      BY <1>1, <2>1 DEF Continuation
    <2> HIDE DEF y
    <2>4. DeliveryOpen(y) <=> DeliveryOpen(x)
      BY <2>3 DEF DeliveryOpen
    <2>5. MayBecome(c, x, y)
      BY <1>1, <2>1, <2>3, <2>4, KeptMove
    <2> QED  BY <1>1, <2>2, <2>5, SavedMove DEF x
  <1> QED  BY <1>3, <1>4, <1>5, <1>6 DEF ControlContinuation

\* A change of the wake event alone, which does not open a delivery of a
\* heartbeat.
LEMMA WakeMove ==
    ASSUME IInv, StoreInv, NEW c \in ContinuationIDs, Known(c), NEW w \in Wake,
           \/ continuations[c].mode = "bridge"
           \/ w.status \notin {"sending", "delivery_uncertain"}
           \/ DeliveryOpen(continuations[c]),
           SaveContinuation(c, [continuations[c] EXCEPT !.wake = w])
    PROVE  ContinuationsMove
  <1> DEFINE x == continuations[c]
             y == [x EXCEPT !.wake = w]
  <1>1. x \in Continuation /\ Orderly(c, x)
    BY KnownContinuation
  <1>2. SaveContinuation(c, y)
    OBVIOUS
  <1>3. \/ x.mode = "bridge" \/ w.status \notin {"sending", "delivery_uncertain"}
        \/ DeliveryOpen(x)
    OBVIOUS
  <1> HIDE DEF x
  <1>4. /\ y \in Continuation /\ y.wake = w /\ y.state = x.state /\ y.stop = x.stop
        /\ y.allocations = x.allocations /\ y.grant = x.grant /\ y.generation = x.generation
        /\ y.intents = x.intents /\ y.mode = x.mode /\ y.offerUntil = x.offerUntil
    BY <1>1 DEF Continuation
  <1> HIDE DEF y
  <1>5. y.mode = "bridge" \/ ~DeliveryOpen(y) \/ DeliveryOpen(x)
    BY <1>1, <1>3, <1>4 DEF DeliveryOpen
  <1>6. y.stop # "none" => y.state \notin {"waiting_resources", "offered"}
    BY <1>1, <1>4 DEF Orderly
  <1>7. MayBecome(c, x, y)
    BY <1>1, <1>4, <1>5, <1>6, IdAssumption, KeptMove
  <1> QED  BY <1>2, <1>7, SavedMove DEF x

\* Deliveries change the wake event alone, and begin in bridge mode only
\* (DeliveryContinuation).
LEMMA DeliveryMoves ==
    ASSUME IInv, StoreInv, NEW c \in ContinuationIDs, NEW s \in Senders, NEW g, NEW kind, NEW action,
           DeliveryContinuation(c, s, g, kind, action)
    PROVE  ContinuationsMove
  <1> DEFINE x == continuations[c]
             w == x.wake
  <1>1. x \in Continuation /\ Known(c) /\ AttemptLeft(x) /\ w # NoWake /\ w \in Wake
    <2>1. x \in Continuation /\ Known(c) /\ AttemptLeft(x) /\ w # NoWake
      BY DEF DeliveryContinuation, IInv, TypeOK, AttemptsLeft, Known, Fenced
    <2> QED  BY <2>1 DEF Continuation
  <1>2. CASE /\ action = "begin" /\ Sendable(x)
             /\ SaveContinuation(c, [x EXCEPT !.wake.status = "sending", !.wake.sender = s,
                                              !.wake.attempts = @ + 1, !.wake.overdue = FALSE])
    <2> DEFINE v == [w EXCEPT !.status = "sending", !.sender = s, !.attempts = @ + 1,
                              !.overdue = FALSE]
    <2>1. SaveContinuation(c, [x EXCEPT !.wake = v]) /\ x.mode = "bridge"
      BY <1>1, <1>2 DEF Continuation, Wake, Sendable
    <2>2. w.attempts + 1 \in 0..3
      BY <1>1, <1>2 DEF Sendable, AttemptLeft, Wake
    <2> HIDE DEF w
    <2>3. v \in Wake
      BY <1>1, <2>2 DEF Wake
    <2> QED  BY <1>1, <2>1, <2>3, WakeMove DEF w
  <1>3. CASE \E st \in {"delivered", "delivery_uncertain", "failed", "pending"} :
               /\ SaveContinuation(c, [x EXCEPT !.wake.status = st])
               /\ st = "delivery_uncertain" => DeliveryOpen(x)
    <2>1. PICK st \in {"delivered", "delivery_uncertain", "failed", "pending"} :
               /\ SaveContinuation(c, [x EXCEPT !.wake.status = st])
               /\ st = "delivery_uncertain" => DeliveryOpen(x)
      BY <1>3
    <2> DEFINE v == [w EXCEPT !.status = st]
    <2>2. SaveContinuation(c, [x EXCEPT !.wake = v])
      BY <2>1
    <2> HIDE DEF w
    <2>3. v \in Wake /\ v.status = st
      BY <1>1 DEF Wake
    <2> QED  BY <1>1, <2>1, <2>2, <2>3, WakeMove DEF w
  <1> QED  BY <1>1, <1>2, <1>3 DEF DeliveryContinuation, DeliveryOpen

\* Deadlines that pass change no bundle.
LEMMA DeadlineMoves ==
    ASSUME IInv, StoreInv, NEW c \in ContinuationIDs,
           OfferDeadlinePasses(c) \/ AuthorizationEnds(c) \/ ReceiptOverdue(c)
    PROVE  ContinuationsMove
  <1> DEFINE x == continuations[c]
  <1>1. x \in Continuation /\ Known(c) /\ Orderly(c, x)
    BY KnownContinuation DEF OfferDeadlinePasses, AuthorizationEnds, ReceiptOverdue
  <1>2. CASE \/ SaveContinuation(c, [x EXCEPT !.offerUntil = "past"])
             \/ SaveContinuation(c, [x EXCEPT !.expiresAt = "past"])
    <2>1. PICK y \in {[x EXCEPT !.offerUntil = "past"], [x EXCEPT !.expiresAt = "past"]} :
             SaveContinuation(c, y)
      BY <1>2
    <2> HIDE DEF x
    <2>2. /\ y \in Continuation /\ y.wake = x.wake /\ y.state = x.state
          /\ y.allocations = x.allocations /\ y.grant = x.grant /\ y.generation = x.generation
          /\ y.intents = x.intents /\ y.mode = x.mode /\ y.stop = x.stop
          /\ y.offerUntil \in {x.offerUntil, "past"}
      BY <1>1, <2>1 DEF Continuation
    <2>3. DeliveryOpen(y) <=> DeliveryOpen(x)
      BY <2>2 DEF DeliveryOpen
    <2>4. y.stop # "none" => y.state \notin {"waiting_resources", "offered"}
      BY <1>1, <2>2 DEF Orderly
    <2>5. MayBecome(c, x, y)
      BY <1>1, <2>2, <2>3, <2>4, KeptMove
    <2> QED  BY <1>1, <2>1, <2>5, SavedMove DEF x
  <1>3. CASE ReceiptOverdue(c)
    <2> DEFINE w == x.wake
               v == [w EXCEPT !.overdue = TRUE]
    <2>1. SaveContinuation(c, [x EXCEPT !.wake = v]) /\ DeliveryOpen(x)
      BY <1>3 DEF ReceiptOverdue, DeliveryOpen
    <2>2. w \in Wake
      BY <1>1, <1>3 DEF ReceiptOverdue, Continuation
    <2> HIDE DEF w
    <2>3. v \in Wake
      BY <2>2 DEF Wake
    <2> QED  BY <1>1, <2>1, <2>3, WakeMove DEF w
  <1> QED  BY <1>2, <1>3 DEF OfferDeadlinePasses, AuthorizationEnds

\* What the parts of a tick may do, one after the other.
Ticks(c, x, y) ==
    /\ y \in Continuation
    /\ Orderly(c, y)
    /\ x.intents \subseteq y.intents
    /\ x.state = "completed" => y.state = "completed"
    /\ y.generation = x.generation
    /\ Claimed(x) => Claimed(y) /\ y.grant = x.grant
    /\ DeliveryOpen(x) => DeliveryOpen(y) \/ Claimed(y)

\* What two ticks do to an experiment, one tick may do.
LEMMA TicksChain ==
    ASSUME NEW c, NEW x, NEW y, NEW z, Ticks(c, x, y), Ticks(c, y, z)
    PROVE  Ticks(c, x, z)
  BY DEF Ticks

\* What a tick of the scheduler does to one experiment.
LEMMA TickMove ==
    ASSUME NEW c, NEW x, NEW y, Ticks(c, x, y)
    PROVE  MayBecome(c, x, y)
  <1>1. Claimed(y) => IsOccupied(y)
    BY IdAssumption DEF Ticks, Claimed, IsOccupied
  <1> QED  BY <1>1 DEF Ticks, MayBecome, Carries

\* A receipt that is overdue leaves its delivery in doubt,
LEMMA ReceiptTick ==
    ASSUME NEW c, NEW x \in Continuation, Orderly(c, x)
    PROVE  Ticks(c, x, ReceiptTimedOut(x))
  <1>1. CASE x.wake # NoWake /\ x.wake.status = "sending" /\ x.wake.overdue
    <2> DEFINE w == [x.wake EXCEPT !.status = "delivery_uncertain"]
               y == [x EXCEPT !.wake = w]
    <2>1. w \in Wake /\ w.status = "delivery_uncertain"
      BY <1>1 DEF Continuation, Wake
    <2>2. y = ReceiptTimedOut(x)
      BY <1>1 DEF ReceiptTimedOut
    <2> HIDE DEF w
    <2>3. /\ y \in Continuation /\ y.wake = w /\ y.state = x.state /\ y.stop = x.stop
          /\ y.allocations = x.allocations /\ y.grant = x.grant /\ y.generation = x.generation
          /\ y.intents = x.intents /\ y.mode = x.mode /\ y.offerUntil = x.offerUntil
      BY <2>1 DEF Continuation
    <2> HIDE DEF y
    <2>4. DeliveryOpen(x) /\ DeliveryOpen(y)
      BY <1>1, <2>1, <2>3, IdAssumption DEF DeliveryOpen
    <2>5. y.stop # "none" => y.state \notin {"waiting_resources", "offered"}
      BY <2>3 DEF Orderly
    <2>6. MayBecome(c, x, y)
      BY <2>1, <2>3, <2>4, <2>5, KeptMove, IdAssumption
    <2>7. Ticks(c, x, y)
      BY <2>3, <2>4, <2>6 DEF Ticks, MayBecome, Claimed
    <2> QED  BY <2>2, <2>7
  <1>2. CASE ~(x.wake # NoWake /\ x.wake.status = "sending" /\ x.wake.overdue)
    BY <1>2 DEF ReceiptTimedOut, Ticks
  <1> QED  BY <1>1, <1>2

\* what nobody claimed is taken back,
LEMMA LapseTick ==
    ASSUME NEW c, NEW x \in Continuation, Orderly(c, x),
           x.state \in {"waiting_resources", "offered", "paused"},
           NEW s \in {"waiting_resources", "expired"},
           x.stop # "none" => s # "waiting_resources"
    PROVE  Ticks(c, x, Freed(x, s))
  <1> DEFINE y == Freed(x, s)
  <1>1. s \in ContinuationStates \ OccupiedStates
    BY DEF ContinuationStates, OccupiedStates, TerminalStates
  <1>2. /\ y \in Continuation /\ y.state = s /\ y.allocations = {} /\ y.grant = 0
        /\ y.generation = x.generation /\ y.wake = x.wake /\ y.intents = x.intents
        /\ y.mode = x.mode /\ y.stop = x.stop
    BY <1>1, FreedIs
  <1> HIDE DEF y
  <1>3. x.intents = {} /\ ~Claimed(x)
    BY DEF Orderly, OccupiedStates, Claimed
  <1>4. DeliveryOpen(y) <=> DeliveryOpen(x)
    BY <1>2 DEF DeliveryOpen
  <1>5. y.mode = "heartbeat" => ~DeliveryOpen(y)
    BY <1>2, <1>4 DEF Orderly
  <1>6. MayBecome(c, x, y)
    BY <1>1, <1>2, <1>3, <1>5, FreedMove
  <1>7. Ticks(c, x, y)
    BY <1>2, <1>3, <1>4, <1>6 DEF Ticks, MayBecome
  <1> QED  BY <1>7 DEF y

\* and a claimed grant is kept, whatever its tasks do.
LEMMA TasksTick ==
    ASSUME NEW c \in ContinuationIDs, NEW x \in Continuation, Orderly(c, x)
    PROVE  Ticks(c, x, TasksObserved(c, x))
  <1> DEFINE w == [generation |-> x.generation, kind |-> "tasks_finished", status |-> "pending",
                   sender |-> None, attempts |-> 0, overdue |-> FALSE]
             y == TasksObserved(c, x)
  <1>1. w \in Wake /\ w.status = "pending"
    BY DEF Continuation, Wake
  <1>2. \/ y = x
        \/ /\ x.state \in {"claimed", "executing", "recovery_needed"}
           /\ \/ y = [x EXCEPT !.state = "awaiting_review", !.wake = w]
              \/ y = [x EXCEPT !.state = "recovery_needed"]
              \/ y = [x EXCEPT !.state = "executing"]
    BY DEF TasksObserved, TasksFinished
  <1> HIDE DEF w, y
  <1>3. y = x => Ticks(c, x, y)
    BY DEF Ticks
  <1>4. ASSUME /\ x.state \in {"claimed", "executing", "recovery_needed"}
               /\ \/ y = [x EXCEPT !.state = "awaiting_review", !.wake = w]
                  \/ y = [x EXCEPT !.state = "recovery_needed"]
                  \/ y = [x EXCEPT !.state = "executing"]
        PROVE  Ticks(c, x, y)
    <2>1. /\ y \in Continuation /\ y.state \in {"awaiting_review", "recovery_needed", "executing"}
          /\ y.allocations = x.allocations /\ y.grant = x.grant /\ y.generation = x.generation
          /\ y.intents = x.intents /\ y.mode = x.mode /\ y.wake \in {x.wake, w}
      BY <1>1, <1>4 DEF Continuation, ContinuationStates, OccupiedStates
    <2>2. Claimed(x) /\ Claimed(y)
      BY <1>4, <2>1 DEF Claimed, OccupiedStates
    <2>3. ~DeliveryOpen(y) \/ DeliveryOpen(x)
      BY <1>1, <2>1 DEF DeliveryOpen
    <2>4. x.state \in OccupiedStates
      BY <2>2 DEF Claimed
    <2>5. MayBecome(c, x, y)
      BY <1>1, <2>1, <2>2, <2>3, <2>4, KeptMove, IdAssumption
    <2> QED  BY <1>4, <2>1, <2>2, <2>5 DEF Ticks, MayBecome
  <1>5. Ticks(c, x, y)
    BY <1>2, <1>3, <1>4
  <1> QED  BY <1>5 DEF y

\* The whole of a tick before an offer (CheckContinuations).
LEMMA ObservedTick ==
    ASSUME IInv, StoreInv, NEW c \in ContinuationIDs, Known(c)
    PROVE  Ticks(c, continuations[c], Observed(c))
  <1> DEFINE x0 == continuations[c]
             x1 == ReceiptTimedOut(x0)
             x2 == OfferLapsed(x1)
             x3 == AuthorizationLapsed(x2)
             x4 == TasksObserved(c, x3)
  <1>1. x0 \in Continuation /\ Orderly(c, x0)
    BY KnownContinuation
  <1> HIDE DEF x0
  <1>2. Ticks(c, x0, x1)
    BY <1>1, ReceiptTick
  <1> HIDE DEF x1
  <1>3. x1 \in Continuation /\ Orderly(c, x1)
    BY <1>2 DEF Ticks
  <1>4. Ticks(c, x1, x2)
    <2>1. x1.state = "offered" => x1.stop = "none"
      BY <1>3 DEF Orderly
    <2>2. CASE x2 = Freed(x1, "waiting_resources") /\ x1.state = "offered"
      BY <1>3, <2>1, <2>2, LapseTick
    <2>3. CASE x2 = x1
      BY <1>3, <2>3 DEF Ticks
    <2> QED  BY <2>2, <2>3 DEF OfferLapsed
  <1> HIDE DEF x2
  <1>5. x2 \in Continuation /\ Orderly(c, x2)
    BY <1>4 DEF Ticks
  <1>6. Ticks(c, x2, x3)
    <2>1. CASE /\ x3 = Freed(x2, "expired")
               /\ x2.state \in {"waiting_resources", "offered", "paused"}
      BY <1>5, <2>1, LapseTick
    <2>2. CASE x3 = x2
      BY <1>5, <2>2 DEF Ticks
    <2> QED  BY <2>1, <2>2 DEF AuthorizationLapsed
  <1> HIDE DEF x3
  <1>7. Ticks(c, x3, x4)
    <2>1. x3 \in Continuation /\ Orderly(c, x3)
      BY <1>6 DEF Ticks
    <2> QED  BY <2>1, TasksTick
  <1>8. x4 = Observed(c)
    BY DEF Observed, x3, x2, x1, x0
  <1> HIDE DEF x4
  <1> QED  BY <1>2, <1>4, <1>6, <1>7, <1>8, TicksChain DEF x0

\* A tick offers machines only to an experiment that has nothing, no stop and
\* no delivery in doubt (CheckContinuations).
LEMMA CheckMoves ==
    ASSUME IInv, StoreInv, NEW c \in ContinuationIDs, CheckContinuation(c)
    PROVE  ContinuationsMove
  <1> DEFINE x0 == continuations[c]
             x == Observed(c)
  <1>1. Known(c)
    BY DEF CheckContinuation
  <1>2. Ticks(c, x0, x)
    BY <1>1, ObservedTick
  <1>3. CASE SaveContinuation(c, x)
    <2>1. MayBecome(c, x0, x)
      BY <1>2, TickMove
    <2> QED  BY <1>1, <1>3, <2>1, SavedMove
  <1>4. CASE /\ x.state = "waiting_resources" /\ x.stop = "none" /\ ~DeliveryOpen(x)
             /\ x.generation < MaxGeneration
             /\ \E f \in Bundles(c) : SaveContinuation(c, Offered(x, f))
    <2>1. PICK f \in Bundles(c) : SaveContinuation(c, Offered(x, f))
      BY <1>4
    <2> DEFINE y == Offered(x, f)
    <2> HIDE DEF x0, x
    <2>2. MayBecome(c, x, y)
      BY <1>2, <1>4, OfferedMove DEF Ticks, IInv
    <2> HIDE DEF y
    <2>3. ~Claimed(x0) /\ ~DeliveryOpen(x0) /\ x0.state # "completed"
      BY <1>2, <1>4 DEF Ticks, Claimed, OccupiedStates
    <2>4. MayBecome(c, x0, y)
      BY <1>2, <2>2, <2>3 DEF Ticks, MayBecome, Carries
    <2> QED  BY <1>1, <2>1, <2>4, SavedMove DEF x0, y
  <1> QED  BY <1>3, <1>4 DEF CheckContinuation

\* A launch intent is recorded under a claimed grant (continuationSubmitLocked
\* and continuationIntentLocked).
LEMMA IntentMove ==
    ASSUME NEW c, NEW x \in Continuation, Orderly(c, x), NEW t \in Tasks,
           x.state \in {"claimed", "executing"}
    PROVE  MayBecome(c, x, WithLaunchIntent(x, t))
  <1> DEFINE y == WithLaunchIntent(x, t)
  <1>1. /\ y \in Continuation /\ y.state = "executing" /\ y.wake = x.wake /\ y.mode = x.mode
        /\ y.allocations = x.allocations /\ y.grant = x.grant /\ y.generation = x.generation
        /\ y.intents = x.intents \cup {t}
    BY DEF WithLaunchIntent, Continuation, ContinuationStates, OccupiedStates
  <1> HIDE DEF y
  <1>2. Claimed(y) /\ x.state \in OccupiedStates
    BY <1>1 DEF Claimed, OccupiedStates
  <1>3. DeliveryOpen(y) <=> DeliveryOpen(x)
    BY <1>1 DEF DeliveryOpen
  <1>4. x.intents \subseteq y.intents
    BY <1>1
  <1>5. MayBecome(c, x, y)
    BY <1>1, <1>2, <1>3, <1>4, KeptMove
  <1> QED  BY <1>5 DEF y

\* A launch intent is added to an experiment and nothing else changes.
LEMMA RecordIntentMoves ==
    ASSUME IInv, StoreInv, NEW t \in Tasks, NEW q \in Request, NEW m \in Machines,
           Admitted(seen[t], t, q, m), RecordIntent(t, q)
    PROVE  ContinuationsMove
  <1>1. \A d \in ContinuationIDs : Known(d) => MayBecome(d, continuations[d], continuations[d])
    BY KnownContinuation, StaysOrderly
  <1>2. CASE q.continuation = None
    BY <1>1, <1>2 DEF RecordIntent, ContinuationsMove, Known
  <1>3. CASE q.continuation # None
    <2> DEFINE c == q.continuation
               x == continuations[c]
               y == WithLaunchIntent(x, t)
    <2>1. c \in ContinuationIDs /\ Known(c) /\ x.state \in {"claimed", "executing"}
      BY <1>3 DEF Request, Admitted, ContinuationAdmits
    <2>2. x \in Continuation /\ Orderly(c, x)
      BY <2>1, KnownContinuation
    <2>3. MayBecome(c, x, y)
      BY <2>1, <2>2, IntentMove
    <2>4. \A d \in ContinuationIDs : continuations'[d] = IF d = c THEN y ELSE continuations[d]
      BY <1>3 DEF RecordIntent, IInv, TypeOK
    <2> HIDE DEF y
    <2> QED  BY <1>1, <2>1, <2>3, <2>4 DEF ContinuationsMove, Known
  <1> QED  BY <1>2, <1>3

\* A restart takes the deliveries in progress for doubtful (loadContinuations).
LEMMA RestartMoves ==
    ASSUME IInv, StoreInv, Restart
    PROVE  ContinuationsMove
  <1>1. \A c \in ContinuationIDs : continuations'[c] = Reloaded(continuations[c])
    BY DEF Restart
  <1>2. ASSUME NEW c \in ContinuationIDs, Known(c)
        PROVE  MayBecome(c, continuations[c], Reloaded(continuations[c]))
    <2> DEFINE x == continuations[c]
    <2>1. x \in Continuation /\ Orderly(c, x)
      BY <1>2, KnownContinuation
    <2> HIDE DEF x
    <2>2. CASE x.wake # NoWake /\ x.wake.status = "sending"
      <3> DEFINE w == [x.wake EXCEPT !.status = "delivery_uncertain"]
                 y == [x EXCEPT !.wake = w]
      <3>1. w \in Wake
        BY <2>1, <2>2 DEF Continuation, Wake
      <3>2. y = Reloaded(x)
        BY <2>1, <2>2, IdAssumption DEF Reloaded
      <3> HIDE DEF w
      <3>3. /\ y \in Continuation /\ y.wake = w /\ y.state = x.state /\ y.stop = x.stop
            /\ y.allocations = x.allocations /\ y.grant = x.grant /\ y.generation = x.generation
            /\ y.intents = x.intents /\ y.mode = x.mode /\ y.offerUntil = x.offerUntil
        BY <2>1, <3>1 DEF Continuation
      <3> HIDE DEF y
      <3>4. DeliveryOpen(x)
        BY <2>2 DEF DeliveryOpen
      <3>5. y.stop # "none" => y.state \notin {"waiting_resources", "offered"}
        BY <2>1, <3>3 DEF Orderly
      <3>6. MayBecome(c, x, y)
        BY <2>1, <3>1, <3>3, <3>4, <3>5, KeptMove, IdAssumption
      <3> QED  BY <3>2, <3>6 DEF x
    <2>3. CASE ~(x.wake # NoWake /\ x.wake.status = "sending")
      BY <2>1, <2>3, StaysOrderly DEF Reloaded, x
    <2> QED  BY <2>2, <2>3
  <1>3. \A c \in ContinuationIDs : ~Known(c) => Reloaded(continuations[c]) = Unregistered
    BY DEF Reloaded, Known
  <1> QED  BY <1>1, <1>2, <1>3 DEF ContinuationsMove, Known

\* An experiment that is left alone has not moved.
LEMMA UnchangedMoves ==
    ASSUME IInv, StoreInv, UNCHANGED continuations
    PROVE  ContinuationsMove
  BY KnownContinuation, StaysOrderly DEF ContinuationsMove, Known

\* Every step keeps every continuation orderly.
LEMMA NextContinuations ==
    ASSUME IInv, StoreInv, [Next]_vars
    PROVE  ContinuationsMove
  <1> USE UnchangedMoves
  <1>1. CASE ClientNext
    <2>1. ASSUME NEW t \in Tasks, NEW q \in Request, NEW m \in Machines, Submit(t, q, m)
          PROVE  ContinuationsMove
      BY <2>1, RecordIntentMoves DEF Submit
    <2> QED  BY <1>1, <2>1 DEF ClientNext, Reserve, ReserveGroup, ReleaseReservation,
             SaveReservation, SubmitReads, SubmitAnswered, Abandon
  <1>2. CASE AgentNext
    BY <1>2, RegisterMoves, EvaluateMoves, ControlMoves, ClaimMoves, ReportMoves, DeliveryMoves
       DEF AgentNext
  <1>3. CASE ServiceNext
    BY <1>3, CheckMoves
       DEF ServiceNext, Follow, Launch, LaunchRefused, LaunchReturns, ProbeReads, ProbeApplies
  <1>4. CASE WorldNext
    BY <1>4, DeadlineMoves, RestartMoves
       DEF WorldNext, EditConfig, RemoteStart, RequestLost, RemoteEnd, Crash, serviceVars
  <1>5. CASE UNCHANGED vars
    BY <1>5 DEF vars, serviceVars
  <1> QED  BY <1>1, <1>2, <1>3, <1>4, <1>5 DEF Next

----------------------------------------------------------------------------
(***************************************************************************)
(* Reservations and records                                                *)
(***************************************************************************)

\* A reservation is never forgotten, keeps its task and keeps its intent.
ReservationsMove ==
    \A r \in ReservationIDs : reservations[r] # NoReservation =>
        /\ reservations'[r] # NoReservation
        /\ reservations'[r].task = reservations[r].task
        /\ reservations[r].intent => reservations'[r].intent

\* Recording an intent marks groups only, and them for good.
LEMMA RecordIntentReserves ==
    ASSUME IInv, NEW t \in Tasks, NEW q \in Request, NEW m \in Machines,
           Admitted(seen[t], t, q, m), RecordIntent(t, q)
    PROVE  /\ ReservationsMove
           /\ q.reservation # None =>
                 /\ q.reservation \in ReservationIDs
                 /\ reservations'[q.reservation] # NoReservation
                 /\ IsGroup(reservations'[q.reservation]) =>
                       /\ reservations'[q.reservation].intent
                       /\ reservations'[q.reservation].task = t
  <1>1. CASE q.reservation = None
    BY <1>1 DEF RecordIntent, ReservationsMove
  <1>2. CASE q.reservation # None
    <2> DEFINE r == q.reservation
               x == reservations[r]
               y == WithIntent(x)
    <2>1. r \in ReservationIDs /\ x \in Reservation /\ (IsGroup(x) => x.task = t)
      BY <1>2 DEF Request, Admitted, ReservationAdmits, IsUnreleased, IInv, TypeOK
    <2>2. \A s \in ReservationIDs : reservations'[s] = IF s = r THEN y ELSE reservations[s]
      BY <1>2 DEF RecordIntent, IInv, TypeOK
    <2>3. y \in Reservation /\ y.task = x.task /\ (x.intent => y.intent) /\ (IsGroup(x) => y.intent)
      BY <2>1 DEF WithIntent, Reservation
    <2> HIDE DEF y
    <2> QED  BY <1>2, <2>1, <2>2, <2>3, IdAssumption DEF ReservationsMove, IsGroup
  <1> QED  BY <1>1, <1>2

\* The handlers of continuations leave everything else alone.
OnlyContinuations ==
    UNCHANGED <<config, jobs, disk, reservations, up, seen, pc, probes, worldVars, settled>>

\* What an AI thread or a bridge reports changes experiments only.
LEMMA AgentLeaves ==
    ASSUME AgentNext
    PROVE  OnlyContinuations
  <1>1. ASSUME NEW c, NEW x, SaveContinuation(c, x)
        PROVE  OnlyContinuations
    BY <1>1 DEF SaveContinuation, OnlyContinuations
  <1>2. ASSUME NEW c, NEW mode, RegisterContinuation(c, mode)
        PROVE  OnlyContinuations
    BY <1>1, <1>2 DEF RegisterContinuation
  <1>3. ASSUME NEW c, EvaluateContinuation(c)
        PROVE  OnlyContinuations
    BY <1>1, <1>3 DEF EvaluateContinuation
  <1>4. ASSUME NEW c, NEW a, ControlContinuation(c, a)
        PROVE  OnlyContinuations
    BY <1>1, <1>4 DEF ControlContinuation
  <1>5. ASSUME NEW c, NEW g, NEW k, ClaimContinuation(c, g, k)
        PROVE  OnlyContinuations
    BY <1>1, <1>5 DEF ClaimContinuation
  <1>6. ASSUME NEW c, NEW g, NEW k, ReportContinuation(c, g, k)
        PROVE  OnlyContinuations
    BY <1>1, <1>6 DEF ReportContinuation
  <1>7. ASSUME NEW c, NEW s, NEW g, NEW k, NEW a, DeliveryContinuation(c, s, g, k, a)
        PROVE  OnlyContinuations
    BY <1>1, <1>7 DEF DeliveryContinuation
  <1> QED  BY <1>2, <1>3, <1>4, <1>5, <1>6, <1>7 DEF AgentNext

\* So does the scheduler.
LEMMA ScheduleLeaves ==
    ASSUME NEW c,
           \/ CheckContinuation(c) \/ OfferDeadlinePasses(c) \/ AuthorizationEnds(c)
           \/ ReceiptOverdue(c)
    PROVE  OnlyContinuations
  <1>1. ASSUME NEW x, SaveContinuation(c, x)
        PROVE  OnlyContinuations
    BY <1>1 DEF SaveContinuation, OnlyContinuations
  <1>2. CASE CheckContinuation(c)
    BY <1>1, <1>2 DEF CheckContinuation
  <1>3. CASE OfferDeadlinePasses(c) \/ AuthorizationEnds(c) \/ ReceiptOverdue(c)
    BY <1>1, <1>3 DEF OfferDeadlinePasses, AuthorizationEnds, ReceiptOverdue
  <1> QED  BY <1>2, <1>3

\* A step that changes a reservation makes one of these moves.
LEMMA NextReservations ==
    ASSUME IInv, [Next]_vars
    PROVE  ReservationsMove
  <1>1. UNCHANGED reservations => ReservationsMove
    BY DEF ReservationsMove
  <1>2. CASE ClientNext
    <2>1. ASSUME NEW r \in ReservationIDs, NEW x, SaveReservation(r, x), reservations[r] = NoReservation
          PROVE  ReservationsMove
      BY <2>1 DEF SaveReservation, ReservationsMove, IInv, TypeOK
    <2>2. ASSUME NEW r \in ReservationIDs, NEW m \in Machines, Reserve(r, m)
          PROVE  ReservationsMove
      BY <2>1, <2>2 DEF Reserve
    <2>3. ASSUME NEW r \in ReservationIDs, NEW ms \in SUBSET Machines, NEW m \in Machines,
                 NEW t \in Tasks, ReserveGroup(r, ms, m, t)
          PROVE  ReservationsMove
      BY <2>1, <2>3 DEF ReserveGroup
    <2>4. ASSUME NEW r \in ReservationIDs, ReleaseReservation(r)
          PROVE  ReservationsMove
      <3> DEFINE x == reservations[r]
                 y == [x EXCEPT !.released = TRUE]
      <3>1. x \in Reservation
        BY <2>4 DEF ReleaseReservation, IsUnreleased, IInv, TypeOK
      <3>2. y \in Reservation /\ y.task = x.task /\ y.intent = x.intent
        BY <3>1 DEF Reservation
      <3>3. \A s \in ReservationIDs : reservations'[s] = IF s = r THEN y ELSE reservations[s]
        BY <2>4 DEF ReleaseReservation, SaveReservation, IInv, TypeOK
      <3> HIDE DEF y
      <3> QED  BY <3>2, <3>3, IdAssumption DEF ReservationsMove
    <2>5. ASSUME NEW t \in Tasks, NEW q \in Request, NEW m \in Machines, Submit(t, q, m)
          PROVE  ReservationsMove
      BY <2>5, RecordIntentReserves DEF Submit
    <2> QED  BY <1>1, <1>2, <2>2, <2>3, <2>4, <2>5 DEF ClientNext, SubmitReads, SubmitAnswered, Abandon
  <1>3. CASE AgentNext
    BY <1>1, <1>3, AgentLeaves DEF OnlyContinuations
  <1>4. CASE ServiceNext
    BY <1>1, <1>4, ScheduleLeaves DEF ServiceNext, Follow, Launch, LaunchRefused, LaunchReturns,
       ProbeReads, ProbeApplies, OnlyContinuations
  <1>5. CASE WorldNext
    BY <1>1, <1>5, ScheduleLeaves DEF WorldNext, EditConfig, RemoteStart, RequestLost, RemoteEnd,
       Crash, Restart, OnlyContinuations, serviceVars
  <1>6. CASE UNCHANGED vars
    BY <1>1, <1>6 DEF vars, serviceVars
  <1> QED  BY <1>2, <1>3, <1>4, <1>5, <1>6 DEF Next

\* The record of t is of the task it was of, if there is one.
SameRecord(t) == disk'[t] \in Job => disk[t] \in Job /\ SameTask(disk'[t], disk[t])

\* A record that could be loaded still can: its group keeps its intent, and
\* its continuation the grant it was started with.
LEMMA RecordKept ==
    ASSUME IInv, StoreInv, ContinuationsMove, ReservationsMove, NEW t \in Tasks, SameRecord(t)
    PROVE  RecordLoads(t)'
  <1> SUFFICES ASSUME disk'[t] \in Job
               PROVE  RecordLoads(t)'
    BY DEF RecordLoads
  <1> DEFINE j == disk[t]
             i == disk'[t]
  <1>1. /\ j \in Job /\ i.reservation = j.reservation /\ i.continuation = j.continuation
        /\ i.generation = j.generation
    BY DEF SameRecord, SameTask
  <1>2. RecordLoads(t)
    BY DEF StoreInv
  <1> HIDE DEF i, j
  <1>3. ASSUME j.reservation # None
        PROVE  LET r == reservations'[j.reservation] IN
               r # NoReservation /\ (IsGroup(r) => r.intent /\ r.task = t)
    <2>1. j.reservation \in ReservationIDs
      BY <1>1, <1>3 DEF Job
    <2>2. LET r == reservations[j.reservation] IN
          r # NoReservation /\ (IsGroup(r) => r.intent /\ r.task = t)
      BY <1>1, <1>2, <1>3 DEF RecordLoads, j
    <2> QED  BY <2>1, <2>2 DEF ReservationsMove, IsGroup
  <1>4. ASSUME j.continuation # None
        PROVE  LET x == continuations'[j.continuation] IN
               /\ x # Unregistered /\ t \in x.intents /\ t \in Plan[j.continuation]
               /\ \/ x.state = "completed"
                  \/ IsOccupied(x) /\ x.grant = j.generation /\ x.generation = j.generation
    <2> DEFINE c == j.continuation
               x == continuations[c]
               y == continuations'[c]
    <2>1. c \in ContinuationIDs
      BY <1>1, <1>4 DEF Job
    <2>2. /\ Known(c) /\ t \in x.intents /\ t \in Plan[c]
          /\ \/ x.state = "completed"
             \/ IsOccupied(x) /\ x.grant = j.generation /\ x.generation = j.generation
      BY <1>1, <1>2, <1>4 DEF RecordLoads, j, Known
    <2>3. MayBecome(c, x, y) /\ Orderly(c, x)
      BY <2>1, <2>2, KnownContinuation DEF ContinuationsMove
    <2> HIDE DEF c, x, y
    <2>4. y \in Continuation /\ Orderly(c, y) /\ Carries(x, y)
      BY <2>3 DEF MayBecome
    <2>5. y # Unregistered /\ t \in y.intents
      BY <2>2, <2>4, IdAssumption DEF Carries
    <2>6. CASE x.state = "completed"
      BY <2>2, <2>4, <2>5, <2>6 DEF Carries, c, y
    <2>7. CASE x.state # "completed"
      <3>1. Claimed(x)
        BY <2>2, <2>3, <2>7 DEF Orderly, Claimed
      <3>2. y.state = "completed" \/ (Claimed(y) /\ y.grant = x.grant)
        BY <2>4, <2>5, <3>1 DEF Carries
      <3>3. Claimed(y) => IsOccupied(y) /\ y.generation = y.grant
        BY <2>4, <2>5 DEF Claimed, IsOccupied, Orderly
      <3> QED  BY <2>2, <2>5, <2>7, <3>2, <3>3 DEF c, y
    <2> QED  BY <2>6, <2>7
  <1> QED  BY <1>1, <1>3, <1>4 DEF RecordLoads, i, j

\* A new record can be loaded: the intent was written before it (Submit).
LEMMA NewRecord ==
    ASSUME IInv, StoreInv, ContinuationsMove, NEW t \in Tasks, NEW q \in Request, NEW m \in Machines,
           Admitted(seen[t], t, q, m), RecordIntent(t, q),
           disk'[t] = Dispatched(seen[t], q, m)
    PROVE  RecordLoads(t)'
  <1> DEFINE i == disk'[t]
  <1>1. i.reservation = q.reservation /\ i.continuation = q.continuation
    BY DEF Dispatched
  <1>2. i.continuation # None => ContinuationVouches(continuations'[i.continuation], t, i)
    BY NewTaskVouched
  <1> HIDE DEF i
  <1>3. ASSUME i.reservation # None
        PROVE  LET r == reservations'[i.reservation] IN
               r # NoReservation /\ (IsGroup(r) => r.intent /\ r.task = t)
    BY <1>1, <1>3, RecordIntentReserves
  <1>4. ASSUME i.continuation # None
        PROVE  LET x == continuations'[i.continuation] IN
               /\ x # Unregistered /\ t \in x.intents /\ t \in Plan[i.continuation]
               /\ IsOccupied(x) /\ x.grant = i.generation /\ x.generation = i.generation
    <2> DEFINE c == i.continuation
               y == continuations'[c]
    <2>1. c \in ContinuationIDs /\ Known(c)
      BY <1>1, <1>4, IntentStep
    <2>2. Orderly(c, y)
      BY <2>1 DEF ContinuationsMove, MayBecome
    <2>3. ContinuationVouches(y, t, i)
      BY <1>2, <1>4
    <2> HIDE DEF c, y
    <2>4. <<t, i.alloc>> \in y.allocations /\ IsOccupied(y)
      BY <2>3 DEF ContinuationVouches
    <2>5. t \in Plan[c]
      <3>1. {p[1] : p \in y.allocations} = Plan[c]
        BY <2>2, <2>4 DEF Orderly, WholeBundle
      <3>2. <<t, i.alloc>>[1] \in {p[1] : p \in y.allocations}
        BY <2>4
      <3> QED  BY <3>1, <3>2
    <2> QED  BY <2>3, <2>5 DEF ContinuationVouches, IsOccupied, c, y
  <1> QED  BY <1>3, <1>4 DEF RecordLoads, i

----------------------------------------------------------------------------
(***************************************************************************)
(* Tasks                                                                   *)
(***************************************************************************)

\* What a step may do to task t: its records say of its outcome what is known,
\* stay records of the same task or fit what they were submitted under, and
\* an outcome in the memory of a running service stays.
TaskMoves(t) ==
    /\ \A j \in {jobs'[t], disk'[t]} \cap Job : OutcomeKnown(t, j)'
    /\ SameRecord(t) \/ RecordLoads(t)'
    /\ disk'[t] = EmptyDir => disk[t] = EmptyDir \/ "torn" \in Faults
    /\ jobs[t] # NoJob /\ jobs[t].status \in Finished /\ up' => jobs'[t] = jobs[t]

\* A task moves by itself while its records are left alone.
LEMMA TaskStays ==
    ASSUME IInv, StoreInv, NEW t \in Tasks,
           disk'[t] = disk[t], up' => jobs'[t] = jobs[t], ~up' => jobs'[t] = NoJob,
           remote'[t] = remote[t], launches'[t] = launches[t]
    PROVE  TaskMoves(t)
  <1>1. \A j \in {jobs[t], disk[t]} \cap Job : OutcomeKnown(t, j)
    BY DEF StoreInv, OutcomesKnown
  <1>2. \A j : OutcomeKnown(t, j)' <=> OutcomeKnown(t, j)
    BY DEF OutcomeKnown
  <1>3. SameRecord(t)
    BY DEF SameRecord, SameTask
  <1> QED  BY <1>1, <1>2, <1>3, IdAssumption DEF TaskMoves, IInv, TypeOK

\* The memory of an unfinished task takes what is known of its outcome,
\* written or not.
LEMMA StatusMoves ==
    ASSUME IInv, StoreInv, NEW t \in Tasks, jobs[t] \in Job, jobs[t].status \in Unfinished,
           NEW j \in Job, SameTask(j, jobs[t]), OutcomeKnown(t, j),
           jobs' = [jobs EXCEPT ![t] = j],
           disk' = [disk EXCEPT ![t] = j] \/ disk' = disk,
           UNCHANGED <<up, remote, launches>>
    PROVE  \A u \in Tasks : TaskMoves(u)
  <1>1. up
    BY IdAssumption DEF IInv, MemoryMatches
  <1>2. ASSUME NEW u \in Tasks, u # t
        PROVE  TaskMoves(u)
    <2>1. jobs'[u] = jobs[u] /\ disk'[u] = disk[u]
      BY <1>2 DEF IInv, TypeOK
    <2> QED  BY <1>1, <2>1, TaskStays
  <1>3. TaskMoves(t)
    <2>1. jobs'[t] = j /\ disk'[t] \in {j, disk[t]}
      BY DEF IInv, TypeOK
    <2>2. disk[t] \in Job /\ SameTask(jobs[t], disk[t])
      BY <1>1 DEF IInv, MemoryMatches
    <2>3. SameRecord(t)
      BY <2>1, <2>2 DEF SameRecord, SameTask
    <2>4. \A i \in {j, disk[t]} : OutcomeKnown(t, i)'
      BY <2>2 DEF StoreInv, OutcomesKnown, OutcomeKnown
    <2>5. disk'[t] # EmptyDir
      BY <2>1, <2>2, IdAssumption
    <2>6. jobs[t].status \notin Finished
      BY DEF Finished, Unfinished
    <2> QED  BY <2>1, <2>3, <2>4, <2>5, <2>6 DEF TaskMoves
  <1> QED  BY <1>2, <1>3

\* An unfinished record has no exit code.
LEMMA UnfinishedKnown ==
    ASSUME StoreInv, NEW t \in Tasks, jobs[t] \in Job, jobs[t].status \in Unfinished
    PROVE  ~jobs[t].exited
  BY DEF StoreInv, OutcomesKnown, OutcomeKnown, Unfinished

\* A task that cannot be launched fails without having been launched (follow).
LEMMA LaunchRefusedMoves ==
    ASSUME IInv, StoreInv, NEW t \in Tasks, LaunchRefused(t)
    PROVE  \A u \in Tasks : TaskMoves(u)
  <1> DEFINE j == [jobs[t] EXCEPT !.status = "failed"]
  <1>1. jobs[t] \in Job /\ jobs[t].status \in Unfinished /\ launches[t] = 0
    BY DEF LaunchRefused, IInv, MemoryMatches, LaunchesOnce, Unfinished
  <1>2. j \in Job /\ SameTask(j, jobs[t]) /\ j.status = "failed" /\ j.exited = jobs[t].exited
    BY <1>1 DEF Job, SameTask, Finished
  <1>3. OutcomeKnown(t, j)
    BY <1>1, <1>2, UnfinishedKnown DEF OutcomeKnown
  <1>4. /\ jobs' = [jobs EXCEPT ![t] = j]
        /\ disk' = [disk EXCEPT ![t] = j] \/ disk' = disk
    BY DEF LaunchRefused, Saved
  <1> HIDE DEF j
  <1> QED  BY <1>1, <1>2, <1>3, <1>4, StatusMoves DEF LaunchRefused, worldVars

\* A launch that returned has no outcome yet (follow).
LEMMA LaunchReturnsMoves ==
    ASSUME IInv, StoreInv, NEW t \in Tasks, LaunchReturns(t)
    PROVE  \A u \in Tasks : TaskMoves(u)
  <1>1. PICK s \in {"running", "unknown"} : Saved(t, [jobs[t] EXCEPT !.status = s])
    BY DEF LaunchReturns
  <1> DEFINE j == [jobs[t] EXCEPT !.status = s]
  <1>2. jobs[t] \in Job /\ jobs[t].status \in Unfinished
    BY DEF LaunchReturns, IInv, MemoryMatches, Unfinished
  <1>3. j \in Job /\ SameTask(j, jobs[t]) /\ j.status = s /\ j.exited = jobs[t].exited
    BY <1>2 DEF Job, SameTask, Unfinished
  <1>4. OutcomeKnown(t, j)
    BY <1>2, <1>3, UnfinishedKnown DEF OutcomeKnown
  <1>5. /\ jobs' = [jobs EXCEPT ![t] = j]
        /\ disk' = [disk EXCEPT ![t] = j] \/ disk' = disk
    BY <1>1 DEF Saved
  <1> HIDE DEF j
  <1> QED  BY <1>2, <1>3, <1>4, <1>5, StatusMoves DEF LaunchReturns, worldVars

\* An abandoned task has no exit code (Abandon).
LEMMA AbandonMoves ==
    ASSUME IInv, StoreInv, NEW t \in Tasks, Abandon(t)
    PROVE  \A u \in Tasks : TaskMoves(u)
  <1> DEFINE j == [jobs[t] EXCEPT !.status = "abandoned"]
  <1>1. jobs[t] \in Job /\ jobs[t].status \in Unfinished
    BY DEF Abandon, MayAbandon, IInv, TypeOK, Unfinished
  <1>2. j \in Job /\ SameTask(j, jobs[t]) /\ j.status = "abandoned" /\ j.exited = jobs[t].exited
    BY <1>1 DEF Job, SameTask, Finished
  <1>3. OutcomeKnown(t, j)
    BY <1>1, <1>2, UnfinishedKnown DEF OutcomeKnown
  <1>4. jobs' = [jobs EXCEPT ![t] = j] /\ disk' = [disk EXCEPT ![t] = j]
    BY <1>1 DEF Abandon, IInv, TypeOK
  <1> HIDE DEF j
  <1> QED  BY <1>1, <1>2, <1>3, <1>4, StatusMoves DEF Abandon, worldVars

\* An exit code that is applied is the one the machine has; a late answer
\* changes nothing (observe, complete).
LEMMA ProbeAppliesMoves ==
    ASSUME IInv, StoreInv, NEW t \in Tasks, NEW a \in Answers, ProbeApplies(t, a)
    PROVE  \A u \in Tasks : TaskMoves(u)
  <1>1. CASE StillOpen(t)
    <2> DEFINE j == AfterAnswer(jobs[t], a)
    <2>1. jobs[t] \in Job /\ jobs[t].status \in Unfinished
      BY <1>1 DEF StillOpen, IsUnfinished, IInv, TypeOK
    <2>2. /\ j \in Job /\ SameTask(j, jobs[t])
          /\ CASE a = "exit0" -> j.status = "succeeded" /\ j.exited
               [] a = "exit1" -> j.status = "failed" /\ j.exited
               [] OTHER -> j.status \in {"running", "unknown"} /\ j.exited = jobs[t].exited
      BY <2>1 DEF AfterAnswer, Answers, Job, SameTask, Finished, Unfinished
    <2>3. a \in {"exit0", "exit1"} => remote[t] = a
      BY DEF ProbeApplies, IInv, LaunchesOnce
    <2> HIDE DEF j
    <2>4. OutcomeKnown(t, j)
      BY <2>1, <2>2, <2>3, UnfinishedKnown DEF OutcomeKnown, Answers
    <2>5. /\ jobs' = [jobs EXCEPT ![t] = j]
          /\ disk' = [disk EXCEPT ![t] = j] \/ disk' = disk
      BY <1>1 DEF ProbeApplies, Saved, j
    <2> QED  BY <2>1, <2>2, <2>4, <2>5, StatusMoves DEF ProbeApplies, worldVars
  <1>2. CASE ~StillOpen(t)
    <2>1. UNCHANGED <<jobs, disk, up, remote, launches>>
      BY <1>2 DEF ProbeApplies, worldVars
    <2>2. ~up => \A u \in Tasks : jobs[u] = NoJob
      BY DEF IInv, MemoryMatches
    <2> QED  BY <2>1, <2>2, TaskStays
  <1> QED  BY <1>1, <1>2

\* A launch is of a task whose records do not say that it failed (follow).
LEMMA LaunchMoves ==
    ASSUME IInv, StoreInv, NEW t \in Tasks, Launch(t)
    PROVE  \A u \in Tasks : TaskMoves(u)
  <1>1. /\ UNCHANGED <<jobs, disk, up, remote>>
        /\ \A u \in Tasks \ {t} : launches'[u] = launches[u]
    BY DEF Launch, IInv, TypeOK
  <1>2. ~up => \A u \in Tasks : jobs[u] = NoJob
    BY DEF IInv, MemoryMatches
  <1>3. \A u \in Tasks \ {t} : TaskMoves(u)
    BY <1>1, <1>2, TaskStays
  <1>4. TaskMoves(t)
    <2>1. \A j \in {jobs[t], disk[t]} \cap Job : j.status \in Unfinished
      BY DEF Launch, IInv, MemoryMatches, LaunchesOnce, Live, Unfinished
    <2>2. \A j \in {jobs[t], disk[t]} \cap Job : OutcomeKnown(t, j)'
      BY <1>1, <2>1 DEF StoreInv, OutcomesKnown, OutcomeKnown, Unfinished
    <2>3. SameRecord(t)
      BY <1>1 DEF SameRecord, SameTask
    <2> QED  BY <1>1, <2>2, <2>3 DEF TaskMoves
  <1> QED  BY <1>3, <1>4

\* Machines change what no record says yet.
LEMMA RemoteMoves ==
    ASSUME IInv, StoreInv, NEW t \in Tasks,
           RemoteStart(t) \/ RequestLost(t) \/ \E s \in RemoteStates : RemoteEnd(t, s)
    PROVE  \A u \in Tasks : TaskMoves(u)
  <1>1. /\ UNCHANGED <<jobs, disk, up, launches>>
        /\ \A u \in Tasks : remote'[u] = remote[u] \/ remote[u] \notin {"exit0", "exit1"}
    BY DEF RemoteStart, RequestLost, RemoteEnd, serviceVars, IInv, TypeOK
  <1>2. \A u \in Tasks : \A j \in {jobs[u], disk[u]} \cap Job : OutcomeKnown(u, j)'
    BY <1>1 DEF StoreInv, OutcomesKnown, OutcomeKnown
  <1>3. \A u \in Tasks : SameRecord(u)
    BY <1>1 DEF SameRecord, SameTask
  <1> QED  BY <1>1, <1>2, <1>3 DEF TaskMoves

\* A new record has no outcome, and is written after its intent (Submit).
LEMMA SubmitMoves ==
    ASSUME IInv, StoreInv, NEW t \in Tasks, NEW q \in Request, NEW m \in Machines, Submit(t, q, m)
    PROVE  \A u \in Tasks : TaskMoves(u)
  <1> DEFINE j == Dispatched(seen[t], q, m)
  <1>1. /\ jobs[t] = NoJob /\ Admitted(seen[t], t, q, m) /\ RecordIntent(t, q)
        /\ UNCHANGED <<remote, launches>>
    BY DEF Submit, worldVars
  <1>2. up
    BY DEF Submit, IInv, MemoryMatches
  <1>3. CASE /\ disk[t] = NoDir
             /\ jobs' = [jobs EXCEPT ![t] = j]
             /\ disk' = [disk EXCEPT ![t] = j]
             /\ UNCHANGED up
    <2>1. jobs'[t] = j /\ disk'[t] = j
      BY <1>3 DEF IInv, TypeOK
    <2>2. RecordLoads(t)'
      BY <1>1, <2>1, RecordIntentMoves, NewRecord
    <2>3. j.status = "dispatching" /\ ~j.exited
      BY DEF Dispatched
    <2>4. j # EmptyDir
      <3>1. seen[t] \in Config /\ Free(seen[t], m, OwnerOf(q))
        BY DEF Submit, IInv, TypeOK
      <3>2. AllocationOf(seen[t], m) \in Allocation
        BY <3>1, AllocationType DEF Free
      <3>3. j \in Job
        BY <3>2 DEF Dispatched, Request, Job, Unfinished
      <3> QED  BY <3>3, IdAssumption
    <2> HIDE DEF j
    <2>5. TaskMoves(t)
      BY <1>1, <2>1, <2>2, <2>3, <2>4 DEF TaskMoves, OutcomeKnown
    <2>6. ASSUME NEW u \in Tasks, u # t
          PROVE  TaskMoves(u)
      <3>1. jobs'[u] = jobs[u] /\ disk'[u] = disk[u]
        BY <1>3, <2>6 DEF IInv, TypeOK
      <3> QED  BY <1>1, <1>2, <1>3, <3>1, TaskStays
    <2> QED  BY <2>5, <2>6
  <1>4. CASE UNCHANGED <<jobs, disk, up>>
    BY <1>1, <1>2, <1>4, TaskStays
  <1>5. CASE /\ "torn" \in Faults
             /\ \/ UNCHANGED disk
                \/ disk[t] = NoDir /\ disk' = [disk EXCEPT ![t] = EmptyDir]
             /\ Stopped
    <2>1. ASSUME NEW u \in Tasks, disk'[u] = disk[u]
          PROVE  TaskMoves(u)
      BY <1>1, <1>5, <2>1, TaskStays DEF Stopped
    <2>2. CASE disk[t] = NoDir /\ disk' = [disk EXCEPT ![t] = EmptyDir]
      <3>1. disk'[t] = EmptyDir /\ \A u \in Tasks \ {t} : disk'[u] = disk[u]
        BY <2>2 DEF IInv, TypeOK
      <3>2. TaskMoves(t)
        BY <1>1, <1>5, <3>1, IdAssumption DEF TaskMoves, SameRecord, Stopped
      <3> QED  BY <2>1, <3>1, <3>2
    <2> QED  BY <1>5, <2>1, <2>2
  <1> QED  BY <1>3, <1>4, <1>5 DEF Submit

\* A restored record keeps its outcome (newTaskManager).
LEMMA RestartTaskMoves ==
    ASSUME IInv, StoreInv, NEW t \in Tasks, Restart
    PROVE  TaskMoves(t)
  <1>1. jobs[t] = NoJob /\ UNCHANGED <<remote, launches>>
    BY DEF Restart, IInv, MemoryMatches, worldVars
  <1>2. CASE disk[t] \in Job
    <2>1. jobs'[t] = Recovered(disk[t]) /\ disk'[t] = Recovered(disk[t])
      BY <1>2 DEF Restart
    <2>2. Recovered(disk[t]) \in Job /\ SameTask(Recovered(disk[t]), disk[t])
      BY <1>2, RecoveredKeeps
    <2>3. OutcomeKnown(t, disk[t])
      BY <1>2 DEF StoreInv, OutcomesKnown
    <2>4. OutcomeKnown(t, Recovered(disk[t]))
      <3>1. CASE disk[t].status = "dispatching"
        <4>1. ~disk[t].exited
          BY <2>3, <3>1 DEF OutcomeKnown
        <4>2. Recovered(disk[t]).status = "unknown" /\ Recovered(disk[t]).exited = disk[t].exited
          BY <1>2, <3>1 DEF Recovered, Job
        <4> QED  BY <4>1, <4>2 DEF OutcomeKnown
      <3>2. CASE disk[t].status # "dispatching"
        BY <1>2, <2>3, <3>2 DEF Recovered
      <3> QED  BY <3>1, <3>2
    <2> QED  BY <1>1, <1>2, <2>1, <2>2, <2>4, IdAssumption DEF TaskMoves, SameRecord, OutcomeKnown
  <1>3. CASE disk[t] \notin Job
    BY <1>1, <1>3, IdAssumption DEF Restart, Recovered, TaskMoves, SameRecord
  <1> QED  BY <1>2, <1>3

\* Every step moves every task as it may.
LEMMA NextTasks ==
    ASSUME IInv, StoreInv, [Next]_vars
    PROVE  \A t \in Tasks : TaskMoves(t)
  <1>1. ~up => \A t \in Tasks : jobs[t] = NoJob
    BY DEF IInv, MemoryMatches
  <1>2. UNCHANGED <<jobs, disk, up, remote, launches>> => \A t \in Tasks : TaskMoves(t)
    BY <1>1, TaskStays
  <1>3. CASE ClientNext
    BY <1>2, <1>3, SubmitMoves, AbandonMoves
       DEF ClientNext, Reserve, ReserveGroup, ReleaseReservation, SaveReservation, SubmitReads,
           SubmitAnswered, worldVars
  <1>4. CASE AgentNext
    BY <1>2, <1>4, AgentLeaves DEF OnlyContinuations, worldVars
  <1>5. CASE ServiceNext
    <2>1. ASSUME NEW t \in Tasks, ProbeReads(t)
          PROVE  UNCHANGED <<jobs, disk, up, remote, launches>>
      BY <2>1 DEF ProbeReads, worldVars
    <2>2. ASSUME NEW c \in ContinuationIDs, CheckContinuation(c)
          PROVE  UNCHANGED <<jobs, disk, up, remote, launches>>
      BY <2>2, ScheduleLeaves DEF OnlyContinuations, worldVars
    <2> QED  BY <1>2, <1>5, <2>1, <2>2, LaunchMoves, LaunchRefusedMoves, LaunchReturnsMoves,
                ProbeAppliesMoves DEF ServiceNext, Follow
  <1>6. CASE WorldNext
    <2>1. CASE \E c \in ContinuationIDs :
                  OfferDeadlinePasses(c) \/ AuthorizationEnds(c) \/ ReceiptOverdue(c)
      BY <1>2, <2>1, ScheduleLeaves DEF OnlyContinuations, worldVars
    <2>2. CASE \E x \in Edits : EditConfig(x[1], x[2])
      BY <1>2, <2>2 DEF EditConfig, worldVars
    <2>3. CASE Crash
      BY <2>3, TaskStays DEF Crash, Stopped, worldVars
    <2> QED  BY <1>6, <2>1, <2>2, <2>3, RemoteMoves, RestartTaskMoves DEF WorldNext
  <1>7. CASE UNCHANGED vars
    BY <1>2, <1>7 DEF vars, serviceVars, worldVars
  <1> QED  BY <1>3, <1>4, <1>5, <1>6, <1>7 DEF Next

----------------------------------------------------------------------------
(***************************************************************************)
(* The theorems                                                            *)
(***************************************************************************)

\* The store is empty at first.
LEMMA InitStoreInv == Init => StoreInv
  <1> SUFFICES ASSUME Init PROVE StoreInv
    OBVIOUS
  <1>1. \A t \in Tasks : /\ disk[t] \notin Job /\ jobs[t] \notin Job
                         /\ disk[t] # EmptyDir
    BY IdAssumption DEF Init
  <1>2. \A c \in ContinuationIDs : ~Known(c)
    BY DEF Init, Known
  <1> QED  BY <1>1, <1>2 DEF StoreInv, OutcomesKnown, ContinuationsOrderly, RecordLoads

\* Every step keeps what the store says; one lemma above for each part of it.
LEMMA NextStoreInv == IInv /\ StoreInv /\ [Next]_vars => StoreInv'
  <1> SUFFICES ASSUME IInv, StoreInv, [Next]_vars PROVE StoreInv'
    OBVIOUS
  <1>1. ContinuationsMove /\ ReservationsMove /\ \A t \in Tasks : TaskMoves(t)
    BY NextContinuations, NextReservations, NextTasks
  <1>2. OutcomesKnown'
    BY <1>1 DEF TaskMoves, OutcomesKnown
  <1>3. ContinuationsOrderly'
    BY <1>1 DEF ContinuationsMove, MayBecome, ContinuationsOrderly, Known
  <1>4. \A t \in Tasks : RecordLoads(t)'
    BY <1>1, RecordKept DEF TaskMoves
  <1>5. "torn" \notin Faults => \A t \in Tasks : disk'[t] # EmptyDir
    BY <1>1 DEF TaskMoves, StoreInv
  <1> QED  BY <1>2, <1>3, <1>4, <1>5 DEF StoreInv

\* Both parts of the inductive invariant hold in every reachable state.
THEOREM InductiveHolds == Spec => []Inductive
  <1>1. Init => Inductive
    BY InitIInv, InitStoreInv DEF Inductive
  <1>2. Inductive /\ [Next]_vars => Inductive'
    BY NextIInv, NextStoreInv DEF Inductive
  <1> QED  BY <1>1, <1>2, PTL DEF Spec

\* An exit code in a record is the one the machine has, over late and repeated
\* answers, failed writes and restarts, and a task fails without one only if
\* it was never launched (observe, complete, follow).
THEOREM OutcomesFaithful == Spec => []OutcomeFaithful
  <1>1. Inductive => OutcomeFaithful
    BY DEF Inductive, StoreInv, OutcomesKnown, OutcomeKnown, OutcomeFaithful
  <1> QED  BY <1>1, InductiveHolds, PTL

\* No late answer changes the outcome of a task while the service runs
\* (observe and complete look at FinishedAt again).
THEOREM OutcomesFinal == Spec => OutcomesAreFinal
  <1>1. Inductive /\ [Next]_vars => FinishedIsFinal
    BY NextTasks DEF Inductive, TaskMoves, FinishedIsFinal
  <1> QED  BY <1>1, InductiveHolds, PTL DEF Spec, OutcomesAreFinal

\* An experiment that was told to stop is not offered machines, and one that
\* has none has no grant (ControlContinuation, ReportContinuation).
THEOREM StopsHonoured == Spec => []StopsAreHonoured
  <1>1. Inductive => StopsAreHonoured
    BY DEF Inductive, StoreInv, ContinuationsOrderly, Orderly, StopsAreHonoured
  <1> QED  BY <1>1, InductiveHolds, PTL

\* No new offer is made over a wake event whose delivery is in doubt
\* (CheckContinuations, EvaluateContinuation, set-mode).
THEOREM GenerationsAfterReceipts == Spec => GenerationsAfterReceipt
  <1>1. Inductive /\ [Next]_vars => GenerationAfterReceipt
    <2> SUFFICES ASSUME Inductive, [Next]_vars, NEW c \in ContinuationIDs, Known(c),
                        continuations'[c].generation # continuations[c].generation
                 PROVE  ~DeliveryOpen(continuations[c])
      BY DEF GenerationAfterReceipt, DeliveryOpen
    <2> QED  BY NextContinuations DEF Inductive, ContinuationsMove, MayBecome
  <1> QED  BY <1>1, InductiveHolds, PTL DEF Spec, GenerationsAfterReceipt

\* A claimed grant is given back only when none of its tasks was ever
\* launched, or all of them have left their exit codes (ReportContinuation).
THEOREM GrantsHeld == Spec => GrantsHeldUntilQuiet
  <1>1. Inductive /\ [Next]_vars => GrantHeldUntilQuiet
    <2> SUFFICES ASSUME Inductive, [Next]_vars, NEW c \in ContinuationIDs,
                        IsOccupied(continuations[c]), continuations[c].state # "offered",
                        ~IsOccupied(continuations'[c])
                 PROVE  \/ \A t \in Plan[c] : launches[t] = 0
                        \/ \A t \in Plan[c] : remote[t] \in {"exit0", "exit1"}
      BY DEF GrantHeldUntilQuiet
    <2> DEFINE x == continuations[c]
    <2>1. Known(c) /\ Claimed(x) /\ Plan[c] \subseteq Tasks
      BY InputAssumption DEF IsOccupied, Known, Claimed
    <2>2. up /\ (Releasable(c, x) \/ Completable(c, x))
      BY <2>1, NextContinuations DEF Inductive, ContinuationsMove, MayBecome
    <2>3. CASE Releasable(c, x)
      <3>1. \A t \in Plan[c] : disk[t] \notin Job
        BY <2>1, <2>2, <2>3, IdAssumption DEF Releasable, Inductive, IInv, MemoryMatches
      <3>2. \A t \in Plan[c] : launches[t] = 0
        BY <2>1, <3>1 DEF Inductive, IInv, LaunchesOnce, TypeOK
      <3> QED  BY <3>2
    <2>4. CASE Completable(c, x)
      <3>1. \A t \in Plan[c] : jobs[t] \in Job /\ jobs[t].exited
        BY <2>1, <2>4 DEF Completable, Inductive, IInv, TypeOK
      <3>2. \A t \in Plan[c] : remote[t] \in {"exit0", "exit1"}
        BY <2>1, <3>1 DEF Inductive, StoreInv, OutcomesKnown, OutcomeKnown
      <3> QED  BY <3>2
    <2> QED  BY <2>2, <2>3, <2>4
  <1> QED  BY <1>1, InductiveHolds, PTL DEF Spec, GrantsHeldUntilQuiet

\* Every record, and every experiment, is one a restart accepts.
RecordsLoad == \A t \in Tasks : RecordLoads(t)
AllContinuationsLoad == \A c \in ContinuationIDs : ContinuationLoads(c)

\* The invariant of the store says so (newTaskManager, loadContinuations).
LEMMA InductiveContents == Inductive => RecordsLoad /\ AllContinuationsLoad
  <1>1. Inductive => RecordsLoad
    BY DEF Inductive, StoreInv, RecordsLoad
  <1>2. Inductive => AllContinuationsLoad
    <2> SUFFICES ASSUME Inductive, NEW c \in ContinuationIDs, IsOccupied(continuations[c])
                 PROVE  ContinuationLoads(c)
      BY DEF ContinuationLoads, AllContinuationsLoad
    <2> DEFINE x == continuations[c]
    <2>1. Orderly(c, x) /\ x.state \in OccupiedStates
      BY DEF Inductive, StoreInv, ContinuationsOrderly, Known, IsOccupied
    <2>2. \A a \in AllocationsOf(x) :
             ~conflictsWithAny(a, HeldByContinuations(c) \cup HeldByReservations(None))
      <3>1. AllocationsOf(x) = ContinuationHolds(c)
        BY DEF ContinuationHolds
      <3>2. \A a \in AllocationsOf(x), b \in HeldByContinuations(c) : ~resourcesConflict(a, b)
        BY <3>1 DEF Inductive, IInv, HoldersExclusive, ContinuationsApart, Apart,
                    HeldByContinuations, ContinuationHolds
      <3>3. \A a \in AllocationsOf(x), b \in HeldByReservations(None) : ~resourcesConflict(a, b)
        BY <3>1, ConflictSymmetric DEF Inductive, IInv, HoldersExclusive,
              ReservationsApartFromContinuations, Apart, HeldByReservations, ReservationHolds
      <3> QED  BY <3>2, <3>3 DEF conflictsWithAny
    <2> QED  BY <2>1, <2>2 DEF ContinuationLoads, Orderly, WholeBundle
  <1> QED  BY <1>1, <1>2

\* Every record and every experiment in the store fits what it was written
\* under and what stands beside it, whatever failed before, stops inside
\* Submit included (newTaskManager, loadContinuations).
THEOREM ContentsLoad == Spec => [](RecordsLoad /\ AllContinuationsLoad)
  BY InductiveContents, InductiveHolds, PTL

\* Without a stop inside Submit there is no directory without a record
\* either: a restart finds nothing it refuses.
THEOREM StoreLoads ==
    ASSUME "torn" \notin Faults
    PROVE  Spec => []StoreAlwaysLoads
  <1>1. Inductive => StoreAlwaysLoads
    BY InductiveContents DEF Inductive, StoreInv, StoreAlwaysLoads, Loads, DirectoryLoads,
        RecordsLoad, AllContinuationsLoad
  <1> QED  BY <1>1, InductiveHolds, PTL
=============================================================================
