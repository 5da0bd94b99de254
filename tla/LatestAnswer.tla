----------------------------- MODULE LatestAnswer -----------------------------
(***************************************************************************)
(* What every panel that asks the service promises its reader: beside the   *)
(* choices the reader sees, either nothing is shown or an answer to exactly *)
(* these choices, no older than the moment they were made.  How a panel     *)
(* keeps late answers out (a generation counter, an aborted request, a      *)
(* check that its dialog is open) is not said here.                         *)
(***************************************************************************)
EXTENDS Naturals

CONSTANTS
    Choices,    \* what the reader can ask for
    None        \* nothing shown

VARIABLES
    now,        \* version of what the service would answer
    asked,      \* the reader's choices
    since,      \* version when the reader asked
    shown       \* None, or the answer beside the choices

vars == <<now, asked, since, shown>>

Answer(q, at) == [query |-> q, at |-> at]

Init == /\ now \in Nat /\ since = now
        /\ asked \in Choices /\ shown = None

Changes == now' > now /\ UNCHANGED <<asked, since, shown>>

Ask(q) == /\ asked' = q
          /\ since' = now
          /\ shown' \in {None, Answer(q, now)}
          /\ UNCHANGED now

Show == /\ \E at \in since .. now : shown' = Answer(asked, at)
        /\ UNCHANGED <<now, asked, since>>

Hide == shown' = None /\ UNCHANGED <<now, asked, since>>

Next == Changes \/ Show \/ Hide \/ \E q \in Choices : Ask(q)

Spec == Init /\ [][Next]_vars

\* An answer that is shown is one to the choices beside it, and not an old one.
Matches == shown # None => shown.query = asked /\ shown.at >= since
=============================================================================
