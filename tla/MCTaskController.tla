-------------------------- MODULE MCTaskController --------------------------
(***************************************************************************)
(* Small instances of the task controller for TLC.                         *)
(***************************************************************************)
EXTENDS TaskController, TLC

CONSTANTS m1, m2, m3, t1, t2, c1, c2, p1, p2, h1, h2, local

OnHost(h, p) == [resourceID |-> None, host |-> h, port |-> p, enabled |-> TRUE]
Forward(id, p) == [resourceID |-> id, host |-> local, port |-> p, enabled |-> TRUE]
Disabled(e) == [e EXCEPT !.enabled = FALSE]

\* Two ports of one host, which are one physical machine, until m2 moves.
AliasedConfig == m1 :> OnHost(h1, 22) @@ m2 :> OnHost(h1, 23)
MoveEdits == {<<m2, OnHost(h2, 22)>>, <<m2, OnHost(h1, 23)>>}

\* Two hosts.
TwoHosts == m1 :> OnHost(h1, 22) @@ m2 :> OnHost(h2, 22)

\* Forwards to two nodes behind one loopback address, one of them twice.
Forwards == m1 :> Forward(p1, 2201) @@ m2 :> Forward(p2, 2202) @@ m3 :> Forward(p1, 2203)

\* A third machine is a second port of the first host.
ThreeEntries == m1 :> OnHost(h1, 22) @@ m2 :> OnHost(h2, 22) @@ m3 :> OnHost(h1, 23)

\* Three machines that are three.
ThreeHosts == m1 :> OnHost(h1, 22) @@ m2 :> OnHost(h2, 22) @@ m3 :> Forward(p1, 2201)

OneHost == m1 :> OnHost(h1, 22)
DisableEdits == {<<m1, Disabled(OnHost(h1, 22))>>, <<m1, OnHost(h1, 22)>>}
NoEdits == {}

NoPlan == <<>>
BothPlanned == c1 :> {t1, t2}
OnePlanned == c1 :> {t1}
NothingBefore == c1 :> {}

\* The two tasks of BothPlanned are alike.
EitherTask == Permutations({t1, t2})
=============================================================================
