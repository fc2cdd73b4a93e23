---------------------------- MODULE MCActivation ----------------------------
(***************************************************************************)
(* Instances of controlled activation for TLC.  A behaviour is played by   *)
(* one of a few casts: the processes that ever run in it and the plans     *)
(* that are ever prepared.                                                 *)
(***************************************************************************)
EXTENDS ActivationProperties

CONSTANTS
    a1, a2, a3, c1, c2,
    p1, p2, q1, q2, o1,
    main, first, second,
    n1, n2,
    s1, s2

\* The fixtures of the batch, each with a route store of its own.
TwoFixtures == <<c1, c2>>
OwnRoutes == [a \in Activations |-> CASE a = c1 -> first [] a = c2 -> second [] OTHER -> main]

\* a1 and a2 were signed with the same nonce.
Replayed == [a \in Activations |-> IF a = a3 THEN n2 ELSE n1]

\* a1, its refinement a3 and the batch's first run are about the same fixture.
SharedFixture == [a \in Activations |-> IF a \in {a2, c2} THEN s2 ELSE s1]

VARIABLE cast

\* faults bounds how often an operator's command is struck; a runner or a
\* batch may be struck in every run.
Casts ==
    {[who |-> {p1, p2, o1}, plans |-> {a1, a2}, faults |-> 0],
     [who |-> {p1, o1}, plans |-> {a1, a3}, faults |-> 1],
     [who |-> {q1, q2}, plans |-> {}, faults |-> 0],
     [who |-> {p1, q1, o1}, plans |-> {a1}, faults |-> 0]}

OnStage ==
    /\ \A p \in Processes \ cast.who : UNCHANGED session[p]
    /\ \A a \in Controlled \ cast.plans : UNCHANGED record[a]

MCNext ==
    /\ \/ Call /\ UNCHANGED cast
       \/ \E p \in Processes : Step(p) /\ UNCHANGED cast
       \/ \E p \in Runners \cup Batches : Fault(p) /\ UNCHANGED cast
       \/ \E o \in Operators :
            /\ cast.faults > 0
            /\ Fault(o)
            /\ cast' = [cast EXCEPT !.faults = @ - 1]
    /\ OnStage

MCInit == Init /\ cast \in Casts

MCSpec == MCInit /\ [][MCNext]_<<vars, cast>> /\ Fairness
=============================================================================
