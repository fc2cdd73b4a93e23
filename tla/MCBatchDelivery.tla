--------------------------- MODULE MCBatchDelivery ---------------------------
(***************************************************************************)
(* Instances of the public delivery for TLC.  A behaviour is played by one *)
(* of a few casts: the processes and capabilities that occur in it, and    *)
(* how often a process is struck and a scheduled job writes a target.      *)
(***************************************************************************)
EXTENDS BatchDeliveryProperties

CONSTANTS
    g1,
    p1, p2, r1, r2,
    k1, k2,
    base, other

\* Both capabilities were issued for one generation, whose plan was built from
\* the product that is public at first.
Bound == [k \in Capabilities |-> g1]
BuiltFrom == [g \in Generations |-> base]

VARIABLE cast

Casts ==
    {[who |-> {p1, p2}, tokens |-> {k1}, faults |-> 2, drifts |-> 0],
     [who |-> {p1, p2}, tokens |-> {k1, k2}, faults |-> 0, drifts |-> 0],
     [who |-> {p1, r1}, tokens |-> {k1}, faults |-> 1, drifts |-> 1],
     [who |-> {p1, r1, r2}, tokens |-> {k1}, faults |-> 1, drifts |-> 0]}

OnStage ==
    /\ \A p \in Processes \ cast.who : UNCHANGED session[p]
    /\ \A p \in Processes : session'[p].token \in cast.tokens \cup {None}
    /\ capability' \in cast.tokens \cup {None}
    /\ drift' <= cast.drifts

MCNext ==
    /\ \/ (Call \/ World \/ \E p \in Processes : Step(p)) /\ UNCHANGED cast
       \/ /\ cast.faults > 0
          /\ \E p \in Processes : Fault(p)
          /\ cast' = [cast EXCEPT !.faults = @ - 1]
    /\ OnStage

MCInit == Init /\ cast \in Casts

MCSpec == MCInit /\ [][MCNext]_<<vars, cast>> /\ Fairness
=============================================================================
