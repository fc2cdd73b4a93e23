--------------------------- MODULE MCTaskDelivery ---------------------------
(***************************************************************************)
(* Instances of the delivery of a task for TLC.  A behaviour is played by  *)
(* one of a few casts: the processes that take part, how often one is      *)
(* struck down or reaped, and how often the base moves.                    *)
(***************************************************************************)
EXTENDS TaskDeliveryProperties

CONSTANTS w1, w2, o1, o2

VARIABLE cast

Casts ==
    {[who |-> {w1, w2}, faults |-> 2, moves |-> 1],
     [who |-> {w1, o1}, faults |-> 1, moves |-> 2],
     [who |-> {w1, o1, o2}, faults |-> 1, moves |-> 0]}

Struck == Reap \/ ReapAlive \/ \E p \in Processes : Crash(p)

Unstruck ==
    \/ \E p \in Workers : Claim(p)
    \/ \E o \in Operators : Command(o)
    \/ \E p \in Processes : Step(p)

MCNext ==
    /\ \/ Unstruck /\ UNCHANGED cast
       \/ cast.faults > 0 /\ Struck /\ cast' = [cast EXCEPT !.faults = @ - 1]
       \/ cast.moves > 0 /\ MoveBase /\ cast' = [cast EXCEPT !.moves = @ - 1]
    /\ \A p \in Processes \ cast.who : UNCHANGED session[p]

MCInit == Init /\ cast \in Casts

MCSpec == MCInit /\ [][MCNext]_<<vars, cast>>
=============================================================================
