----------------------------- MODULE MCRoadmap -----------------------------
(***************************************************************************)
(* Instances of the roadmap for TLC.  A behaviour is played by one of a    *)
(* few casts: the processes that take part, the items on the roadmap, how  *)
(* often somebody crashes or is reaped, how often the owners edit the      *)
(* roadmap or turn a flag, and how many tasks operators submit.            *)
(***************************************************************************)
EXTENDS RoadmapProperties

CONSTANTS i1, i2, i3, b1, b2, p1, p2, q1, o1

\* i1 and i3 change code, i2 is read-only work on what i1 delivers.
Priority == [i \in Items |-> CASE i = i1 -> 1 [] i = i2 -> 2 [] OTHER -> 3]
SecondAfterFirst == [i \in Items |-> IF i = i2 THEN {i1} ELSE {}]
FirstBuilder == [i \in Items |-> b1]
FirstLoop == [p \in Loops |-> b1]
Registered == [b \in Builders |-> IF b = b1 THEN 1 ELSE 2]

VARIABLE cast

Casts ==
    {[who |-> {p1, p2}, items |-> {i1}, faults |-> 1, edits |-> 0, asks |-> 0, calls |-> {"merge"}],
     [who |-> {p1, p2}, items |-> {i1, i2}, faults |-> 0, edits |-> 0, asks |-> 0, calls |-> {"merge"}],
     [who |-> {p1, q1}, items |-> {i1, i3}, faults |-> 0, edits |-> 0, asks |-> 0, calls |-> {}],
     [who |-> {p1}, items |-> {i1, i2, i3}, faults |-> 0, edits |-> 0, asks |-> 0, calls |-> {"merge", "ceo", "drift"}],
     [who |-> {p1}, items |-> {i1, i2}, faults |-> 1, edits |-> 2, asks |-> 0, calls |-> {"merge"}],
     [who |-> {p1, o1}, items |-> {i1}, faults |-> 0, edits |-> 0, asks |-> 2, calls |-> {"cancel"}]}

Struck == (\E p \in Actors : Crash(p)) \/ (\E r \in Rows : Reap(r))
Edited == (\E i \in cast.items : Edit(i)) \/ SetPaused \/ SetDraining
Unstruck ==
    \/ \E p \in Actors : Step(p)
    \/ "drift" \in cast.calls /\ \E p \in Processes : Drift(p)
    \/ \E r \in Rows :
         \/ "merge" \in cast.calls /\ Merge(r)
         \/ "ceo" \in cast.calls /\ CeoReview(r)
         \/ "cancel" \in cast.calls /\ Cancel(r)

MCNext ==
    /\ \/ Unstruck /\ UNCHANGED cast
       \/ cast.faults > 0 /\ Struck /\ cast' = [cast EXCEPT !.faults = @ - 1]
       \/ cast.edits > 0 /\ Edited /\ cast' = [cast EXCEPT !.edits = @ - 1]
       \/ /\ cast.asks > 0
          /\ \E o \in Submitters : Submit(o)
          /\ cast' = [cast EXCEPT !.asks = @ - 1]
    /\ \A p \in Actors \ cast.who : UNCHANGED session[p]

\* QueueBoundedBy, for those who take part: a full queue is exceeded by at most
\* one task for each submission that raced another.
QueueBounded == QueueBoundedBy(Cardinality(cast.who))

MCInit == Init /\ cast \in Casts /\ config = cast.items

MCFairness == \A p \in Actors : WF_<<vars, cast>>(p \in cast.who /\ Step(p) /\ UNCHANGED cast)

MCSpec == MCInit /\ [][MCNext]_<<vars, cast>> /\ MCFairness
=============================================================================
