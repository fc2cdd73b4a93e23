---------------------------- MODULE MCTaskQueue ----------------------------
(***************************************************************************)
(* Instances of the queue for TLC.  Every task has the same attempt        *)
(* budget and no delay but the lease is longer than one tick; the cfg      *)
(* files say which tasks depend on which and who works on them.            *)
(***************************************************************************)
EXTENDS TaskQueueProperties

CONSTANTS
    t1, t2, t3,
    b1,
    w1, w2, w3,
    o1, o2

\* Every worker is a process of the same builder: they share an owner name.
OneBuilder == [t \in Tasks |-> b1]
SameBuilder == [w \in Workers |-> b1]

OneSlot == [b \in Builders |-> 1]

\* t2 depends on t1, t3 on nothing.
Independent == [t \in Tasks |-> {}]
SecondAfterFirst == [t \in Tasks |-> IF t = t2 THEN {t1} ELSE {}]

\* No task names a resource.
Free == [t \in Tasks |-> {}]

\* The scan meets t2 before t1, and t3 last.
Order == [t \in Tasks |-> CASE t = t2 -> 1 [] t = t1 -> 2 [] OTHER -> 3]

OneEach == [t \in Tasks |-> 1]
TwoEach == [t \in Tasks |-> 2]
NoneEach == [t \in Tasks |-> 0]

=============================================================================
