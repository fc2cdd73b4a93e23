-------------------------- MODULE MCTaskQueueTeams --------------------------
(***************************************************************************)
(* Instances of the queue for what holds between tasks.  A behaviour is    *)
(* played by one of a few casts: a worker and two operators at a           *)
(* code-changing task and its dependent, with every command; the processes *)
(* of two builders left to themselves with up to three tasks, two of which *)
(* - one of either builder - name the same resource; or a code-changing    *)
(* task beside one that competes with it, for the slot or for the          *)
(* resource, with an operator who may start its recovery meanwhile.        *)
(***************************************************************************)
EXTENDS TaskQueueProperties

CONSTANTS
    t1, t2, t3, t4, t5, t6,
    b1, b2, b3,
    w1, w2, w3, w4,
    o1, o2,
    r1

\* t1, t2 and t6 are b1's; t3 and t5 are b2's, t4 is b3's.
Teams == [t \in Tasks |-> CASE t \in {t1, t2, t6} -> b1 [] t = t4 -> b3 [] OTHER -> b2]
Members == [w \in Workers |-> CASE w = w1 -> b1 [] w = w4 -> b3 [] OTHER -> b2]
OneSlot == [b \in Builders |-> 1]

\* t2 depends on t1 and is scanned before it; t1, t3 and t4 name r1.
SecondAfterFirst == [t \in Tasks |-> IF t = t2 THEN {t1} ELSE {}]
SharedByTwo == [t \in Tasks |-> IF t \in {t1, t3, t4} THEN {r1} ELSE {}]
Order == [t \in Tasks |-> CASE t = t2 -> 1 [] t = t1 -> 2 [] t = t4 -> 3 [] t = t3 -> 4
                              [] t = t5 -> 5 [] OTHER -> 6]

\* t2 is parked for debugging and comes back, t1 runs out of its budget at once,
\* the others have none.
OneEach == [t \in Tasks |-> 1]
Debugged == [t \in Tasks |-> CASE t = t1 -> 1 [] t = t2 -> 2 [] OTHER -> 0]

VARIABLE cast

Casts ==
    {[who |-> {w1, o1, o2}, tasks |-> {t1, t2}, commands |-> "all"],
     [who |-> {w2, w4}, tasks |-> {t3, t4, t5}, commands |-> "none"],
     [who |-> {w2, w3, w4}, tasks |-> {t3, t4}, commands |-> "none"],
     [who |-> {w2, w3}, tasks |-> {t3, t5}, commands |-> "none"],
     [who |-> {w1, o1}, tasks |-> {t1, t6}, commands |-> "recovery"],
     [who |-> {w1, w4, o1}, tasks |-> {t1, t4}, commands |-> "recovery"]}

Recovering == \E o \in cast.who \cap Operators, t \in cast.tasks : ReadPreserved(o, t)

Commanded ==
    \/ \E t \in cast.tasks :
         Approve(t) \/ Reject(t) \/ Cancel(t) \/ CeoReview(t) \/ ReconcileMerged(t)
    \/ \E o \in Operators : Operate(o)

Unattended ==
    \/ \E w \in cast.who \cap Workers : Progress(w) \/ Heartbeat(w)
    \/ \E a \in cast.who : Reconcile(a) \/ GiveUp(a) \/ Crash(a)
    \/ \E t \in cast.tasks : Submit(t)
    \/ \E t \in cast.tasks : \E g \in procs[t] : ProcessExits(t, g)
    \/ Reap
    \/ Release
    \/ Tick

MCInit == Init /\ cast \in Casts

MCNext ==
    /\ \/ Unattended
       \/ cast.commands = "all" /\ Commanded
       \/ cast.commands = "recovery" /\ (Recovering \/ \E t \in cast.tasks : Approve(t))
    /\ UNCHANGED cast

MCSpec == MCInit /\ [][MCNext]_<<vars, cast>>
=============================================================================
