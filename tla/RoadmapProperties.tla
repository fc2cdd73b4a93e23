------------------------- MODULE RoadmapProperties -------------------------
(***************************************************************************)
(* What admission to the queue promises.                                   *)
(***************************************************************************)
EXTENDS Roadmap

Places == {"down", "syncing", "idle", "asking", "refreshing", "reflecting",
           "listing", "scanning", "reviving", "revived", "finding", "counting",
           "creating", "linking", "running", "working"}
Statuses == {"PENDING", "ENQUEUED", "BLOCKED", "COMPLETED", "DISABLED"}
States == {"READY", "ACTIVE", "DELIVERY_RECONCILING", "PR_READY", "CEO_REVIEW",
           "BLOCKED", "FAILED_SAFE", "COMPLETED", "CANCELLED"}
Entries == [status : Statuses \cup {"ABSENT"}, task : Rows \cup {None}]

\* Every variable keeps its type, a running task has the process that claimed it
\* and nobody else has one, and no task appears out of order.
TypeOK ==
    /\ roadmap \in [Items -> Entries]
    /\ \A r \in Rows :
         /\ tasks[r].state \in States \cup {"ABSENT"}
         /\ tasks[r].item \in Items \cup {None}
         /\ tasks[r].worker \in Builders \cup {None}
         /\ tasks[r].state \in Running <=> tasks[r].owner \in Processes
         /\ tasks[r].state \in Running \/ tasks[r].owner = None
         /\ Exists(r) => \A x \in 1..r : Exists(x)
    /\ config \subseteq Items
    /\ {paused, draining} \subseteq BOOLEAN
    /\ \A p \in Actors : session[p].at \in Places /\ session[p].plan \subseteq Items

\* However many processes materialise an item at once, and wherever they die,
\* it has one task, and an item that is linked is linked to its own task.
OneTaskPerItem ==
    \A i \in Items :
        /\ Cardinality(TasksOf(i)) <= 1
        /\ Linked(i) => roadmap[i].task \in TasksOf(i)

\* Tasks of the roadmap carry no dependencies of their own, so the order of the
\* items is kept by selection alone, from rows that others write: an item has a
\* task only after everything it depends on was merged, or completed without a
\* pull request (which the CEO may still look at).
ItemsInOrder ==
    \A i \in Items : TasksOf(i) # {} =>
        \A d \in DependsOn[i] : \E r \in TasksOf(d) :
            \/ tasks[r].state = "COMPLETED"
            \/ tasks[r].state = "CEO_REVIEW" /\ (tasks[r].merged \/ d \in ReadOnly)

\* The capacity is looked up before the insert, so submissions that meet may
\* exceed it, but each of n submitters by one task only.  Tasks that come back
\* from a recovery, during which they are not counted, are on top of that.
QueueBoundedBy(n) ==
    Cardinality({r \in Pending : ~tasks[r].recovered}) <= MaxPending + n - 1

\* Selection can take the item up: a loop that was started with it enabled
\* serves it, neither it nor an item it depends on was retired, what it depends
\* on is completed, no open pull request or running task overlaps it, and the
\* queue has room.
Eligible(i) ==
    /\ i \in config
    /\ \E p \in Loops : Serves[p] = BuilderOf[i] /\ (At(p, "down") \/ i \in session[p].plan)
    /\ \A d \in DependsOn[i] \cup {i} : roadmap[d].status # "DISABLED"
    /\ \A d \in DependsOn[i] : \E r \in TasksOf(d) : tasks[r].state = "COMPLETED"
    /\ ~Barred(i)
    /\ ~Full
    /\ ~paused /\ ~draining

\* Everything on the roadmap was asked of the builder it was planned for.
AsPlanned == \A r \in Rows : tasks[r].item # None => tasks[r].worker = BuilderOf[tasks[r].item]

\* An item that stays eligible is materialised and linked in the end, whatever
\* crashes, and however many pull requests are open: back-pressure is soft.
ItemsMaterialise ==
    \A i \in Items : <>[](Eligible(i) /\ AsPlanned) => <>Linked(i)
=============================================================================
