------------------------------ MODULE Roadmap ------------------------------
(***************************************************************************)
(* How work gets into the Night Shift queue.  Worker processes turn items  *)
(* of the governed roadmap into tasks, one item at a time; operators       *)
(* submit tasks of their own.                                              *)
(*                                                                         *)
(*   roadmap           the roadmap_items table: status and linked task     *)
(*   tasks             the tasks table, as far as selection looks at it    *)
(*   config            the items enabled in roadmap.json; an item that     *)
(*                     is removed from the file counts as disabled         *)
(*   paused, draining  the dispatcher's flags                              *)
(*   session           what every process knows, lost when it dies         *)
(*                                                                         *)
(* Selection holds no lock: the flags, the roadmap, the tasks, the         *)
(* idempotency key and the size of the queue are read one after the other, *)
(* and the task is created and linked in two transactions.  What a task    *)
(* goes through once it is claimed is kept short, TaskQueue has it.        *)
(* BLOCKED stands for PAUSED_QUOTA too, and ACTIVE for CLAIMED, RUNNING    *)
(* and VERIFYING.  Skip reasons and audit events are left out.             *)
(***************************************************************************)
EXTENDS Naturals, FiniteSets

CONSTANTS
    Items,              \* items of the roadmap
    Builders,           \* registered builders, each with one slot
    Loops,              \* worker loops, each pinned to a builder
    Pools,              \* worker pools, which choose a builder
    Submitters,         \* operators who submit tasks by hand
    None,
    Rank,               \* items by descending priority
    DependsOn,          \* dependency_item_ids
    ReadOnly,           \* items whose template is read-only and needs no PR
    PathsMeet,          \* pairs of items with overlapping governed paths, and
    LocksMeet,          \* with a resource lock in common: {i} if i has any
    BuilderOf,          \* builder_id of an item
    Serves,             \* the builder a loop is pinned to
    Preferred,          \* position of a builder in the registry
    MaxPending,         \* max_pending_tasks
    PressureLimit,      \* merge_backpressure_limit
    MaxTasks,           \* bound: tasks that are ever created
    MaxRuns             \* bound: attempts and debug attempts of a task

Processes == Loops \cup Pools
Actors == Processes \cup Submitters
Rows == 1..MaxTasks

ASSUME RoadmapAssumptions ==
    /\ Loops \cap Pools = {}
    /\ Submitters \cap Processes = {}
    /\ IsFiniteSet(Actors)
    /\ None \notin Items \cup Builders \cup Rows \cup Actors
    /\ Rank \in [Items -> Nat]
    /\ \A i, j \in Items : Rank[i] = Rank[j] => i = j
    /\ DependsOn \in [Items -> SUBSET Items]
    /\ ReadOnly \subseteq Items
    /\ PathsMeet \cup LocksMeet \subseteq SUBSET Items
    /\ BuilderOf \in [Items -> Builders]
    /\ Serves \in [Loops -> Builders]
    /\ Preferred \in [Builders -> Nat]
    /\ \A b, c \in Builders : Preferred[b] = Preferred[c] => b = c
    /\ {MaxPending, PressureLimit, MaxTasks, MaxRuns} \subseteq Nat \ {0}

VARIABLES roadmap, tasks, config, paused, draining, session

flags == <<paused, draining>>
vars == <<roadmap, tasks, config, flags, session>>

Running == {"ACTIVE", "DELIVERY_RECONCILING"}

\* pr, recovered, merged: a pull request, a delivery recovery, a verified merge
\* is on record.
NoTask == [state |-> "ABSENT", item |-> None, worker |-> None, owner |-> None,
           runs |-> 0, pr |-> FALSE, recovered |-> FALSE, merged |-> FALSE]
NoEntry == [status |-> "ABSENT", task |-> None]

\* plan is the roadmap a process was started with; selecting tells the refresh
\* before a selection from the one after a run; todo, seen, soft, barred and
\* found are local variables of a selection; item, worker, row and outcome
\* those of what it is about to write.
Blank == [selecting |-> FALSE, todo |-> {}, seen |-> [i \in Items |-> NoEntry],
          soft |-> FALSE, barred |-> {}, found |-> {},
          item |-> None, worker |-> None, row |-> None, outcome |-> None]
Down == [at |-> "down", plan |-> {}, locals |-> Blank]

Init ==
    /\ roadmap = [i \in Items |-> NoEntry]
    /\ tasks = [r \in Rows |-> NoTask]
    /\ config \in SUBSET Items
    /\ paused = FALSE
    /\ draining = FALSE
    /\ session = [p \in Actors |-> Down]

At(p, place) == session[p].at = place
My(p) == session[p].locals
Goes(p, place, locals) ==
    session' = [session EXCEPT ![p].at = place, ![p].locals = locals]
Moves(p, place) == Goes(p, place, My(p))
\* An error nobody catches ends the process.
Dies(p) == session' = [session EXCEPT ![p] = Down]

First(S) == CHOOSE i \in S : \A j \in S : Rank[i] <= Rank[j]
Exists(r) == tasks[r].state # "ABSENT"
TasksOf(i) == {r \in Rows : tasks[r].item = i}
Linked(i) == roadmap[i].task # None
TaskState(i) == tasks[roadmap[i].task].state

-----------------------------------------------------------------------------
(* Starting and refreshing *)

\* from_config: the roadmap is read from its file ...
Start(p) ==
    /\ p \in Processes
    /\ At(p, "down")
    /\ session' = [session EXCEPT ![p].at = "syncing", ![p].plan = config]
    /\ UNCHANGED <<roadmap, tasks, config, flags>>

\* An item that has no task is retired when it is disabled, for good.
Synced(i, plan) ==
    IF roadmap[i].status = "ABSENT"
      THEN [NoEntry EXCEPT !.status = IF i \in plan THEN "PENDING" ELSE "DISABLED"]
    ELSE IF ~Linked(i) /\ i \notin plan /\ roadmap[i].status # "COMPLETED"
      THEN [roadmap[i] EXCEPT !.status = "DISABLED"]
    ELSE roadmap[i]

\* ... and written to the store: sync_roadmap.
Sync(p) ==
    /\ At(p, "syncing")
    /\ roadmap' = [i \in Items |-> Synced(i, session[p].plan)]
    /\ Moves(p, "idle")
    /\ UNCHANGED <<tasks, config, flags>>

\* reevaluate_blocked: a cycle begins with the release of what is parked and
\* not exhausted.
Begin(p) ==
    /\ p \in Processes
    /\ At(p, "idle")
    /\ \E released \in SUBSET {r \in Rows : tasks[r].state = "BLOCKED" /\ tasks[r].runs < MaxRuns} :
         /\ p \in Loops \/ released = {}
         /\ tasks' = [r \in Rows |->
              IF r \in released THEN [tasks[r] EXCEPT !.state = "READY"] ELSE tasks[r]]
    /\ Moves(p, "asking")
    /\ UNCHANGED <<roadmap, config, flags>>

\* select_next_roadmap_task asks for the flags and reads which items are linked.
Admit(p) ==
    /\ At(p, "asking")
    /\ IF paused \/ draining THEN Moves(p, "running")
       ELSE Goes(p, "refreshing",
                 [Blank EXCEPT !.todo = {i \in Items : Linked(i)}, !.selecting = TRUE])
    /\ UNCHANGED <<roadmap, tasks, config, flags>>

\* Fault: the pull request completes the item.
ReflectedEarly(state) ==
    CASE state \in {"COMPLETED", "PR_READY"} -> "COMPLETED"
      [] state \in {"CEO_REVIEW", "BLOCKED", "FAILED_SAFE"} -> "BLOCKED"
      [] state = "READY" -> "ENQUEUED"
      [] OTHER -> None

\* The status an item gets from its task; running and cancelled tasks give none.
Reflected(state) ==
    CASE state = "COMPLETED" -> "COMPLETED"
      [] state \in {"PR_READY", "CEO_REVIEW", "BLOCKED", "FAILED_SAFE"} -> "BLOCKED"
      [] state = "READY" -> "ENQUEUED"
      [] OTHER -> None

\* _refresh_roadmap reads one task ...
RefreshRead(p) ==
    /\ At(p, "refreshing")
    /\ My(p).todo # {}
    /\ LET i == First(My(p).todo)
           status == Reflected(TaskState(i))
           rest == [My(p) EXCEPT !.todo = @ \ {i}]
       IN  IF status = None THEN Goes(p, "refreshing", rest)
           ELSE Goes(p, "reflecting", [rest EXCEPT !.item = i, !.outcome = status])
    /\ UNCHANGED <<roadmap, tasks, config, flags>>

\* ... and writes its item.
RefreshWrite(p) ==
    /\ At(p, "reflecting")
    /\ roadmap' = [roadmap EXCEPT ![My(p).item].status = My(p).outcome]
    /\ Goes(p, "refreshing", [My(p) EXCEPT !.item = None, !.outcome = None])
    /\ UNCHANGED <<tasks, config, flags>>

-----------------------------------------------------------------------------
(* Selecting *)

\* roadmap_records: the snapshot the selection goes by, unless the refresh was
\* the one that follows a run.
ReadRecords(p) ==
    /\ At(p, "refreshing")
    /\ My(p).todo = {}
    /\ IF My(p).selecting
         THEN Goes(p, "listing", [Blank EXCEPT !.seen = roadmap])
         ELSE Goes(p, "idle", Blank)
    /\ UNCHANGED <<roadmap, tasks, config, flags>>

\* summarize_pull_requests: recoveries and read-only work do not count.
Substantive ==
    {r \in Rows : /\ tasks[r].pr
                  /\ tasks[r].state \notin {"COMPLETED", "CANCELLED"}
                  /\ ~tasks[r].recovered
                  /\ tasks[r].item \notin ReadOnly}

\* _roadmap_overlap_reason, for the tasks of one reading.
Barred(i) ==
    \E r \in Rows :
      \/ /\ tasks[r].pr
         /\ tasks[r].state \in {"PR_READY", "CEO_REVIEW"}
         /\ {i, tasks[r].item} \in PathsMeet
      \/ /\ tasks[r].state \in Running
         /\ {i, tasks[r].item} \in LocksMeet

Ready(i, seen) == \A d \in DependsOn[i] : seen[d].status = "COMPLETED"

\* The items the candidate loop looks at: enabled, open and the builder's own.
Considered(p) ==
    {i \in session[p].plan :
        /\ My(p).seen[i].status \notin {"ABSENT", "DISABLED", "COMPLETED"}
        /\ p \in Loops => BuilderOf[i] = Serves[p]}

\* list_tasks.  The loop over the candidates begins; an item that has no task
\* is judged by the two snapshots alone, the others are left to do.
ListTasks(p) ==
    /\ At(p, "listing")
    /\ LET seen == My(p).seen
           barred == {i \in Items : Barred(i)}
           free == {i \in Considered(p) \ barred : seen[i].task = None}
       IN  Goes(p, "scanning",
             [My(p) EXCEPT
                !.soft = Cardinality(Substantive) >= PressureLimit,
                !.barred = barred,
                !.found = {i \in free : Ready(i, seen)},
                !.todo = {i \in Considered(p) :
                            \/ seen[i].task # None
                            \/ i \in free /\ ~Ready(i, seen) /\ seen[i].status # "BLOCKED"}])
    /\ UNCHANGED <<roadmap, tasks, config, flags>>

Looking(p, i) == At(p, "scanning") /\ My(p).todo # {} /\ i = First(My(p).todo)
Passed(p, i) == [My(p) EXCEPT !.todo = @ \ {i}, !.item = None]

\* An item that has to wait is marked blocked.
Hold(p, i) ==
    /\ Looking(p, i)
    /\ My(p).seen[i].task = None
    /\ roadmap' = [roadmap EXCEPT ![i].status = "BLOCKED"]
    /\ Goes(p, "scanning", Passed(p, i))
    /\ UNCHANGED <<tasks, config, flags>>

\* An item with a task is looked at only if the task waits while the snapshot
\* shows the item blocked.
ReadLinked(p, i) ==
    /\ Looking(p, i)
    /\ My(p).seen[i].task # None
    /\ IF tasks[My(p).seen[i].task].state = "READY" /\ My(p).seen[i].status = "BLOCKED"
         THEN Goes(p, "reviving", [My(p) EXCEPT !.item = i])
         ELSE Goes(p, "scanning", Passed(p, i))
    /\ UNCHANGED <<roadmap, tasks, config, flags>>

\* The row goes back to ENQUEUED, before the item is judged like any other.
Revive(p) ==
    /\ At(p, "reviving")
    /\ LET i == My(p).item IN
       /\ roadmap' = [roadmap EXCEPT ![i].status = "ENQUEUED"]
       /\ IF i \in My(p).barred THEN Goes(p, "scanning", Passed(p, i))
          ELSE IF Ready(i, My(p).seen)
            THEN Goes(p, "scanning", [Passed(p, i) EXCEPT !.found = @ \cup {i}])
          ELSE Moves(p, "revived")
    /\ UNCHANGED <<tasks, config, flags>>

\* ... and found to wait after all.
HoldRevived(p) ==
    /\ At(p, "revived")
    /\ roadmap' = [roadmap EXCEPT ![My(p).item].status = "BLOCKED"]
    /\ Goes(p, "scanning", Passed(p, My(p).item))
    /\ UNCHANGED <<tasks, config, flags>>

\* Fault: under pressure nothing but read-only work is admitted.
HeldBack(p) == IF My(p).soft THEN My(p).found \cap ReadOnly ELSE My(p).found

\* Under pressure read-only work goes first, if there is any.
Choice(p) ==
    LET safe == My(p).found \cap ReadOnly
    IN  IF My(p).soft /\ safe # {} THEN safe ELSE My(p).found

\* _select_execution_worker: the item's own builder, then the registry's order.
FreeBuilders == {b \in Builders : \A r \in Rows :
                    tasks[r].worker = b => tasks[r].state \notin Running}
WorkerFor(p, i) ==
    IF p \in Loops THEN Serves[p]
    ELSE IF BuilderOf[i] \in FreeBuilders THEN BuilderOf[i]
    ELSE IF FreeBuilders = {} THEN None
    ELSE CHOOSE b \in FreeBuilders : \A c \in FreeBuilders : Preferred[b] <= Preferred[c]

\* The loop is through: one candidate is taken up, or none.
Choose(p) ==
    /\ At(p, "scanning")
    /\ My(p).todo = {}
    /\ IF Choice(p) = {} THEN Goes(p, "running", Blank)
       ELSE LET i == First(Choice(p)) IN
            IF WorkerFor(p, i) = None THEN Goes(p, "running", Blank)
            ELSE Goes(p, "finding", [Blank EXCEPT !.item = i, !.worker = WorkerFor(p, i)])
    /\ UNCHANGED <<roadmap, tasks, config, flags>>

-----------------------------------------------------------------------------
(* Submitting *)

\* A task found under the key is taken only if it is the same, which it is not
\* when another builder was to execute it.
Takes(p, r) ==
    IF tasks[r].worker = My(p).worker
      THEN Goes(p, "linking", [My(p) EXCEPT !.row = r, !.outcome = tasks[r].state])
      ELSE Dies(p)

\* get_by_idempotency.
Find(p) ==
    /\ At(p, "finding")
    /\ IF TasksOf(My(p).item) = {} THEN Moves(p, "counting")
       ELSE \E r \in TasksOf(My(p).item) : Takes(p, r)
    /\ UNCHANGED <<roadmap, tasks, config, flags>>

\* An operator submits a task without a key, for any builder.
Submit(o) ==
    /\ o \in Submitters
    /\ At(o, "down")
    /\ \E b \in Builders : Goes(o, "counting", [Blank EXCEPT !.worker = b])
    /\ UNCHANGED <<roadmap, tasks, config, flags>>

\* Neither reviewable work nor a recovery in progress counts.
Pending == {r \in Rows : tasks[r].state \in {"READY", "ACTIVE", "BLOCKED"}}

\* Fault: one more than the limit.
AlmostFull == Cardinality(Pending) > MaxPending

Full == Cardinality(Pending) >= MaxPending

\* count_pending; a full queue is a SafetyViolation.
Count(p) ==
    /\ At(p, "counting")
    /\ IF Full THEN Dies(p) ELSE Moves(p, "creating")
    /\ UNCHANGED <<roadmap, tasks, config, flags>>

\* Fault: idempotency_key is an ordinary column.
NeverTaken(i) == FALSE

KeyTaken(i) == i # None /\ TasksOf(i) # {}

\* create: the insert, or the row that was there first under the UNIQUE key.
\* A task the policy blocks is created BLOCKED.
Create(p) ==
    /\ At(p, "creating")
    /\ IF KeyTaken(My(p).item)
         THEN /\ \E r \in TasksOf(My(p).item) : Takes(p, r)
              /\ UNCHANGED tasks
         ELSE \E state \in {"READY", "BLOCKED"}, r \in Rows :
              /\ r - 1 = Cardinality({x \in Rows : Exists(x)})
              /\ tasks' = [tasks EXCEPT ![r] =
                   [NoTask EXCEPT !.state = state, !.item = My(p).item,
                                  !.worker = My(p).worker]]
              /\ IF p \in Submitters THEN Dies(p)
                 ELSE Goes(p, "linking", [My(p) EXCEPT !.row = r, !.outcome = state])
    /\ UNCHANGED <<roadmap, config, flags>>

\* set_roadmap_status with the task's id; a link is never taken back.
Link(p) ==
    /\ At(p, "linking")
    /\ roadmap' = [roadmap EXCEPT ![My(p).item] =
         [status |-> IF My(p).outcome = "BLOCKED" THEN "BLOCKED" ELSE "ENQUEUED",
          task |-> My(p).row]]
    /\ Goes(p, "running", [Blank EXCEPT !.worker = My(p).worker])
    /\ UNCHANGED <<tasks, config, flags>>

-----------------------------------------------------------------------------
(* Running *)

\* The builders run_once is called for.
Turns(p) ==
    IF p \in Loops THEN {Serves[p]}
    ELSE IF My(p).worker = None THEN Builders ELSE {My(p).worker}

Unlocked(r) ==
    \A x \in Rows : tasks[x].state \in Running => {tasks[r].item, tasks[x].item} \notin LocksMeet

\* A builder with a free slot and a task its locks allow.
Claimable(r) ==
    /\ tasks[r].state = "READY"
    /\ tasks[r].runs < MaxRuns
    /\ tasks[r].worker \in FreeBuilders
    /\ Unlocked(r)

\* run_once claims a task, or has nothing to do and the cycle is over.
Claim(p) ==
    /\ At(p, "running")
    /\ LET offered == {r \in Rows : Claimable(r) /\ tasks[r].worker \in Turns(p)} IN
       IF paused \/ offered = {} THEN Goes(p, "idle", Blank) /\ UNCHANGED tasks
       ELSE \E r \in offered :
              /\ tasks' = [tasks EXCEPT ![r].state = "ACTIVE", ![r].owner = p,
                                     ![r].runs = @ + 1]
              /\ Goes(p, "working", [Blank EXCEPT !.row = r])
    /\ UNCHANGED <<roadmap, config, flags>>

\* How a run may end; a recovery ends in review or is blocked.
Outcomes(r) ==
    IF tasks[r].state = "DELIVERY_RECONCILING" THEN {"PR_READY", "BLOCKED"}
    ELSE {"BLOCKED", "FAILED_SAFE"}
         \cup (IF tasks[r].runs < MaxRuns THEN {"READY"} ELSE {})
         \cup (IF tasks[r].item \in ReadOnly THEN {"COMPLETED"} ELSE {"PR_READY"})

\* The run ends, or was reaped meanwhile; either way the roadmap is refreshed.
Finish(p) ==
    /\ At(p, "working")
    /\ LET r == My(p).row IN
       IF tasks[r].owner # p THEN UNCHANGED tasks
       ELSE \E s \in Outcomes(r) :
              tasks' = [tasks EXCEPT ![r].state = s, ![r].owner = None,
                                     ![r].pr = @ \/ s = "PR_READY"]
    /\ Goes(p, "refreshing", [Blank EXCEPT !.todo = {i \in Items : Linked(i)}])
    /\ UNCHANGED <<roadmap, config, flags>>

\* The base moved during the delivery.
Drift(p) ==
    /\ At(p, "working")
    /\ tasks[My(p).row].owner = p
    /\ tasks[My(p).row].state = "ACTIVE"
    /\ tasks[My(p).row].item \notin ReadOnly
    /\ tasks' = [tasks EXCEPT ![My(p).row].state = "DELIVERY_RECONCILING",
                              ![My(p).row].recovered = TRUE]
    /\ UNCHANGED <<roadmap, config, flags, session>>

\* Fault: the owner stays in the row.
ReapInPlace(r) ==
    /\ tasks[r].state \in Running
    /\ tasks' = [tasks EXCEPT
         ![r].state = IF @ = "DELIVERY_RECONCILING" THEN "BLOCKED"
                      ELSE IF tasks[r].runs < MaxRuns THEN "READY" ELSE "FAILED_SAFE"]
    /\ UNCHANGED <<roadmap, config, flags, session>>

\* recover_expired: a lease runs out, whether its holder is gone or slow.
Reap(r) ==
    /\ tasks[r].state \in Running
    /\ tasks' = [tasks EXCEPT ![r].owner = None,
         ![r].state = IF @ = "DELIVERY_RECONCILING" THEN "BLOCKED"
                      ELSE IF tasks[r].runs < MaxRuns THEN "READY" ELSE "FAILED_SAFE"]
    /\ UNCHANGED <<roadmap, config, flags, session>>

-----------------------------------------------------------------------------
(* Operators *)

Moved(r, from, to) ==
    /\ tasks[r].state \in from
    /\ tasks' = [tasks EXCEPT ![r].state = to]
    /\ UNCHANGED <<roadmap, config, flags, session>>

Merge(r) ==
    /\ tasks[r].state \in {"PR_READY", "CEO_REVIEW"}
    /\ tasks[r].pr
    /\ tasks' = [tasks EXCEPT ![r].state = "COMPLETED", ![r].merged = TRUE]
    /\ UNCHANGED <<roadmap, config, flags, session>>

CeoReview(r) == Moved(r, {"COMPLETED", "PR_READY"}, "CEO_REVIEW")
Cancel(r) == Moved(r, {"READY", "BLOCKED"}, "CANCELLED")

\* The owners edit roadmap.json; processes read it when they start.
Edit(i) ==
    /\ config' = (config \ {i}) \cup ({i} \ config)
    /\ UNCHANGED <<roadmap, tasks, flags, session>>

SetPaused ==
    /\ paused' = ~paused
    /\ UNCHANGED <<roadmap, tasks, config, draining, session>>

SetDraining ==
    /\ draining' = ~draining
    /\ UNCHANGED <<roadmap, tasks, config, paused, session>>

Crash(p) ==
    /\ ~At(p, "down")
    /\ Dies(p)
    /\ UNCHANGED <<roadmap, tasks, config, flags>>

-----------------------------------------------------------------------------

Select(p) ==
    \/ Begin(p) \/ Admit(p) \/ RefreshRead(p) \/ RefreshWrite(p) \/ ReadRecords(p)
    \/ ListTasks(p) \/ Revive(p) \/ HoldRevived(p) \/ Choose(p)
    \/ \E i \in Items : Hold(p, i) \/ ReadLinked(p, i)

Step(p) ==
    \/ Start(p) \/ Sync(p) \/ Select(p)
    \/ Find(p) \/ Count(p) \/ Create(p) \/ Link(p)
    \/ Claim(p) \/ Finish(p)

Review == \E r \in Rows : Merge(r) \/ CeoReview(r) \/ Cancel(r)

Next ==
    \/ \E p \in Actors : Step(p) \/ Crash(p)
    \/ \E p \in Processes : Drift(p)
    \/ \E o \in Submitters : Submit(o)
    \/ \E r \in Rows : Reap(r)
    \/ Review
    \/ \E i \in Items : Edit(i)
    \/ SetPaused \/ SetDraining

Spec == Init /\ [][Next]_vars

\* A process goes on, and launchd starts a worker loop again when it is gone.
Fairness == \A p \in Actors : WF_vars(Step(p))

FairSpec == Spec /\ Fairness
=============================================================================
