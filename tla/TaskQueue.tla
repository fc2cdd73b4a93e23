----------------------------- MODULE TaskQueue -----------------------------
(***************************************************************************)
(* The durable Night Shift queue and the processes that work on it.        *)
(*                                                                         *)
(* Every store operation is one BEGIN IMMEDIATE transaction, hence one     *)
(* action.  Worker processes run DispatcherExecutionMixin.run_once: their  *)
(* position in it and the (task, lease generation) they remember are the   *)
(* session.  Anything may happen between two transactions of a session:    *)
(* the lease may run out, the reaper may fence it, another process may     *)
(* claim the task, the worker may die and leave its child process behind.  *)
(***************************************************************************)
EXTENDS TaskRow

CONSTANTS
    Workers,        \* worker-loop processes
    Operators,      \* command-line invocations by people
    Resources,      \* what resource_locks name
    BuilderOf,      \* builder_id of every task
    WorkerBuilder,  \* the builder a worker process runs for
    MaxConcurrency, \* max_concurrency of every builder
    Deps,           \* dependency_ids of every task
    Locks,          \* resource_locks of every task
    Rank,           \* position in ORDER BY priority DESC, created_at, task_id
    NeedsApproval,  \* tasks submitted into BACKLOG
    PolicyBlocked,  \* tasks the policy submits into BLOCKED
    Commands,       \* the operator commands the instance exercises
    MaxGeneration   \* bound: no quota exhaustion is reported from this generation on

Actors == Workers \cup Operators

ASSUME QueueAssumption ==
    /\ Workers \cap Operators = {}
    /\ None \notin Tasks
    /\ BuilderOf \in [Tasks -> Builders]
    /\ WorkerBuilder \in [Workers -> Builders]
    /\ MaxConcurrency \in [Builders -> 1..8]
    /\ Deps \in [Tasks -> SUBSET Tasks]
    /\ Locks \in [Tasks -> SUBSET Resources]
    /\ Rank \in [Tasks -> Nat]
    /\ \A t, u \in Tasks : Rank[t] = Rank[u] => t = u
    /\ NeedsApproval \subseteq Tasks
    /\ PolicyBlocked \subseteq Tasks
    /\ MaxGeneration \in Nat

VARIABLES
    task,     \* the tasks table
    paused,   \* dispatcher_meta.paused
    session,  \* where each process is, and the lease it believes it holds
    procs     \* generations of each task whose executor child process is alive

vars == <<task, paused, session, procs>>

Phases == { "idle", "polling", "claimed", "running", "spawned", "executing",
            "verifying", "drifting", "reconciling", "preserved", "unblocking",
            "adoptingBlocked", "adoptingFailed" }

\* Between the read and the write of an operator's command.
CommandPhases == {"preserved", "unblocking", "adoptingBlocked", "adoptingFailed"}

\* The phases in which a worker holds, or once held, a lease.
LeasedPhases == {"claimed", "running", "spawned", "executing", "verifying",
                 "drifting", "reconciling"}

\* The state the row has while its worker is in a phase.
StateIn(phase) ==
    CASE phase = "claimed" -> "CLAIMED"
      [] phase \in {"running", "spawned", "executing"} -> "RUNNING"
      [] phase \in {"verifying", "drifting"} -> "VERIFYING"
      [] phase = "reconciling" -> "DELIVERY_RECONCILING"
      [] OTHER -> "ABSENT"

Idle == [phase |-> "idle", task |-> None, gen |-> 0]

Init ==
    /\ task = [t \in Tasks |-> NewRow("ABSENT", "none")]
    /\ paused = FALSE
    /\ session = [a \in Actors |-> Idle]
    /\ procs = [t \in Tasks |-> {}]

-----------------------------------------------------------------------------
(* Vocabulary of the actions *)

At(a, phase) == session[a].phase = phase

Row0(a) == task[session[a].task]

\* The fence for worker w, whose row must be in one of the states S.
Fenced(w, S) == LeaseHeld(Row0(w), WorkerBuilder[w], session[w].gen, S)

Write(t, row) == task' = [task EXCEPT ![t] = row]

Goto(a, phase) == session' = [session EXCEPT ![a].phase = phase]

Leave(a) == session' = [session EXCEPT ![a] = Idle]

\* A transaction that ends worker w's lease and its run_once.
Finish(w, row) ==
    /\ Write(session[w].task, row)
    /\ Leave(w)
    /\ UNCHANGED <<paused, procs>>

\* A transaction of worker w that leaves it in its run_once.
Proceed(w, row, phase) ==
    /\ Write(session[w].task, row)
    /\ Goto(w, phase)
    /\ UNCHANGED <<paused, procs>>

\* Fault: an open pull request satisfies a dependency.
SatisfiedByReview(t, rows) ==
    \A d \in Deps[t] : rows[d].state \in {"COMPLETED", "PR_READY"}

Satisfied(t, rows) == \A d \in Deps[t] : rows[d].state = "COMPLETED"

-----------------------------------------------------------------------------
(* Admission and operator commands on waiting work *)

\* dispatcher.submit: dependencies exist; policy and approval choose the state.
Submit(t) ==
    /\ task[t].state = "ABSENT"
    /\ \A d \in Deps[t] : task[d].state # "ABSENT"
    /\ Write(t, IF t \in PolicyBlocked THEN NewRow("BLOCKED", "policy")
                ELSE IF t \in NeedsApproval THEN NewRow("BACKLOG", "none")
                ELSE NewRow("READY", "none"))
    /\ UNCHANGED <<paused, session, procs>>

Approve(t) ==
    /\ task[t].state = "BACKLOG"
    /\ Write(t, [task[t] EXCEPT !.state = "READY"])
    /\ UNCHANGED <<paused, session, procs>>

Reject(t) ==
    /\ task[t].state = "BACKLOG"
    /\ Write(t, [task[t] EXCEPT !.state = "FAILED_SAFE", !.error = "other"])
    /\ UNCHANGED <<paused, session, procs>>

\* Fault: leased work is cancelled under its worker.
CancelLeased(t) ==
    /\ "cancel" \in Commands
    /\ task[t].state \in {"BACKLOG", "READY", "WAITING_DEPENDENCY", "PAUSED_QUOTA",
                          "BLOCKED", "CLAIMED", "RUNNING"}
    /\ Write(t, [task[t] EXCEPT !.state = "CANCELLED", !.error = "other"])
    /\ UNCHANGED <<paused, session, procs>>

\* cancel: leased work is refused, and the transition compares the state again.
Cancel(t) ==
    /\ "cancel" \in Commands
    /\ task[t].state \in {"BACKLOG", "READY", "WAITING_DEPENDENCY", "PAUSED_QUOTA",
                          "BLOCKED", "CLAIMED", "RUNNING"}
    /\ task[t].state \in Active => task[t].owner = None
    /\ Write(t, [task[t] EXCEPT !.state = "CANCELLED", !.error = "other"])
    /\ UNCHANGED <<paused, session, procs>>

\* dispatcher.unblock reads the whole record first ...
UnblockRead(o, t) ==
    /\ "unblock" \in Commands
    /\ At(o, "idle")
    /\ task[t].state = "BLOCKED"
    /\ task[t].error = "dependency"
    /\ Satisfied(t, task)
    /\ session' = [session EXCEPT ![o] = [phase |-> "unblocking", task |-> t, gen |-> 0]]
    /\ UNCHANGED <<task, paused, procs>>

\* ... and the transition compares nothing but the state.
Unblock(o) ==
    /\ At(o, "unblocking")
    /\ task' = IF Row0(o).state = "BLOCKED"
                 THEN [task EXCEPT ![session[o].task].state = "READY"]
                 ELSE task
    /\ Leave(o)
    /\ UNCHANGED <<paused, procs>>

SetPaused ==
    /\ "pause" \in Commands
    /\ paused' = ~paused
    /\ UNCHANGED <<task, session, procs>>

-----------------------------------------------------------------------------
(* claim_next *)

\* Fault: the pause switch is not consulted.
PollWhilePaused(w) ==
    /\ At(w, "idle")
    /\ Goto(w, "polling")
    /\ UNCHANGED <<task, paused, procs>>

\* The dispatcher looks at the pause switch before it opens the transaction.
Poll(w) ==
    /\ At(w, "idle")
    /\ ~paused
    /\ Goto(w, "polling")
    /\ UNCHANGED <<task, paused, procs>>

\* Fault: a row whose only attempt was refunded is overlooked.
QuotaResumedIfAttempted ==
    [t \in Tasks |-> IF task[t].state = "PAUSED_QUOTA" /\ task[t].wait = 0
                          /\ task[t].attempts > 0
                       THEN Resumed(task[t]) ELSE task[t]]

\* _resume_due_quota runs first, and is committed even when nothing is claimed.
QuotaResumed ==
    [t \in Tasks |-> IF task[t].state = "PAUSED_QUOTA" /\ task[t].wait = 0
                       THEN Resumed(task[t]) ELSE task[t]]

\* Fault: an off-by-one on the builder's capacity.
AboveCapacity(b, rows) ==
    Cardinality({t \in Tasks : BuilderOf[t] = b /\ rows[t].state \in Active})
        > MaxConcurrency[b]

\* Fault: parked work keeps its slot.
AtCapacityWithParked(b, rows) ==
    Cardinality({t \in Tasks : /\ BuilderOf[t] = b
                               /\ rows[t].state \in Active \cup {"BLOCKED"}})
        >= MaxConcurrency[b]

AtCapacity(b, rows) ==
    Cardinality({t \in Tasks : BuilderOf[t] = b /\ rows[t].state \in Active})
        >= MaxConcurrency[b]

\* Fault: locks are released when the delivery starts.
ScannedBesideDelivery(b, rows) ==
    {t \in Tasks :
        /\ BuilderOf[t] = b
        /\ rows[t].state \in {"READY", "WAITING_DEPENDENCY"}
        /\ rows[t].wait = 0
        /\ \A u \in Tasks :
             rows[u].state \in {"CLAIMED", "RUNNING"} => Locks[t] \cap Locks[u] = {}}

\* The rows the scan looks at, those a running task's locks make it skip excepted.
Scanned(b, rows) ==
    {t \in Tasks :
        /\ BuilderOf[t] = b
        /\ rows[t].state \in {"READY", "WAITING_DEPENDENCY"}
        /\ rows[t].wait = 0
        /\ \A u \in Tasks : rows[u].state \in Active => Locks[t] \cap Locks[u] = {}}

\* Fault: the order of the scan is reversed.
ChosenLast(b, rows) ==
    {t \in Scanned(b, rows) :
        /\ Satisfied(t, rows)
        /\ \A u \in Scanned(b, rows) : Rank[u] > Rank[t] => ~Satisfied(u, rows)}

\* The scan stops at the first row whose dependencies are all complete.
Chosen(b, rows) ==
    {t \in Scanned(b, rows) :
        /\ Satisfied(t, rows)
        /\ \A u \in Scanned(b, rows) : Rank[u] < Rank[t] => ~Satisfied(u, rows)}

\* The rows it passes on the way.
Passed(b, rows) ==
    {t \in Scanned(b, rows) : \A u \in Chosen(b, rows) : Rank[t] < Rank[u]}

\* Those with a failed dependency are blocked; a row blocked earlier in the
\* same scan counts as a failed dependency of the rows after it.
DependencyFailed(t, rows, blocked) ==
    \E d \in Deps[t] :
        \/ rows[d].state \in {"FAILED_SAFE", "CANCELLED", "BLOCKED"}
        \/ d \in blocked /\ Rank[d] < Rank[t]

AfterScan(w, rows, blocked) ==
    [t \in Tasks |->
        IF t \in Chosen(WorkerBuilder[w], rows)
          THEN Claimed(rows[t], WorkerBuilder[w])
        ELSE IF t \in blocked
          THEN [rows[t] EXCEPT !.state = "BLOCKED", !.error = "dependency"]
        ELSE IF t \in Passed(WorkerBuilder[w], rows)
          THEN [rows[t] EXCEPT !.state = "WAITING_DEPENDENCY"]
        ELSE rows[t]]

ClaimNothing(w) ==
    /\ At(w, "polling")
    /\ AtCapacity(WorkerBuilder[w], QuotaResumed)
    /\ task' = QuotaResumed
    /\ Leave(w)
    /\ UNCHANGED <<paused, procs>>

ClaimNext(w) ==
    LET b == WorkerBuilder[w]
    IN  /\ At(w, "polling")
        /\ ~AtCapacity(b, QuotaResumed)
        /\ \E blocked \in SUBSET Passed(b, QuotaResumed) :
             /\ blocked = {t \in Passed(b, QuotaResumed) :
                             DependencyFailed(t, QuotaResumed, blocked)}
             /\ task' = AfterScan(w, QuotaResumed, blocked)
        /\ \/ /\ Chosen(b, QuotaResumed) = {}
              /\ Leave(w)
           \/ \E t \in Chosen(b, QuotaResumed) :
                session' = [session EXCEPT ![w] = [phase |-> "claimed", task |-> t,
                                                   gen |-> task[t].gen + 1]]
        /\ UNCHANGED <<paused, procs>>

-----------------------------------------------------------------------------
(* run_once: preparation and execution *)

\* A worktree already recorded by an earlier attempt is reused.
AssignWorktree(w) ==
    /\ At(w, "claimed")
    /\ Fenced(w, {"CLAIMED"})
    /\ "worktree" \notin Row0(w).evidence
    /\ Proceed(w, Recorded(Row0(w), "worktree"), "claimed")

AllocationFails(w) ==
    /\ At(w, "claimed")
    /\ Fenced(w, {"CLAIMED"})
    /\ "worktree" \notin Row0(w).evidence
    /\ Finish(w, Failed(session[w].task, Row0(w), "other"))

StartRunning(w) ==
    /\ At(w, "claimed")
    /\ Fenced(w, {"CLAIMED"})
    /\ "worktree" \in Row0(w).evidence
    /\ Proceed(w, [Row0(w) EXCEPT !.state = "RUNNING"], "running")

\* Popen: the child is in a session of its own and survives its parent.
Spawn(w) ==
    /\ At(w, "running")
    /\ Goto(w, "spawned")
    /\ procs' = [procs EXCEPT ![session[w].task] = @ \cup {session[w].gen}]
    /\ UNCHANGED <<task, paused>>

RecordProcess(w) ==
    /\ At(w, "spawned")
    /\ Fenced(w, Active)
    /\ Proceed(w, [Row0(w) EXCEPT !.pid = session[w].gen], "executing")

ProcessExits(t, g) ==
    /\ g \in procs[t]
    /\ procs' = [procs EXCEPT ![t] = @ \ {g}]
    /\ UNCHANGED <<task, paused, session>>

\* Once before the child starts, then the executor's keep-alive thread, then
\* the delivery watchdog; reconciliation has none.
Heartbeat(w) ==
    /\ session[w].phase \in {"running", "executing", "verifying", "drifting"}
    /\ Fenced(w, Active)
    /\ Proceed(w, [Row0(w) EXCEPT !.ttl = LeaseTerm], session[w].phase)

\* The executor returned: its child has exited.
Returned(w) ==
    /\ At(w, "executing")
    /\ session[w].gen \notin procs[session[w].task]

BeginVerifying(w) ==
    /\ Returned(w)
    /\ Fenced(w, {"RUNNING"})
    /\ Proceed(w, [Row0(w) EXCEPT !.state = "VERIFYING"], "verifying")

ReportQuota(w) ==
    /\ Returned(w)
    /\ Fenced(w, Active)
    /\ session[w].gen < MaxGeneration
    /\ Finish(w, CompletedQuota(Row0(w)))

\* A retryable failure, of the executor or of any step of the delivery.
ReportRetryable(w, s) ==
    /\ Returned(w) \/ session[w].phase \in {"running", "verifying"}
    /\ Fenced(w, Active)
    /\ Finish(w, CompletedRetryable(session[w].task, Row0(w), s))

\* An unsafe one: scope violation, safety violation, executor unavailable.
ReportUnsafe(w) ==
    /\ Returned(w) \/ session[w].phase \in {"running", "verifying"}
    /\ Fenced(w, Active)
    /\ Finish(w, Failed(session[w].task, Row0(w), "other"))

-----------------------------------------------------------------------------
(* run_once: delivery *)

\* DeliveryPipeline.deliver records its evidence in this order.
Prerequisites(t, e) ==
    CASE e = "commit"   -> {}
      [] e = "verified" -> IF t \in RequiresPr THEN {"commit"} ELSE {}
      [] e = "remote"   -> {"commit", "verified"}
      [] OTHER          -> {"commit", "verified", "remote"}

Required(t) == IF t \in RequiresPr THEN Deliverable ELSE {"verified"}

RecordEvidence(w, e) ==
    /\ At(w, "verifying")
    /\ Fenced(w, {"VERIFYING"})
    /\ e \in Required(session[w].task) \ Row0(w).evidence
    /\ Prerequisites(session[w].task, e) \subseteq Row0(w).evidence
    /\ Proceed(w, Recorded(Row0(w), e), "verifying")

\* Fault: the final report is not fenced.
DeliverUnfenced(w) ==
    /\ At(w, "verifying")
    /\ Required(session[w].task) \subseteq Row0(w).evidence
    /\ Finish(w, CompletedSuccess(session[w].task, Row0(w)))

Deliver(w) ==
    /\ At(w, "verifying")
    /\ Fenced(w, Active)
    /\ Required(session[w].task) \subseteq Row0(w).evidence
    /\ Finish(w, CompletedSuccess(session[w].task, Row0(w)))

\* DeliveryBlocked: gh is not authenticated when the PR is looked up.
BlockDelivery(w) ==
    /\ At(w, "verifying")
    /\ Fenced(w, {"VERIFYING"})
    /\ session[w].task \in RequiresPr
    /\ {"commit", "verified", "remote"} \subseteq Row0(w).evidence
    /\ Finish(w, DeliveryStopped(Row0(w), "delivery"))

\* A DeliveryError that mentions verification.
VerificationFails(w) ==
    /\ At(w, "verifying")
    /\ Fenced(w, {"VERIFYING"})
    /\ Finish(w, DeliveryStopped(Row0(w), "other"))

\* Any other DeliveryError.
DeliveryFails(w) ==
    /\ At(w, "verifying")
    /\ Fenced(w, Active)
    /\ Finish(w, CompletedUndelivered(session[w].task, Row0(w)))

\* The push is recorded and the lease guard passed; the remote base, read after
\* it, turns out to have moved (DeliveryBaseDrift).  Nothing is written yet.
BaseDrifts(w) ==
    /\ At(w, "verifying")
    /\ Fenced(w, {"VERIFYING"})
    /\ session[w].task \in RequiresPr
    /\ {"commit", "verified", "remote"} \subseteq Row0(w).evidence
    /\ Goto(w, "drifting")
    /\ UNCHANGED <<task, paused, procs>>

-----------------------------------------------------------------------------
(* Reconciliation of a delivery whose base drifted, by a worker or an operator *)

\* reconcile_preserved_delivery reads the record ...
ReadPreserved(o, t) ==
    /\ "reconcile" \in Commands
    /\ At(o, "idle")
    /\ task[t].state \in {"BLOCKED", "FAILED_SAFE"}
    /\ task[t].failure = "delivery"
    /\ session' = [session EXCEPT ![o] = [phase |-> "preserved", task |-> t, gen |-> 0]]
    /\ UNCHANGED <<task, paused, procs>>

\* The row start_delivery_reconciliation accepts: a VERIFYING one from the holder
\* of its lease; a parked or failed one, which has no owner, from anybody.
MayStart(a) ==
    /\ Row0(a).recon < MaxReconciliations
    /\ \/ /\ Row0(a).state = "VERIFYING"
          /\ a \in Workers
          /\ Fenced(a, {"VERIFYING"})
       \/ /\ Row0(a).owner = None
          /\ \/ Row0(a).state = "BLOCKED"
             \/ Row0(a).state = "FAILED_SAFE" /\ Row0(a).failure = "delivery"

\* A worker whose base drifted, or an operator, starts a recovery on the row as it
\* is now.  No lease is taken, and one that is under way is joined as it is.
StartReconciliation(a) ==
    /\ session[a].phase \in {"drifting", "preserved"}
    /\ \/ MayStart(a) /\ Proceed(a, Reconciling(Row0(a)), "reconciling")
       \/ /\ Row0(a).state = "DELIVERY_RECONCILING"
          /\ Goto(a, "reconciling")
          /\ UNCHANGED <<task, paused, procs>>
       \/ /\ ~MayStart(a) /\ Row0(a).state # "DELIVERY_RECONCILING"
          /\ Leave(a)
          /\ UNCHANGED <<task, paused, procs>>

\* The fence of update/retry/finish_delivery_reconciliation: it is consulted
\* only while the row has an owner.  An operator has no generation to show.
MayReconcile(a) ==
    /\ Row0(a).state = "DELIVERY_RECONCILING"
    /\ \/ Row0(a).owner = None
       \/ a \in Workers /\ Fenced(a, {"DELIVERY_RECONCILING"})

ReconciliationSucceeds(a) ==
    /\ At(a, "reconciling")
    /\ MayReconcile(a)
    /\ "commit" \in Row0(a).evidence
    /\ Finish(a, Recovered(Row0(a)))

ReconciliationFails(a) ==
    /\ At(a, "reconciling")
    /\ MayReconcile(a)
    /\ Finish(a, Unrecovered(Row0(a)))

\* Fault: the base may move any number of times.
ReconciliationRetriesUnbounded(a) ==
    /\ At(a, "reconciling")
    /\ MayReconcile(a)
    /\ Proceed(a, [Row0(a) EXCEPT !.recon = @ + 1], "reconciling")

\* The base moved again: one more attempt, if there is one left.
ReconciliationRetries(a) ==
    /\ At(a, "reconciling")
    /\ MayReconcile(a)
    /\ Row0(a).recon < MaxReconciliations
    /\ Proceed(a, [Row0(a) EXCEPT !.recon = @ + 1], "reconciling")

\* The state reconcile_delivery read.
StateRead(phase) == IF phase = "adoptingBlocked" THEN "BLOCKED" ELSE "FAILED_SAFE"

\* Fault: any failure can be reconciled as a delivery.
ReadAnyFailure(o, t) ==
    /\ "reconcileDelivery" \in Commands
    /\ At(o, "idle")
    /\ t \in RequiresPr
    /\ \E phase \in {"adoptingBlocked", "adoptingFailed"} :
         /\ task[t].state = StateRead(phase)
         /\ session' = [session EXCEPT ![o] = [phase |-> phase, task |-> t, gen |-> 0]]
    /\ UNCHANGED <<task, paused, procs>>

\* reconcile_delivery: a person points at a PR that GitHub confirms.  The record
\* is checked before the transaction ...
ReadDelivery(o, t) ==
    /\ "reconcileDelivery" \in Commands
    /\ At(o, "idle")
    /\ t \in RequiresPr
    /\ task[t].failure = "delivery"
    /\ \E phase \in {"adoptingBlocked", "adoptingFailed"} :
         /\ task[t].state = StateRead(phase)
         /\ session' = [session EXCEPT ![o] = [phase |-> phase, task |-> t, gen |-> 0]]
    /\ UNCHANGED <<task, paused, procs>>

\* ... which compares the state, and nothing else, again.
ReconcileDelivery(o) ==
    /\ session[o].phase \in {"adoptingBlocked", "adoptingFailed"}
    /\ task' = IF Row0(o).state = StateRead(session[o].phase)
                 THEN [task EXCEPT ![session[o].task] = Adopted(@)]
                 ELSE task
    /\ Leave(o)
    /\ UNCHANGED <<paused, procs>>

\* mark_ceo_review.
CeoReview(t) ==
    /\ "ceo" \in Commands
    /\ task[t].state \in {"COMPLETED", "PR_READY"}
    /\ Write(t, [task[t] EXCEPT !.state = "CEO_REVIEW"])
    /\ UNCHANGED <<paused, session, procs>>

\* reconcile_merged: GitHub reports the recorded PR, head and base as merged.
ReconcileMerged(t) ==
    /\ task[t].state \in {"PR_READY", "CEO_REVIEW"}
    /\ t \in RequiresPr
    /\ {"commit", "remote", "pr"} \subseteq task[t].evidence
    /\ Write(t, Merged(task[t]))
    /\ UNCHANGED <<paused, session, procs>>

-----------------------------------------------------------------------------
(* Fencing, crashes, the reaper, time *)

\* A process finds out, at its next transaction, that it lost the row; a worker
\* terminates its own child before it gives up.  What a drifted base leads to is
\* for StartReconciliation to decide.
LostLease(a) ==
    \/ a \in Workers /\ session[a].phase \in LeasedPhases \ {"drifting", "reconciling"}
         /\ ~Fenced(a, {StateIn(session[a].phase)})
    \/ At(a, "reconciling") /\ ~MayReconcile(a)

GiveUp(a) ==
    /\ LostLease(a)
    /\ Leave(a)
    /\ procs' = [procs EXCEPT ![session[a].task] = @ \ {session[a].gen}]
    /\ UNCHANGED <<task, paused>>

\* The process dies, or an error its handlers do not expect ends it.
Crash(a) ==
    /\ session[a].phase \in LeasedPhases
    /\ Leave(a)
    /\ UNCHANGED <<task, paused, procs>>

Reap ==
    /\ \E t \in Tasks : Expired(task[t])
    /\ task' = [t \in Tasks |->
                  IF Expired(task[t])
                    THEN Reaped(t, task[t], task[t].pid \in procs[t])
                    ELSE task[t]]
    /\ UNCHANGED <<paused, session, procs>>

\* Fault: only debug parking is reconsidered.
ReleasableFromDebug(t) ==
    /\ task[t].state = "BLOCKED"
    /\ task[t].wait = 0
    /\ task[t].error = "debug"
    /\ Satisfied(t, task)
    /\ ~BudgetSpent(t, task[t])

Releasable(t) ==
    /\ task[t].state = "BLOCKED"
    /\ task[t].wait = 0
    /\ task[t].error \in {"dependency", "debug"}
    /\ Satisfied(t, task)
    /\ ~BudgetSpent(t, task[t])

\* release_eligible_blocked.
Release ==
    /\ \E t \in Tasks : Releasable(t)
    /\ task' = [t \in Tasks |-> IF Releasable(t) THEN Released(task[t]) ELSE task[t]]
    /\ UNCHANGED <<paused, session, procs>>

\* Time passes for every row at once.
Tick ==
    /\ \E t \in Tasks : task[t].ttl + task[t].wait > 0
    /\ task' = [t \in Tasks |->
                  [task[t] EXCEPT !.ttl  = IF @ > 0 THEN @ - 1 ELSE 0,
                                  !.wait = IF @ > 0 THEN @ - 1 ELSE 0]]
    /\ UNCHANGED <<paused, session, procs>>

-----------------------------------------------------------------------------

\* What moves run_once on, whatever the outcome.
Progress(w) ==
    \/ Poll(w) \/ ClaimNothing(w) \/ ClaimNext(w)
    \/ AssignWorktree(w) \/ AllocationFails(w) \/ StartRunning(w)
    \/ Spawn(w) \/ RecordProcess(w)
    \/ BeginVerifying(w) \/ ReportQuota(w) \/ ReportUnsafe(w)
    \/ \E s \in Signatures : ReportRetryable(w, s)
    \/ \E e \in Evidence : RecordEvidence(w, e)
    \/ Deliver(w) \/ BlockDelivery(w) \/ VerificationFails(w) \/ DeliveryFails(w)
    \/ BaseDrifts(w)

Reconcile(a) ==
    \/ StartReconciliation(a)
    \/ ReconciliationSucceeds(a)
    \/ ReconciliationFails(a)
    \/ ReconciliationRetries(a)

Command(t) ==
    \/ Submit(t) \/ Approve(t) \/ Reject(t) \/ Cancel(t)
    \/ CeoReview(t) \/ ReconcileMerged(t)

Operate(o) ==
    \/ \E t \in Tasks : UnblockRead(o, t) \/ ReadPreserved(o, t) \/ ReadDelivery(o, t)
    \/ Unblock(o)
    \/ ReconcileDelivery(o)

\* A worker process goes on: its own step, its reconciliation, or giving up.
Continue(a) ==
    \/ a \in Workers /\ Progress(a)
    \/ Reconcile(a)
    \/ GiveUp(a)

\* The child of a session that waits for it; its run time is bounded.
ChildReturns(w) ==
    /\ At(w, "executing")
    /\ ProcessExits(session[w].task, session[w].gen)

Next ==
    \/ \E w \in Workers : Progress(w) \/ Heartbeat(w)
    \/ \E a \in Actors : Reconcile(a) \/ GiveUp(a) \/ Crash(a)
    \/ \E o \in Operators : Operate(o)
    \/ \E t \in Tasks : Command(t)
    \/ \E t \in Tasks : \E g \in procs[t] : ProcessExits(t, g)
    \/ SetPaused
    \/ Reap
    \/ Release
    \/ Tick

Spec == Init /\ [][Next]_vars

\* Time passes, every worker loop goes round (each round reaps and releases
\* before it claims), and the executor kills a child that exceeds its timeout.
\* Nobody has to submit, approve, merge, pause or crash.
FairSpec ==
    /\ Spec
    /\ WF_vars(Tick) /\ WF_vars(Reap) /\ WF_vars(Release)
    /\ \A a \in Actors : WF_vars(Continue(a))
    /\ \A w \in Workers : WF_vars(ChildReturns(w))

=============================================================================
