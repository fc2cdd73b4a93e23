------------------------ MODULE TaskQueueProperties ------------------------
(***************************************************************************)
(* What the Night Shift queue promises.                                    *)
(***************************************************************************)
EXTENDS TaskQueue

Sessions ==
    [phase : Phases, task : Tasks \cup {None}, gen : Nat]

\* The rows are rows; a session past the poll has a task.
TypeOK ==
    /\ task \in [Tasks -> Row]
    /\ paused \in BOOLEAN
    /\ session \in [Actors -> Sessions]
    /\ procs \in [Tasks -> SUBSET Nat]
    /\ \A a \in Actors : session[a].phase \notin {"idle", "polling"} => session[a].task \in Tasks
    /\ \A o \in Operators : session[o].phase \in {"idle", "reconciling"} \cup CommandPhases
    /\ \A w \in Workers : session[w].phase \notin CommandPhases

-----------------------------------------------------------------------------
(* Leases and fencing *)

\* Worker w's session holds, or once held, a lease on task t.
Holds(w, t) == session[w].phase \in LeasedPhases /\ session[w].task = t

\* A row has an owner only while it is running work, and running work whose
\* worker has not entered reconciliation always has one.
LeaseConsistent ==
    \A t \in Tasks :
        /\ task[t].owner # None => task[t].state \in Active
        /\ task[t].state \in {"CLAIMED", "RUNNING", "VERIFYING"} => task[t].owner # None

\* A task that was not submitted was never leased.
UnsubmittedUnleased ==
    \A t \in Tasks : task[t].state = "ABSENT" => task[t].gen = 0

\* No session remembers a generation the row has not reached.
GenerationsReached ==
    \A w \in Workers, t \in Tasks : Holds(w, t) => session[w].gen <= task[t].gen

\* Two processes never remember the same lease, whatever crashes and reclaims
\* happened: two processes of one builder sign with the same owner name, so the
\* generation alone tells them apart.
DistinctGenerations ==
    \A v, w \in Workers, t \in Tasks :
        v # w /\ Holds(v, t) /\ Holds(w, t) => session[v].gen # session[w].gen

\* While a session's generation is current and the row is leased, the row is in
\* the state that session put it in and carries its builder's name.
CurrentSessionOwns ==
    \A w \in Workers, t \in Tasks :
        /\ Holds(w, t)
        /\ session[w].gen = task[t].gen
        /\ task[t].owner # None
        => /\ task[t].owner = WorkerBuilder[w]
           /\ task[t].state = StateIn(session[w].phase)

\* The inductive invariant behind the three properties that follow.
LeaseInvariant ==
    /\ LeaseConsistent
    /\ UnsubmittedUnleased
    /\ GenerationsReached
    /\ DistinctGenerations
    /\ CurrentSessionOwns

\* At most one process passes the fence of a task: _assert_active_lease lets
\* nobody but the last claimant mutate the row.
SingleWriter ==
    \A t \in Tasks, v, w \in Workers :
        Holds(v, t) /\ Holds(w, t) /\ Fenced(v, Active) /\ Fenced(w, Active) => v = w

\* If any row changes it is that of t, which has no owner and enters or is in a
\* recovery.
OnlyRecovers(t) ==
    \A u \in Tasks : task'[u] # task[u] =>
        /\ u = t
        /\ task[u].owner = None
        /\ "DELIVERY_RECONCILING" \in {task[u].state, task'[u].state}

\* A process that lost its lease touches no row that is leased, and of the others
\* only the row of its own task, which it may take into a recovery or through one.
StaleTouchesNoLease ==
    \A w \in Workers :
        /\ session[w].phase \in LeasedPhases
        /\ ~Fenced(w, Active)
        /\ session'[w] # session[w]
        => OnlyRecovers(session[w].task)

\* Once a lease ran out nothing but the reaper changes the row, and the reaper
\* moves the fence.
OnlyReaperEnds(t) ==
    Expired(task[t]) =>
        \/ task'[t] = task[t]
        \/ task'[t].owner = None /\ task'[t].gen > task[t].gen
        \/ task'[t] = [task[t] EXCEPT !.wait = task'[t].wait]

\* A lease that was lost, or that ran out and was not reaped yet, admits no late
\* heartbeat, report or evidence, and none of them can revive it; all that is left
\* to its process is the recovery of a delivery nobody holds a lease on.
LostLeaseIsDead ==
    [][StaleTouchesNoLease /\ \A t \in Tasks : OnlyReaperEnds(t)]_vars

\* The lease columns of the table and the sessions of the workers, seen as a
\* lease service; the content is every other column but the clocks.
Service ==
    INSTANCE LeaseService WITH
        Items <- Tasks, Clients <- Workers, Names <- Builders,
        NameOf <- WorkerBuilder, Nobody <- None,
        holder <- [t \in Tasks |-> task[t].owner],
        generation <- [t \in Tasks |-> task[t].gen],
        content <- [t \in Tasks |-> [task[t] EXCEPT !.owner = None, !.gen = 0,
                                                   !.ttl = 0, !.wait = 0]],
        claims <- [w \in Workers |->
                     IF session[w].phase \in LeasedPhases
                       THEN [item |-> session[w].task, gen |-> session[w].gen]
                       ELSE [item |-> None, gen |-> 0]]

\* The queue implements a fenced lease service: whatever process takes a step,
\* a leased row is changed only by a process that remembers its generation, or
\* by its expiry.
ImplementsLeaseService == Service!ServiceSpec

-----------------------------------------------------------------------------
(* Scheduling *)

\* Work that a worker claimed and whose lease did not end.
Leased == {t \in Tasks : task[t].owner # None}

\* Leased tasks never name a common resource, whatever recoveries without a lease
\* start beside them.
LocksExclusive ==
    \A t, u \in Leased : t # u => Locks[t] \cap Locks[u] = {}

\* The leased tasks of a builder are never more than its max_concurrency, whatever
\* recoveries without a lease start beside them.
ConcurrencyBounded ==
    \A b \in Builders :
        Cardinality({t \in Leased : BuilderOf[t] = b}) <= MaxConcurrency[b]

\* Running work rests on finished dependencies, and on merged ones where the
\* dependency changes code.
DependenciesDelivered ==
    \A t \in Tasks : task[t].state \in Active \cup {"PR_READY", "COMPLETED"} =>
        \A d \in Deps[t] :
            /\ task[d].state \in {"COMPLETED", "CEO_REVIEW"}
            /\ d \in RequiresPr => "merged" \in task[d].evidence

\* A builder's most urgent claimable task is the one it claims.
ClaimsMostUrgent ==
    [][\A t, u \in Tasks :
          /\ task[t].state \notin Active /\ task'[t].state = "CLAIMED"
          /\ BuilderOf[u] = BuilderOf[t] /\ Rank[u] < Rank[t]
          /\ task[u].state = "READY" /\ task[u].wait = 0
          /\ Satisfied(u, task)
          => \E v \in Tasks : task[v].state \in Active /\ Locks[u] \cap Locks[v] # {}]_vars

-----------------------------------------------------------------------------
(* Attempts and verdicts *)

\* Releases from debug parking add attempts beyond max_attempts, but never as
\* many as the debug budget, quota refunds and crashes included; and no task is
\* dead-lettered for exhaustion before its last attempt.
AttemptsAccounted ==
    \A t \in Tasks :
        /\ task[t].attempts <= MaxAttempts[t]
                                + (IF DebugBudget[t] > 0 THEN DebugBudget[t] - 1 ELSE 0)
        /\ task[t].failure = "exhausted" => task[t].attempts >= MaxAttempts[t]

\* Failed and cancelled work stays so, unless it failed in delivery.
VerdictsFinal ==
    [][\A t \in Tasks :
          \/ task[t].state = "CANCELLED"
          \/ task[t].state = "FAILED_SAFE" /\ task[t].failure # "delivery"
          => task'[t].state = task[t].state]_vars

\* Work that entered delivery reconciliation is not executed again: it costs no
\* further attempt and never returns to the queue.
ReconciliationNeverReruns ==
    [][\A t \in Tasks : task[t].recon > 0 =>
          /\ task'[t].attempts = task[t].attempts
          /\ task'[t].state \notin {"READY", "CLAIMED", "RUNNING", "VERIFYING"}]_vars

\* A code-changing task is presented for review only with a commit, a passing
\* verification, a push and a pull request, whichever path brought it there;
\* it is complete only when that pull request is merged.
ReviewableIsDelivered ==
    \A t \in RequiresPr :
        /\ task[t].state \in {"PR_READY", "CEO_REVIEW"} => Deliverable \subseteq task[t].evidence
        /\ task[t].state = "COMPLETED" => Deliverable \cup {"merged"} \subseteq task[t].evidence

-----------------------------------------------------------------------------
(* Liveness *)

\* A recovery without a lease whose process died: the reaper does not see it.
Orphaned(t) ==
    /\ task[t].state = "DELIVERY_RECONCILING"
    /\ task[t].owner = None
    /\ \A a \in Actors : session[a].task = t => session[a].phase # "reconciling"

\* No task runs for ever: it is completed, parked, failed or requeued, unless a
\* recovery without a lease is orphaned.
RunsEndOrOrphaned ==
    \A t \in Tasks :
        task[t].state \in Active ~> task[t].state \notin Active \/ Orphaned(t)

\* Work parked for a dependency is released when the dependency completes.
DependentsReleased ==
    \A t \in Tasks :
        /\ task[t].state = "BLOCKED" /\ task[t].error = "dependency"
        /\ Satisfied(t, task)
        ~> task[t].state # "BLOCKED" \/ ~Satisfied(t, task)

\* Nothing in the queue starves: a ready task is claimed, or leaves the queue,
\* however the tasks before it in the order fail, retry and time out.
ReadyWorkStarts ==
    \A t \in Tasks : task[t].state = "READY" ~> task[t].state # "READY" \/ paused

\* A quota pause ends once claims are possible at all.
QuotaPausesEnd ==
    \A t \in Tasks :
        task[t].state = "PAUSED_QUOTA" ~> task[t].state # "PAUSED_QUOTA" \/ paused

\* A pause that lasts quiesces the queue: a process that looked at the switch
\* before may still claim once, but in the end no process is in run_once and no
\* task runs, orphaned recoveries excepted.
PauseQuiesces ==
    <>[]paused =>
        <>[](/\ \A w \in Workers : session[w].phase = "idle"
             /\ \A t \in Tasks : task[t].state \in Active => Orphaned(t))

-----------------------------------------------------------------------------
(* Sentences of the documentation the code does not live up to *)

\* "Enter the bounded, durable base-drift recovery state."
\* (src/nightshift/store_lifecycle.py:440): no task runs for ever, a recovery
\* whose process died included.
RunsEnd ==
    \A t \in Tasks : task[t].state \in Active ~> task[t].state \notin Active

\* "A late completion from a stale owner is rejected"
\* (docs/night_shift_dispatcher_v1.md:146): said of every worker step, the
\* ones of a reconciliation included.
LateCompletionRejected ==
    [][\A w \in Workers, t \in Tasks :
          /\ Holds(w, t)
          /\ session[w].gen # task[t].gen
          /\ session'[w] # session[w]
          => UNCHANGED task]_vars

\* "Conservatively prevent reclaiming a worktree held by a live PID."
\* (src/nightshift/store_execution.py:889): a task waits, or is claimed anew,
\* only when no child process of an earlier attempt still works in its worktree.
NoReclaimBesideLiveProcess ==
    \A t \in Tasks : task[t].state \in {"READY", "CLAIMED"} => procs[t] = {}

=============================================================================
