------------------------------ MODULE TaskRow ------------------------------
(***************************************************************************)
(* One row of the Night Shift `tasks` table, and what each store           *)
(* transaction does to it (src/nightshift/store*.py).  An operator here    *)
(* maps the row read inside the transaction to the row it commits; the     *)
(* guards and the identity of the caller are the business of TaskQueue.    *)
(*                                                                         *)
(* Timestamps are countdowns: `ttl` is the time left before                *)
(* lease_expires_at and `wait` the time left before available_at, so that  *)
(* `lease_expires_at <= now` reads ttl = 0 and `available_at <= now` reads *)
(* wait = 0.                                                               *)
(***************************************************************************)
EXTENDS Integers, FiniteSets

CONSTANTS
    Tasks,          \* task ids
    Builders,       \* registered builders; a worker process signs with its builder's id
    None,           \* SQL NULL
    RequiresPr,     \* the code-changing tasks (requires_pr = 1)
    MaxAttempts,    \* max_attempts of every task
    DebugBudget,    \* debug_budget of every task, 0 when it has none
    RepeatLimit,    \* repeated_failure_limit of every task
    Signatures,     \* the failure signatures workers can report
    TimeoutSignatures, \* those of them that _is_timeout recognises
    LeaseTerm,      \* lease_seconds
    RetryDelay,     \* _retry_delay
    QuotaDelay,     \* next_quota_eligible_at
    ParkDelay       \* the 60 s floor of a debug parking

ASSUME RowAssumption ==
    /\ None \notin Builders
    /\ RequiresPr \subseteq Tasks
    /\ MaxAttempts \in [Tasks -> 1..10]
    /\ DebugBudget \in [Tasks -> 0..10]
    /\ RepeatLimit \in [Tasks -> 1..10]
    /\ None \notin Signatures
    /\ TimeoutSignatures \subseteq Signatures
    /\ LeaseTerm \in Nat \ {0}
    /\ RetryDelay \in Nat
    /\ QuotaDelay \in Nat \ {0}
    /\ ParkDelay \in Nat \ {0}

\* The first three states are the queue, ABSENT is a task nobody submitted yet.
States == { "ABSENT", "BACKLOG", "READY", "WAITING_DEPENDENCY", "PAUSED_QUOTA",
            "CLAIMED", "RUNNING", "VERIFYING", "DELIVERY_RECONCILING",
            "PR_READY", "CEO_REVIEW", "BLOCKED", "FAILED_SAFE", "COMPLETED",
            "CANCELLED" }

\* The states the store counts as running work.
Active == {"CLAIMED", "RUNNING", "VERIFYING", "DELIVERY_RECONCILING"}

\* What delivery leaves in the row: worktree_path, commit_sha, a passing
\* verification_json, remote_sha, the PR identity, merge_verification.
Evidence == {"worktree", "commit", "verified", "remote", "pr", "merged"}
Deliverable == {"commit", "verified", "remote", "pr"}

\* failure_class, to the precision the code branches on; "delivery" is every
\* class with the DELIVERY prefix.
Failures == {"none", "delivery", "debug_budget", "exhausted", "quota", "other"}

\* last_error, to the precision release_eligible_blocked and unblock match on.
Errors == {"none", "dependency", "debug", "policy", "other"}

MaxReconciliations == 2

Row == [ state    : States,
         attempts : Nat,
         gen      : Nat,                      \* lease_generation
         owner    : Builders \cup {None},     \* lease_owner
         ttl      : Nat,
         wait     : Nat,
         pid      : Nat,                      \* process_id: the generation that spawned it, 0 for NULL
         evidence : SUBSET Evidence,
         failure  : Failures,
         error    : Errors,
         debug    : Nat,                      \* debug_attempt_count
         sig      : Signatures \cup {None},   \* last_failure_signature
         repeats  : Nat,                      \* failure_repeat_count
         recon    : 0..MaxReconciliations,    \* reconciliation_json.attempts
         source   : States ]                  \* reconciliation_json.source_state

NewRow(s, e) ==
    [ state |-> s, attempts |-> 0, gen |-> 0, owner |-> None, ttl |-> 0,
      wait |-> 0, pid |-> 0, evidence |-> {}, failure |-> "none", error |-> e,
      debug |-> 0, sig |-> None, repeats |-> 0, recon |-> 0, source |-> "ABSENT" ]

-----------------------------------------------------------------------------
(* Leases.  An operator whose comment begins with "Fault" is no part of the *)
(* model: it is a mistake the properties are tested against.              *)

\* Fault: owner and state identify the holder, the generation is not compared.
LeaseHeldByName(r, b, g, S) == r.state \in S /\ r.owner = b /\ r.ttl > 0

\* Fault: the expiry is left to the reaper.
LeaseHeldUntilReaped(r, b, g, S) == r.state \in S /\ r.owner = b /\ r.gen = g

\* _assert_active_lease: the fence every worker mutation passes.
LeaseHeld(r, b, g, S) ==
    /\ r.state \in S
    /\ r.owner = b
    /\ r.gen = g
    /\ r.ttl > 0

\* Fault: the reaper does not know DELIVERY_RECONCILING.
ExpiredExecution(r) ==
    r.state \in Active \ {"DELIVERY_RECONCILING"} /\ r.owner # None /\ r.ttl = 0

Expired(r) == r.state \in Active /\ r.owner # None /\ r.ttl = 0

\* Fault: the owner stays in the row.
OnlyProcessCleared(r) == [r EXCEPT !.pid = 0]

\* The assignment shared by everything that ends a lease.
Unleased(r) == [r EXCEPT !.owner = None, !.ttl = 0, !.pid = 0]

\* Fault: the claim hands out a generation it does not store.
ClaimedSameGeneration(r, b) ==
    [r EXCEPT !.state = "CLAIMED", !.attempts = @ + 1, !.owner = b, !.ttl = LeaseTerm]

Claimed(r, b) ==
    [r EXCEPT !.state = "CLAIMED", !.attempts = @ + 1, !.gen = @ + 1,
              !.owner = b, !.ttl = LeaseTerm, !.pid = 0,
              !.error = "none", !.failure = "none"]

\* Fault: the last attempt is never granted.
ReapedTooEarly(t, r, processAlive) ==
    IF r.attempts + 1 < MaxAttempts[t]
      THEN [Unleased(r) EXCEPT !.gen = @ + 1, !.state = "READY"]
      ELSE [Unleased(r) EXCEPT !.gen = @ + 1, !.state = "FAILED_SAFE", !.failure = "exhausted"]

\* Fault: an expired reconciliation is requeued like any other work.
ReapedIntoQueue(t, r, processAlive) ==
    IF r.attempts < MaxAttempts[t]
      THEN [Unleased(r) EXCEPT !.gen = @ + 1, !.state = "READY", !.failure = "other"]
      ELSE [Unleased(r) EXCEPT !.gen = @ + 1, !.state = "FAILED_SAFE", !.failure = "exhausted"]

\* recover_expired, for a row whose lease ran out.
Reaped(t, r, processAlive) ==
    LET fenced == [Unleased(r) EXCEPT !.gen = @ + 1, !.error = "other"]
    IN  IF r.state = "DELIVERY_RECONCILING"
          THEN [fenced EXCEPT !.state = "BLOCKED", !.failure = "delivery"]
        ELSE IF processAlive
          THEN [fenced EXCEPT !.state = "FAILED_SAFE", !.failure = "other"]
        ELSE IF r.attempts < MaxAttempts[t]
          THEN [fenced EXCEPT !.state = "READY", !.wait = 0, !.failure = "other"]
        ELSE [fenced EXCEPT !.state = "FAILED_SAFE", !.failure = "exhausted"]

\* _resume_due_quota, for a row whose pause elapsed.
Resumed(r) ==
    [Unleased(r) EXCEPT !.state = "READY", !.wait = 0, !.error = "other",
                        !.failure = "none"]

-----------------------------------------------------------------------------
(* StoreExecutionMixin.complete, one operator per kind of worker report *)

\* _delivery_recovery finds delivery evidence worth preserving.
Recoverable(r) ==
    /\ "verified" \in r.evidence
    /\ {"commit", "remote"} \subseteq r.evidence \/ "pr" \in r.evidence

CompletedSuccess(t, r) ==
    [Unleased(r) EXCEPT !.state = IF t \in RequiresPr THEN "PR_READY" ELSE "COMPLETED",
                        !.error = "none", !.failure = "none"]

\* A quota pause gives the attempt back, unless the delivery was complete.
CompletedQuota(r) ==
    IF Deliverable \subseteq r.evidence
      THEN [Unleased(r) EXCEPT !.state = "PR_READY", !.error = "none",
                               !.failure = "quota"]
      ELSE [Unleased(r) EXCEPT !.state = "PAUSED_QUOTA", !.wait = QuotaDelay,
                               !.attempts = IF @ > 0 THEN @ - 1 ELSE 0,
                               !.error = "other", !.failure = "quota"]

\* A failure that is neither retried nor parked.
Failed(t, r, f) ==
    [Unleased(r) EXCEPT !.state = "FAILED_SAFE", !.failure = f, !.error = "other",
                        !.debug = IF DebugBudget[t] > 0 THEN @ + 1 ELSE @]

\* The report of a DeliveryError (delivery_status = blocked).
CompletedUndelivered(t, r) ==
    IF Recoverable(r)
      THEN [Unleased(r) EXCEPT !.state = "BLOCKED", !.failure = "delivery",
                               !.error = "other"]
      ELSE Failed(t, r, "delivery")

CompletedRetryable(t, r, s) ==
    LET repeats  == IF r.sig = s THEN r.repeats + 1 ELSE 1
        debug    == r.debug + 1
        park     == /\ DebugBudget[t] > 0
                    /\ debug >= DebugBudget[t] \/ repeats >= RepeatLimit[t]
        counted  == [Unleased(r) EXCEPT !.debug = debug, !.sig = s,
                                        !.repeats = repeats, !.failure = "other",
                                        !.error = "other"]
    IN  IF s \in TimeoutSignatures /\ r.sig = s
          THEN [counted EXCEPT !.state = "FAILED_SAFE"]
        ELSE IF r.attempts < MaxAttempts[t] /\ ~park
          THEN [counted EXCEPT !.state = "READY", !.wait = RetryDelay]
        ELSE IF park
          THEN [counted EXCEPT !.state = "BLOCKED", !.error = "debug",
                               !.wait = IF RetryDelay > ParkDelay
                                          THEN RetryDelay ELSE ParkDelay,
                               !.failure = IF debug >= DebugBudget[t]
                                             THEN "debug_budget" ELSE @]
        ELSE Failed(t, r, "exhausted")

-----------------------------------------------------------------------------
(* StoreLifecycleMixin: delivery *)

Recorded(r, e) == [r EXCEPT !.evidence = @ \cup {e}]

\* block_delivery, f is "delivery" or, for a failed verification, "other".
DeliveryStopped(r, f) ==
    [Unleased(r) EXCEPT !.state = IF "pr" \in r.evidence THEN "PR_READY" ELSE "BLOCKED",
                        !.failure = f, !.error = "other"]

\* start_delivery_reconciliation; the lease columns are not assigned.
Reconciling(r) ==
    [r EXCEPT !.state = "DELIVERY_RECONCILING", !.recon = @ + 1,
              !.source = r.state, !.error = "other"]

\* Fault: success is recorded without passing verification.
RecoveredUnverified(r) ==
    [Unleased(r) EXCEPT !.state = "PR_READY",
                        !.evidence = @ \cup (Deliverable \ {"verified"})]

\* finish_delivery_reconciliation with success ...
Recovered(r) ==
    [Unleased(r) EXCEPT !.state = "PR_READY", !.evidence = @ \cup Deliverable,
                        !.error = "none", !.failure = "none"]

\* ... and without.
Unrecovered(r) ==
    [Unleased(r) EXCEPT !.state = IF r.source = "FAILED_SAFE" THEN "FAILED_SAFE"
                                  ELSE "BLOCKED",
                        !.error = "other", !.failure = "delivery"]

\* reconcile_delivery: the PR GitHub reports takes the place of the recorded
\* evidence, the verification included.
Adopted(r) ==
    [Unleased(r) EXCEPT !.state = "PR_READY",
                        !.evidence = (@ \ {"verified"}) \cup {"commit", "remote", "pr"},
                        !.error = "other", !.failure = "delivery"]

\* mark_merge_verified.
Merged(r) ==
    [r EXCEPT !.state = "COMPLETED", !.evidence = @ \cup {"merged"},
              !.error = "none", !.failure = "none"]

\* release_eligible_blocked, for a row it selects.
Released(r) == [r EXCEPT !.state = "READY", !.wait = 0, !.error = "none"]

\* Fault: one release too many.
BudgetOverspent(t, r) == DebugBudget[t] > 0 /\ DebugBudget[t] < r.debug

\* A debug budget that is used up keeps the row parked.
BudgetSpent(t, r) ==
    \/ r.failure = "debug_budget"
    \/ DebugBudget[t] > 0 /\ DebugBudget[t] <= r.debug

=============================================================================
