--------------------------- MODULE TaskLifeProofs ---------------------------
(***************************************************************************)
(* Theorems about the life of a task: what it rests on, how often it runs, *)
(* what ends it.                                                           *)
(*                                                                         *)
(* The first part says, in the columns that matter for that, what each     *)
(* step may do to each row: the relation Moves.  The properties then are   *)
(* proved from Moves, row by row, each with the invariant it needs.        *)
(***************************************************************************)
EXTENDS LeaseServiceProofs, FiniteSetTheorems

QueueStates == {"BACKLOG", "READY", "WAITING_DEPENDENCY", "PAUSED_QUOTA"}
ExecutionStates == {"CLAIMED", "RUNNING", "VERIFYING"}

-----------------------------------------------------------------------------
(* What a step may do to a row: r before, s after *)

Remains(r, s) ==
    /\ s.attempts = r.attempts
    /\ s.debug = r.debug
    /\ s.gen = r.gen
    /\ s.evidence = r.evidence
    /\ s.recon = r.recon

\* Nothing that matters; time and heartbeats among it.
Rests(r, s) ==
    /\ s.state = r.state
    /\ s.failure = r.failure
    /\ s.error = r.error
    /\ Remains(r, s)

Submits(r, s) ==
    /\ r.state = "ABSENT"
    /\ s.state \in {"BACKLOG", "READY", "BLOCKED"}
    /\ s.error \in {"none", "policy"}
    /\ s.failure = "none"
    /\ s.attempts = 0
    /\ s.gen = r.gen
    /\ s.evidence = {}
    /\ s.recon = 0

\* Approval, the end of a quota pause, the scan of the claim.
Queues(r, s) ==
    /\ r.state \in QueueStates
    /\ \/ s.state \in QueueStates
       \/ s.state = "BLOCKED" /\ s.error = "dependency"
    /\ s.failure \in {r.failure, "none"}
    /\ Remains(r, s)

\* Rejection and cancellation.
Drops(r, s) ==
    /\ \/ r.state = "BACKLOG" /\ s.state = "FAILED_SAFE"
       \/ r.state \in QueueStates \cup {"BLOCKED"} /\ s.state = "CANCELLED"
    /\ s.failure = r.failure
    /\ Remains(r, s)

\* The claim is the scan's choice, made when its dependencies were complete.
Claims(t, r, s) ==
    /\ \E w \in Workers : ClaimNext(w) /\ t \in Chosen(WorkerBuilder[w], QuotaResumed)
    /\ r.state \in QueueStates
    /\ Satisfied(t, task)
    /\ s.state = "CLAIMED"
    /\ s.failure = "none"
    /\ s.attempts = r.attempts + 1
    /\ s.gen = r.gen + 1
    /\ s.debug = r.debug
    /\ s.evidence = r.evidence
    /\ s.recon = r.recon

Unblocks(t, r, s) ==
    /\ \E o \in Operators : Unblock(o) /\ session[o].task = t
    /\ r.state = "BLOCKED"
    /\ s.state = "READY"
    /\ s.failure = r.failure
    /\ Remains(r, s)

Releases(t, r, s) ==
    /\ r.state = "BLOCKED"
    /\ r.error \in {"dependency", "debug"}
    /\ DebugBudget[t] > 0 => r.debug < DebugBudget[t]
    /\ s.state = "READY"
    /\ s.failure = r.failure
    /\ Remains(r, s)

\* Preparation, execution, one more piece of evidence.
Works(r, s) ==
    /\ r.state \in ExecutionStates
    /\ s.state \in ExecutionStates
    /\ s.failure = r.failure
    /\ s.attempts = r.attempts
    /\ s.debug = r.debug
    /\ s.gen = r.gen
    /\ s.recon = r.recon
    /\ \/ s.evidence = r.evidence
       \/ \E e \in Evidence :
            /\ s.evidence = r.evidence \cup {e}
            /\ e = "pr" => {"commit", "verified", "remote"} \subseteq r.evidence

Succeeds(t, r, s) ==
    /\ r.state \in ExecutionStates
    /\ Required(t) \subseteq r.evidence
    /\ s.state = IF t \in RequiresPr THEN "PR_READY" ELSE "COMPLETED"
    /\ s.failure = "none"
    /\ Remains(r, s)

\* A quota report: the attempt is given back unless the delivery was complete.
Pauses(r, s) ==
    /\ r.state \in ExecutionStates
    /\ s.failure = "quota"
    /\ s.debug = r.debug
    /\ s.gen = r.gen
    /\ s.evidence = r.evidence
    /\ s.recon = r.recon
    /\ \/ s.state = "PAUSED_QUOTA" /\ s.attempts = IF r.attempts > 0 THEN r.attempts - 1 ELSE 0
       \/ s.state = "PR_READY" /\ Deliverable \subseteq r.evidence /\ s.attempts = r.attempts

\* A retryable failure, or the reaper, requeues.
Retries(t, r, s) ==
    /\ r.state \in ExecutionStates
    /\ r.attempts < MaxAttempts[t]
    /\ s.state = "READY"
    /\ s.failure = "other"
    /\ s.attempts = r.attempts
    /\ s.debug \in {r.debug, r.debug + 1}
    /\ s.gen >= r.gen
    /\ s.evidence = r.evidence
    /\ s.recon = r.recon

Parks(t, r, s) ==
    /\ r.state \in ExecutionStates
    /\ DebugBudget[t] > 0
    /\ s.state = "BLOCKED"
    /\ s.error = "debug"
    /\ s.failure \in {"other", "debug_budget"}
    /\ s.attempts = r.attempts
    /\ s.debug = r.debug + 1
    /\ s.gen = r.gen
    /\ s.evidence = r.evidence
    /\ s.recon = r.recon

Fails(t, r, s) ==
    /\ r.state \in ExecutionStates
    /\ s.state = "FAILED_SAFE"
    /\ s.failure = "exhausted" => r.attempts >= MaxAttempts[t]
    /\ s.attempts = r.attempts
    /\ s.gen >= r.gen
    /\ s.evidence = r.evidence
    /\ s.recon = r.recon

\* A DeliveryError that leaves work worth preserving, or a pull request.
Stops(r, s) ==
    /\ r.state \in ExecutionStates
    /\ \/ s.state = "PR_READY" /\ "pr" \in r.evidence
       \/ s.state = "BLOCKED" /\ s.error = "other"
    /\ s.failure \in {"delivery", "other"}
    /\ Remains(r, s)

\* Reconciliation begins: under the worker's lease, or on a row that ended without it.
Reconciles(t, r, s) ==
    /\ \/ r.state \in ExecutionStates
       \/ /\ \E a \in Actors : StartReconciliation(a) /\ session[a].task = t
          /\ \/ r.state = "BLOCKED"
             \/ r.state = "FAILED_SAFE" /\ r.failure = "delivery"
    /\ s.state = "DELIVERY_RECONCILING"
    /\ s.failure = r.failure
    /\ s.attempts = r.attempts
    /\ s.gen = r.gen
    /\ s.evidence = r.evidence

\* ... and goes on, or ends.
Concludes(r, s) ==
    /\ r.state = "DELIVERY_RECONCILING"
    /\ \/ /\ s.state = "PR_READY"
          /\ s.failure = "none"
          /\ s.evidence = r.evidence \cup Deliverable
       \/ /\ s.state \in {"BLOCKED", "FAILED_SAFE"}
          /\ s.error = "other"
          /\ s.failure = "delivery"
          /\ s.evidence = r.evidence
       \/ /\ s.state = "DELIVERY_RECONCILING"
          /\ s.failure = r.failure
          /\ s.evidence = r.evidence
    /\ s.attempts = r.attempts
    /\ s.gen >= r.gen

Adopts(t, r, s) ==
    /\ \E o \in Operators :
         ReconcileDelivery(o) /\ session[o].task = t /\ r.state = StateRead(session[o].phase)
    /\ s.state = "PR_READY"
    /\ s.failure = "delivery"
    /\ s.attempts = r.attempts
    /\ s.gen = r.gen

\* The verdict of people, and the merge.
Reviews(t, r, s) ==
    /\ \/ /\ r.state \in {"COMPLETED", "PR_READY"}
          /\ s.state = "CEO_REVIEW"
          /\ s.failure = r.failure
          /\ s.evidence = r.evidence
       \/ /\ r.state \in {"PR_READY", "CEO_REVIEW"}
          /\ t \in RequiresPr
          /\ s.state = "COMPLETED"
          /\ s.failure = "none"
          /\ s.evidence = r.evidence \cup {"merged"}
    /\ s.attempts = r.attempts
    /\ s.gen = r.gen

Moves(t, r, s) ==
    \/ Rests(r, s) \/ Submits(r, s) \/ Queues(r, s) \/ Drops(r, s)
    \/ Claims(t, r, s) \/ Unblocks(t, r, s) \/ Releases(t, r, s)
    \/ Works(r, s) \/ Succeeds(t, r, s) \/ Pauses(r, s)
    \/ Retries(t, r, s) \/ Parks(t, r, s) \/ Fails(t, r, s) \/ Stops(r, s)
    \/ Reconciles(t, r, s) \/ Concludes(r, s) \/ Adopts(t, r, s) \/ Reviews(t, r, s)

-----------------------------------------------------------------------------
(* The transactions make such moves *)

LEMMA UnleasedRests ==
    ASSUME NEW r \in Row
    PROVE  Unleased(r) \in Row /\ Rests(r, Unleased(r))
BY UnleasedRow DEF Unleased, Rests, Remains, Row

LEMMA QueueMoves ==
    ASSUME NEW t \in Tasks, NEW r \in Row, r.state \in QueueStates
    PROVE  /\ Queues(r, [r EXCEPT !.state = "READY"])
           /\ Queues(r, [r EXCEPT !.state = "WAITING_DEPENDENCY"])
           /\ Queues(r, [r EXCEPT !.state = "BLOCKED", !.error = "dependency"])
           /\ Queues(r, Resumed(r))
BY DEF Queues, Remains, QueueStates, Resumed, Unleased, Row

LEMMA DropMoves ==
    ASSUME NEW t \in Tasks, NEW r \in Row, r.state \in QueueStates \cup {"BLOCKED"}
    PROVE  /\ r.state = "BACKLOG" =>
                Drops(r, [r EXCEPT !.state = "FAILED_SAFE", !.error = "other"])
           /\ Drops(r, [r EXCEPT !.state = "CANCELLED", !.error = "other"])
BY DEF Drops, Remains, Row

LEMMA WorkMoves ==
    ASSUME NEW t \in Tasks, NEW r \in Row, r.state \in ExecutionStates
    PROVE  /\ Works(r, [r EXCEPT !.state = "RUNNING"])
           /\ Works(r, [r EXCEPT !.state = "VERIFYING"])
           /\ \A e \in Evidence :
                (e = "pr" => {"commit", "verified", "remote"} \subseteq r.evidence)
                   => Works(r, Recorded(r, e))
BY DEF Works, ExecutionStates, Recorded, Row

LEMMA ReportMoves ==
    ASSUME NEW t \in Tasks, NEW r \in Row, r.state \in ExecutionStates
    PROVE  /\ Required(t) \subseteq r.evidence => Succeeds(t, r, CompletedSuccess(t, r))
           /\ Pauses(r, CompletedQuota(r))
           /\ Stops(r, DeliveryStopped(r, "delivery"))
           /\ Stops(r, DeliveryStopped(r, "other"))
<1>1. Required(t) \subseteq r.evidence => Succeeds(t, r, CompletedSuccess(t, r))
  BY DEF Succeeds, CompletedSuccess, Remains, Unleased, Row
<1>2. Pauses(r, CompletedQuota(r))
  BY DEF Pauses, CompletedQuota, Unleased, Row
<1>3. Stops(r, DeliveryStopped(r, "delivery")) /\ Stops(r, DeliveryStopped(r, "other"))
  BY DEF Stops, DeliveryStopped, Remains, Unleased, Row
<1>. QED BY <1>1, <1>2, <1>3

LEMMA FailureMoves ==
    ASSUME NEW t \in Tasks, NEW r \in Row, r.state \in ExecutionStates
    PROVE  /\ Fails(t, r, Failed(t, r, "other"))
           /\ Fails(t, r, Failed(t, r, "delivery"))
           /\ r.attempts >= MaxAttempts[t] => Fails(t, r, Failed(t, r, "exhausted"))
           /\ Stops(r, CompletedUndelivered(t, r)) \/ Fails(t, r, CompletedUndelivered(t, r))
<1>0. \A f \in Failures : (f = "exhausted" => r.attempts >= MaxAttempts[t])
                          => Fails(t, r, Failed(t, r, f))
  BY DEF Fails, Failed, Unleased, Row
<1>1. /\ Fails(t, r, Failed(t, r, "other"))
      /\ Fails(t, r, Failed(t, r, "delivery"))
      /\ r.attempts >= MaxAttempts[t] => Fails(t, r, Failed(t, r, "exhausted"))
  BY <1>0, Words
<1>2. Stops(r, [Unleased(r) EXCEPT !.state = "BLOCKED", !.failure = "delivery", !.error = "other"])
  BY DEF Stops, Remains, Unleased, Row
<1>. QED BY <1>1, <1>2 DEF CompletedUndelivered

LEMMA RetryableMoves ==
    ASSUME NEW t \in Tasks, NEW r \in Row, r.state \in ExecutionStates, NEW s \in Signatures
    PROVE  Moves(t, r, CompletedRetryable(t, r, s))
<1>. DEFINE repeats == IF r.sig = s THEN r.repeats + 1 ELSE 1
            debug   == r.debug + 1
            park    == /\ DebugBudget[t] > 0
                       /\ debug >= DebugBudget[t] \/ repeats >= RepeatLimit[t]
            counted == [Unleased(r) EXCEPT !.debug = debug, !.sig = s,
                                           !.repeats = repeats, !.failure = "other",
                                           !.error = "other"]
            delay   == IF RetryDelay > ParkDelay THEN RetryDelay ELSE ParkDelay
            f       == IF debug >= DebugBudget[t] THEN "debug_budget" ELSE counted.failure
<1>1. /\ counted.attempts = r.attempts /\ counted.debug = r.debug + 1 /\ counted.gen = r.gen
      /\ counted.evidence = r.evidence /\ counted.recon = r.recon /\ counted.failure = "other"
  BY DEF Unleased, Row
<1>2. DOMAIN counted = DOMAIN r
  BY DEF Unleased, Row
<1>3. /\ r.gen \in Nat
      /\ DOMAIN r = {"state", "attempts", "gen", "owner", "ttl", "wait", "pid", "evidence",
                     "failure", "error", "debug", "sig", "repeats", "recon", "source"}
  BY DEF Row
<1>4. f \in {"other", "debug_budget"}
  BY <1>1
<1>. HIDE DEF counted, delay, f, repeats
<1>5. Fails(t, r, [counted EXCEPT !.state = "FAILED_SAFE"])
  BY <1>1, <1>2, <1>3 DEF Fails
<1>6. r.attempts < MaxAttempts[t]
        => Retries(t, r, [counted EXCEPT !.state = "READY", !.wait = RetryDelay])
  BY <1>1, <1>2, <1>3 DEF Retries
<1>7. DebugBudget[t] > 0
        => Parks(t, r, [counted EXCEPT !.state = "BLOCKED", !.error = "debug",
                                       !.wait = delay, !.failure = f])
  BY <1>1, <1>2, <1>3, <1>4 DEF Parks
<1>8. ~(r.attempts < MaxAttempts[t]) => Fails(t, r, Failed(t, r, "exhausted"))
  <2>1. r.attempts \in Nat /\ MaxAttempts[t] \in Nat
    BY RowAssumption DEF Row
  <2>. QED BY <2>1, FailureMoves
<1>9. CASE s \in TimeoutSignatures /\ r.sig = s
  BY <1>5, <1>9 DEF CompletedRetryable, counted, repeats, Moves
<1>10. CASE ~(s \in TimeoutSignatures /\ r.sig = s) /\ r.attempts < MaxAttempts[t] /\ ~park
  BY <1>6, <1>10 DEF CompletedRetryable, counted, repeats, Moves
<1>11. CASE ~(s \in TimeoutSignatures /\ r.sig = s) /\ park
  <2>1. CompletedRetryable(t, r, s) = [counted EXCEPT !.state = "BLOCKED", !.error = "debug",
                                                      !.wait = delay, !.failure = f]
    BY <1>11 DEF CompletedRetryable, counted, repeats, delay, f
  <2>. QED BY <2>1, <1>7, <1>11 DEF Moves
<1>12. CASE /\ ~(s \in TimeoutSignatures /\ r.sig = s)
            /\ ~park /\ ~(r.attempts < MaxAttempts[t])
  BY <1>8, <1>12 DEF CompletedRetryable, repeats, Moves
<1>. QED BY <1>9, <1>10, <1>11, <1>12

LEMMA ReapMoves ==
    ASSUME NEW t \in Tasks, NEW r \in Row, r.state \in Active, NEW alive \in BOOLEAN
    PROVE  Moves(t, r, Reaped(t, r, alive))
<1>. DEFINE fenced == [Unleased(r) EXCEPT !.gen = @ + 1, !.error = "other"]
<1>1. /\ fenced.attempts = r.attempts /\ fenced.debug = r.debug /\ fenced.gen >= r.gen
      /\ fenced.evidence = r.evidence /\ fenced.recon = r.recon /\ fenced.error = "other"
      /\ DOMAIN fenced = DOMAIN r
  BY DEF Unleased, Row
<1>2. /\ DOMAIN r = {"state", "attempts", "gen", "owner", "ttl", "wait", "pid", "evidence",
                     "failure", "error", "debug", "sig", "repeats", "recon", "source"}
      /\ r.attempts \in Nat /\ MaxAttempts[t] \in Nat
  BY RowAssumption DEF Row
<1>. HIDE DEF fenced
<1>3. r.state = "DELIVERY_RECONCILING"
        => Concludes(r, [fenced EXCEPT !.state = "BLOCKED", !.failure = "delivery"])
  BY <1>1, <1>2 DEF Concludes
<1>4. r.state # "DELIVERY_RECONCILING" => r.state \in ExecutionStates
  BY DEF Active, ExecutionStates
<1>5. r.state \in ExecutionStates
        => Fails(t, r, [fenced EXCEPT !.state = "FAILED_SAFE", !.failure = "other"])
  BY <1>1, <1>2 DEF Fails
<1>6. r.state \in ExecutionStates /\ r.attempts < MaxAttempts[t]
        => Retries(t, r, [fenced EXCEPT !.state = "READY", !.wait = 0, !.failure = "other"])
  BY <1>1, <1>2 DEF Retries
<1>7. r.state \in ExecutionStates /\ ~(r.attempts < MaxAttempts[t])
        => Fails(t, r, [fenced EXCEPT !.state = "FAILED_SAFE", !.failure = "exhausted"])
  BY <1>1, <1>2 DEF Fails
<1>. QED BY <1>3, <1>4, <1>5, <1>6, <1>7 DEF Reaped, fenced, Moves

LEMMA ReconciliationMoves ==
    ASSUME NEW r \in Row, r.state = "DELIVERY_RECONCILING"
    PROVE  /\ Concludes(r, Recovered(r))
           /\ Concludes(r, Unrecovered(r))
           /\ \A k \in Nat : Concludes(r, [r EXCEPT !.recon = k])
<1>1. r.gen >= r.gen
  BY DEF Row
<1>2. Concludes(r, Recovered(r))
  BY <1>1 DEF Concludes, Recovered, Unleased, Row
<1>3. Concludes(r, Unrecovered(r))
  BY <1>1 DEF Concludes, Unrecovered, Unleased, Row
<1>4. \A k \in Nat : Concludes(r, [r EXCEPT !.recon = k])
  BY <1>1 DEF Concludes, Row
<1>. QED BY <1>2, <1>3, <1>4

-----------------------------------------------------------------------------
(* Every step makes such moves *)

AllMove == \A t \in Tasks : Moves(t, task[t], task'[t])

LEMMA NoRowMoves ==
    ASSUME UNCHANGED task
    PROVE  AllMove
BY DEF AllMove, Moves, Rests, Remains

LEMMA OneRowMoves ==
    ASSUME TypeOK, NEW u \in Tasks, NEW row, Write(u, row), Moves(u, task[u], row)
    PROVE  AllMove
<1>1. \A t \in Tasks : task'[t] = IF t = u THEN row ELSE task[t]
  BY DEF Write, TypeOK
<1>2. \A t \in Tasks : Moves(t, task[t], task[t])
  BY DEF Moves, Rests, Remains
<1>. QED BY <1>1, <1>2 DEF AllMove

\* What a session at work knows of its row.
LEMMA AtWork ==
    ASSUME IInv, NEW w \in Workers, NEW S, Fenced(w, S),
           session[w].phase \in LeasedPhases
    PROVE  /\ session[w].task \in Tasks
           /\ Row0(w) \in Row
           /\ Row0(w) = task[session[w].task]
           /\ Row0(w).state = StateIn(session[w].phase)
           /\ Row0(w).state \in Active
           /\ Row0(w).state \in ExecutionStates \/ session[w].phase = "reconciling"
<1>1. /\ session[w].task \in Tasks /\ Holds(w, session[w].task) /\ Row0(w) \in Row
      /\ Row0(w).owner # None /\ Row0(w).gen = session[w].gen
  BY FencedRow
<1>2. Row0(w).state = StateIn(session[w].phase)
  BY <1>1 DEF IInv, LeaseInvariant, CurrentSessionOwns, Row0
<1>3. StateIn(session[w].phase) \in Active
  BY DEF StateIn, LeasedPhases, Active
<1>4. session[w].phase = "reconciling" \/ StateIn(session[w].phase) \in ExecutionStates
  BY DEF StateIn, LeasedPhases, ExecutionStates
<1>. QED BY <1>1, <1>2, <1>3, <1>4 DEF Row0

LEMMA CommandMoves ==
    ASSUME IInv, NEW t \in Tasks, Command(t)
    PROVE  AllMove
<1>. DEFINE r == task[t]
<1>1. TypeOK /\ r \in Row
  BY RowTyped DEF IInv
<1>2. r.state \in Active => r.owner # None \/ r.state = "DELIVERY_RECONCILING"
  BY DEF IInv, LeaseInvariant, LeaseConsistent, Active
<1>3. CASE Submit(t)
  <2>1. r.state = "ABSENT" /\ r.gen = 0
    BY <1>3 DEF Submit, IInv, LeaseInvariant, UnsubmittedUnleased
  <2>2. PICK s \in {"BACKLOG", "READY", "BLOCKED"}, e \in {"none", "policy"} :
          Write(t, NewRow(s, e))
    BY <1>3 DEF Submit
  <2>3. Submits(r, NewRow(s, e))
    BY <2>1 DEF Submits, NewRow
  <2>. QED BY <1>1, <2>2, <2>3, OneRowMoves DEF Moves
<1>4. CASE Approve(t)
  <2>1. Queues(r, [r EXCEPT !.state = "READY"])
    BY <1>1, <1>4, QueueMoves DEF Approve, QueueStates
  <2>. QED BY <1>1, <1>4, <2>1, OneRowMoves DEF Moves, Approve
<1>5. CASE Reject(t)
  <2>1. Drops(r, [r EXCEPT !.state = "FAILED_SAFE", !.error = "other"])
    BY <1>1, <1>5, DropMoves DEF Reject, QueueStates
  <2>. QED BY <1>1, <1>5, <2>1, OneRowMoves DEF Moves, Reject
<1>6. CASE Cancel(t)
  <2>1. r.state \in QueueStates \cup {"BLOCKED"}
    BY <1>2, <1>6 DEF Cancel, QueueStates, Active
  <2>2. Drops(r, [r EXCEPT !.state = "CANCELLED", !.error = "other"])
    BY <1>1, <2>1, DropMoves
  <2>. QED BY <1>1, <1>6, <2>2, OneRowMoves DEF Moves, Cancel
<1>7. CASE CeoReview(t)
  <2>1. Reviews(t, r, [r EXCEPT !.state = "CEO_REVIEW"])
    BY <1>1, <1>7 DEF CeoReview, Reviews, Row
  <2>. QED BY <1>1, <1>7, <2>1, OneRowMoves DEF Moves, CeoReview
<1>8. CASE ReconcileMerged(t)
  <2>1. Reviews(t, r, Merged(r))
    BY <1>1, <1>8 DEF ReconcileMerged, Reviews, Merged, Row
  <2>. QED BY <1>1, <1>8, <2>1, OneRowMoves DEF Moves, ReconcileMerged
<1>. QED BY <1>3, <1>4, <1>5, <1>6, <1>7, <1>8 DEF Command

LEMMA OperateMoves ==
    ASSUME IInv, NEW o \in Operators, Operate(o)
    PROVE  AllMove
<1>1. TypeOK /\ o \in Actors /\ SessionOK(o, session[o])
  BY Typed DEF IInv, Actors
<1>2. CASE \E t \in Tasks : UnblockRead(o, t) \/ ReadPreserved(o, t) \/ ReadDelivery(o, t)
  BY <1>2, NoRowMoves DEF UnblockRead, ReadPreserved, ReadDelivery
<1>3. CASE Unblock(o)
  <2>. DEFINE t == session[o].task
  <2>1. t \in Tasks /\ task[t] \in Row /\ Row0(o) = task[t]
    BY <1>1, <1>3, RowTyped DEF Unblock, At, SessionOK, Row0
  <2>2. CASE task[t].state = "BLOCKED"
    <3>1. Unblocks(t, task[t], [task[t] EXCEPT !.state = "READY"])
      <4>1. \E p \in Operators : Unblock(p) /\ session[p].task = t
        BY <1>3
      <4>. HIDE DEF t
      <4>. QED BY <2>1, <2>2, <4>1 DEF Unblocks, Remains, Row
    <3>2. Write(t, [task[t] EXCEPT !.state = "READY"])
      BY <1>1, <1>3, <2>1, <2>2 DEF Unblock, Write, TypeOK
    <3>. HIDE DEF t
    <3>. QED BY <1>1, <2>1, <3>1, <3>2, OneRowMoves DEF Moves
  <2>3. CASE task[t].state # "BLOCKED"
    BY <1>3, <2>1, <2>3, NoRowMoves DEF Unblock
  <2>. QED BY <2>2, <2>3
<1>4. CASE ReconcileDelivery(o)
  <2>. DEFINE t == session[o].task
  <2>1. t \in Tasks /\ task[t] \in Row /\ Row0(o) = task[t]
    BY <1>1, <1>4, RowTyped DEF ReconcileDelivery, SessionOK, Row0
  <2>2. CASE task[t].state = StateRead(session[o].phase)
    <3>1. Adopts(t, task[t], Adopted(task[t]))
      <4>1. \E p \in Operators : /\ ReconcileDelivery(p) /\ session[p].task = t
                                 /\ task[t].state = StateRead(session[p].phase)
        BY <1>4, <2>2
      <4>. HIDE DEF t
      <4>. QED BY <2>1, <4>1 DEF Adopts, Adopted, Unleased, Row
    <3>2. Write(t, Adopted(task[t]))
      BY <1>1, <1>4, <2>1, <2>2 DEF ReconcileDelivery, Write, TypeOK
    <3>. HIDE DEF t
    <3>. QED BY <1>1, <2>1, <3>1, <3>2, OneRowMoves DEF Moves
  <2>3. CASE task[t].state # StateRead(session[o].phase)
    BY <1>4, <2>1, <2>3, NoRowMoves DEF ReconcileDelivery
  <2>. QED BY <2>2, <2>3
<1>. QED BY <1>2, <1>3, <1>4 DEF Operate

LEMMA StartMoves ==
    ASSUME IInv, NEW a \in Actors, StartReconciliation(a)
    PROVE  AllMove
<1>. DEFINE t == session[a].task
            r == Row0(a)
<1>1. /\ TypeOK /\ t \in Tasks /\ r \in Row /\ r = task[t]
      /\ \E c \in Actors : StartReconciliation(c) /\ session[c].task = t
  BY Typed, RowTyped DEF IInv, StartReconciliation, SessionOK, Row0
<1>2. CASE MayStart(a) /\ Proceed(a, Reconciling(r), "reconciling")
  <2>1. Write(t, Reconciling(r))
    BY <1>2 DEF Proceed
  <2>2. \/ r.state = "VERIFYING"
        \/ r.state = "BLOCKED"
        \/ r.state = "FAILED_SAFE" /\ r.failure = "delivery"
    BY <1>2 DEF MayStart
  <2>. HIDE DEF t, r
  <2>3. Reconciles(t, r, Reconciling(r))
    BY <1>1, <2>2 DEF Reconciles, Reconciling, ExecutionStates, Row
  <2>. QED BY <1>1, <2>1, <2>3, OneRowMoves DEF Moves
<1>3. CASE UNCHANGED <<task, paused, procs>>
  BY <1>3, NoRowMoves
<1>. QED BY <1>2, <1>3 DEF StartReconciliation

LEMMA ReconcileMoves ==
    ASSUME IInv, NEW a \in Actors, Reconcile(a)
    PROVE  AllMove
<1>0. CASE StartReconciliation(a)
  BY <1>0, StartMoves
<1>. SUFFICES ASSUME ~StartReconciliation(a) PROVE AllMove
  BY <1>0
<1>. DEFINE t == session[a].task
<1>1. /\ TypeOK /\ t \in Tasks /\ task[t] \in Row /\ Row0(a) = task[t]
      /\ task[t].state = "DELIVERY_RECONCILING" /\ task[t].recon \in Nat
  BY Typed, RowTyped
  DEF IInv, Reconcile, ReconciliationSucceeds, ReconciliationFails, MaxReconciliations,
      ReconciliationRetries, At, SessionOK, MayReconcile, Row0
<1>2. /\ Concludes(task[t], Recovered(task[t]))
      /\ Concludes(task[t], Unrecovered(task[t]))
      /\ Concludes(task[t], [task[t] EXCEPT !.recon = @ + 1])
  BY <1>1, ReconciliationMoves
<1>3. \/ Write(t, Recovered(task[t]))
      \/ Write(t, Unrecovered(task[t]))
      \/ Write(t, [task[t] EXCEPT !.recon = @ + 1])
  BY <1>1 DEF Reconcile, ReconciliationSucceeds, ReconciliationFails,
              ReconciliationRetries, Finish, Proceed
<1>. HIDE DEF t
<1>. QED BY <1>1, <1>2, <1>3, OneRowMoves DEF Moves

LEMMA ScanMoves ==
    ASSUME IInv, NEW w \in Workers, ClaimNothing(w) \/ ClaimNext(w)
    PROVE  AllMove
<1>. DEFINE b    == WorkerBuilder[w]
            rows == QuotaResumed
<1>1. SUFFICES ASSUME NEW t \in Tasks
               PROVE  Moves(t, task[t], task'[t])
  BY DEF AllMove
<1>2. task[t] \in Row /\ b \in Builders
  BY RowTyped, QueueAssumption DEF IInv
<1>3. \/ rows[t] = task[t]
      \/ rows[t] = Resumed(task[t]) /\ task[t].state = "PAUSED_QUOTA"
  BY DEF QuotaResumed
<1>4. rows[t] \in Row
  BY QuotaRow
<1>5. rows[t].state \in QueueStates => /\ task[t].state \in QueueStates
                                       /\ rows[t].failure \in {task[t].failure, "none"}
                                       /\ Remains(task[t], rows[t])
  <2>1. CASE rows[t] = task[t]
    BY <2>1 DEF Remains
  <2>2. CASE rows[t] = Resumed(task[t]) /\ task[t].state = "PAUSED_QUOTA"
    BY <2>2, <1>2 DEF Remains, Resumed, Unleased, QueueStates, Row
  <2>. QED BY <1>3, <2>1, <2>2
<1>6. Moves(t, task[t], rows[t])
  <2>1. CASE rows[t] = task[t]
    BY <2>1 DEF Moves, Rests, Remains
  <2>2. CASE rows[t] = Resumed(task[t]) /\ task[t].state = "PAUSED_QUOTA"
    BY <2>2, <1>2, QueueMoves DEF Moves, QueueStates
  <2>. QED BY <1>3, <2>1, <2>2
<1>7. CASE ClaimNothing(w)
  BY <1>6, <1>7 DEF ClaimNothing
<1>8. CASE ClaimNext(w)
  <2>1. PICK blocked \in SUBSET Passed(b, rows) : task' = AfterScan(w, rows, blocked)
    BY <1>8 DEF ClaimNext
  <2>2. task'[t] = IF t \in Chosen(b, rows) THEN Claimed(rows[t], b)
                   ELSE IF t \in blocked
                     THEN [rows[t] EXCEPT !.state = "BLOCKED", !.error = "dependency"]
                   ELSE IF t \in Passed(b, rows)
                     THEN [rows[t] EXCEPT !.state = "WAITING_DEPENDENCY"]
                   ELSE rows[t]
    BY <2>1 DEF AfterScan
  <2>3. t \in Passed(b, rows) \cup Chosen(b, rows) => rows[t].state \in QueueStates
    BY DEF Passed, Chosen, Scanned, QueueStates
  <2>4. CASE t \in Chosen(b, rows)
    <3>1. Satisfied(t, task)
      <4>1. Satisfied(t, rows)
        BY <2>4 DEF Chosen
      <4>2. \A d \in Deps[t] : d \in Tasks
        BY QueueAssumption
      <4>3. \A d \in Tasks : task[d] \in Row
        BY RowTyped DEF IInv
      <4>4. \A d \in Tasks : rows[d].state = "COMPLETED" => task[d].state = "COMPLETED"
        <5>1. \A d \in Tasks : rows[d] = task[d] \/ rows[d] = Resumed(task[d])
          BY DEF QuotaResumed
        <5>2. \A d \in Tasks : Resumed(task[d]).state = "READY"
          BY <4>3 DEF Resumed, Unleased, Row
        <5>. QED BY <5>1, <5>2
      <4>. QED BY <4>1, <4>2, <4>4 DEF Satisfied
    <3>2. task'[t] = Claimed(rows[t], b)
      BY <2>2, <2>4
    <3>. DEFINE q == rows[t]
    <3>3. q \in Row
      BY <1>4
    <3>4. /\ Claimed(q, b).state = "CLAIMED" /\ Claimed(q, b).failure = "none"
          /\ Claimed(q, b).attempts = q.attempts + 1 /\ Claimed(q, b).gen = q.gen + 1
          /\ Claimed(q, b).debug = q.debug /\ Claimed(q, b).evidence = q.evidence
          /\ Claimed(q, b).recon = q.recon
      <4>. HIDE DEF q, b
      <4>. QED BY <3>3 DEF Claimed, Row
    <3>5. \E v \in Workers : ClaimNext(v) /\ t \in Chosen(WorkerBuilder[v], QuotaResumed)
      BY <1>8, <2>4
    <3>6. Claims(t, task[t], Claimed(q, b))
      BY <1>5, <2>3, <2>4, <3>1, <3>4, <3>5 DEF Claims, Remains
    <3>. QED BY <3>2, <3>6 DEF Moves
  <2>5. CASE t \notin Chosen(b, rows) /\ t \in Passed(b, rows)
    <3>. DEFINE q == rows[t]
    <3>1. q \in Row /\ q.state \in QueueStates
      BY <1>4, <2>3, <2>5
    <3>2. /\ Queues(q, [q EXCEPT !.state = "WAITING_DEPENDENCY"])
          /\ Queues(q, [q EXCEPT !.state = "BLOCKED", !.error = "dependency"])
      BY <3>1, QueueMoves
    <3>3. Queues(q, task'[t])
      BY <2>2, <2>5, <3>2
    <3>4. Queues(task[t], task'[t])
      BY <1>5, <3>1, <3>3 DEF Queues, Remains
    <3>. QED BY <3>4 DEF Moves
  <2>6. CASE t \notin Chosen(b, rows) /\ t \notin Passed(b, rows)
    BY <1>6, <2>2, <2>6
  <2>. QED BY <2>4, <2>5, <2>6
<1>. QED BY <1>7, <1>8

LEMMA ProgressMoves ==
    ASSUME IInv, NEW w \in Workers, Progress(w) \/ Heartbeat(w)
    PROVE  AllMove
<1>. DEFINE t == session[w].task
            r == task[t]
<1>1. ASSUME NEW S, Fenced(w, S), session[w].phase \in LeasedPhases \ {"reconciling"}
      PROVE  /\ t \in Tasks /\ r \in Row /\ Row0(w) = r /\ r.state \in ExecutionStates
             /\ session[w].gen \in Nat
  BY <1>1, AtWork, Typed DEF IInv, Actors, Sessions
<1>2. TypeOK /\ LeaseTerm \in Nat
  BY RowAssumption DEF IInv
<1>3. ASSUME NEW row, t \in Tasks, Moves(t, r, row), Write(t, row)
      PROVE  AllMove
  BY <1>2, <1>3, OneRowMoves
<1>4. CASE Poll(w) \/ Spawn(w) \/ BaseDrifts(w)
  BY <1>4, NoRowMoves DEF Poll, Spawn, BaseDrifts
<1>5. CASE ClaimNothing(w) \/ ClaimNext(w)
  BY <1>5, ScanMoves
<1>6. CASE AssignWorktree(w)
  <2>1. t \in Tasks /\ r \in Row /\ Row0(w) = r /\ r.state \in ExecutionStates
    BY <1>1, <1>6 DEF AssignWorktree, At, LeasedPhases
  <2>2. Works(r, Recorded(r, "worktree"))
    BY <2>1, WorkMoves DEF Evidence
  <2>. QED BY <1>3, <1>6, <2>1, <2>2 DEF AssignWorktree, Proceed, Moves
<1>7. CASE AllocationFails(w)
  <2>1. t \in Tasks /\ r \in Row /\ Row0(w) = r /\ r.state \in ExecutionStates
    BY <1>1, <1>7 DEF AllocationFails, At, LeasedPhases
  <2>. QED BY <1>3, <1>7, <2>1, FailureMoves DEF AllocationFails, Finish, Moves
<1>8. CASE StartRunning(w)
  <2>1. t \in Tasks /\ r \in Row /\ Row0(w) = r /\ r.state \in ExecutionStates
    BY <1>1, <1>8 DEF StartRunning, At, LeasedPhases
  <2>. QED BY <1>3, <1>8, <2>1, WorkMoves DEF StartRunning, Proceed, Moves
<1>9. CASE RecordProcess(w)
  <2>1. t \in Tasks /\ r \in Row /\ Row0(w) = r /\ session[w].gen \in Nat
    BY <1>1, <1>9 DEF RecordProcess, At, LeasedPhases
  <2>2. \A n \in Nat : Rests(r, [r EXCEPT !.pid = n])
    BY <2>1 DEF Rests, Remains, Row
  <2>. QED BY <1>3, <1>9, <2>1, <2>2 DEF RecordProcess, Proceed, Moves
<1>10. CASE Heartbeat(w)
  <2>1. t \in Tasks /\ r \in Row /\ Row0(w) = r
    BY <1>1, <1>10 DEF Heartbeat, LeasedPhases
  <2>2. Rests(r, [r EXCEPT !.ttl = LeaseTerm])
    BY <2>1 DEF Rests, Remains, Row
  <2>. QED BY <1>3, <1>10, <2>1, <2>2 DEF Heartbeat, Proceed, Moves
<1>11. CASE BeginVerifying(w)
  <2>1. t \in Tasks /\ r \in Row /\ Row0(w) = r /\ r.state \in ExecutionStates
    BY <1>1, <1>11 DEF BeginVerifying, Returned, At, LeasedPhases
  <2>. QED BY <1>3, <1>11, <2>1, WorkMoves DEF BeginVerifying, Proceed, Moves
<1>12. CASE ReportQuota(w)
  <2>1. t \in Tasks /\ r \in Row /\ Row0(w) = r /\ r.state \in ExecutionStates
    BY <1>1, <1>12 DEF ReportQuota, Returned, At, LeasedPhases
  <2>. QED BY <1>3, <1>12, <2>1, ReportMoves DEF ReportQuota, Finish, Moves
<1>13. CASE ReportUnsafe(w)
  <2>1. t \in Tasks /\ r \in Row /\ Row0(w) = r /\ r.state \in ExecutionStates
    BY <1>1, <1>13 DEF ReportUnsafe, Returned, At, LeasedPhases
  <2>. QED BY <1>3, <1>13, <2>1, FailureMoves DEF ReportUnsafe, Finish, Moves
<1>14. ASSUME NEW s \in Signatures, ReportRetryable(w, s)
       PROVE  AllMove
  <2>1. t \in Tasks /\ r \in Row /\ Row0(w) = r /\ r.state \in ExecutionStates
    BY <1>1, <1>14 DEF ReportRetryable, Returned, At, LeasedPhases
  <2>. QED BY <1>3, <1>14, <2>1, RetryableMoves DEF ReportRetryable, Finish
<1>15. ASSUME NEW e \in Evidence, RecordEvidence(w, e)
       PROVE  AllMove
  <2>1. t \in Tasks /\ r \in Row /\ Row0(w) = r /\ r.state \in ExecutionStates
    BY <1>1, <1>15 DEF RecordEvidence, At, LeasedPhases
  <2>2. e = "pr" => {"commit", "verified", "remote"} \subseteq r.evidence
    BY <1>15, <2>1 DEF RecordEvidence, Prerequisites
  <2>3. Works(r, Recorded(r, e))
    BY <2>1, <2>2, WorkMoves
  <2>. QED BY <1>3, <1>15, <2>1, <2>3 DEF RecordEvidence, Proceed, Moves
<1>16. CASE Deliver(w)
  <2>1. t \in Tasks /\ r \in Row /\ Row0(w) = r /\ r.state \in ExecutionStates
    BY <1>1, <1>16 DEF Deliver, At, LeasedPhases
  <2>2. Succeeds(t, r, CompletedSuccess(t, r))
    BY <1>16, <2>1, ReportMoves DEF Deliver
  <2>. QED BY <1>3, <1>16, <2>1, <2>2 DEF Deliver, Finish, Moves
<1>17. CASE BlockDelivery(w) \/ VerificationFails(w)
  <2>1. t \in Tasks /\ r \in Row /\ Row0(w) = r /\ r.state \in ExecutionStates
    BY <1>1, <1>17 DEF BlockDelivery, VerificationFails, At, LeasedPhases
  <2>. QED BY <1>3, <1>17, <2>1, ReportMoves DEF BlockDelivery, VerificationFails, Finish, Moves
<1>18. CASE DeliveryFails(w)
  <2>1. t \in Tasks /\ r \in Row /\ Row0(w) = r /\ r.state \in ExecutionStates
    BY <1>1, <1>18 DEF DeliveryFails, At, LeasedPhases
  <2>. QED BY <1>3, <1>18, <2>1, FailureMoves DEF DeliveryFails, Finish, Moves
<1>. QED BY <1>4, <1>5, <1>6, <1>7, <1>8, <1>9, <1>10, <1>11, <1>12, <1>13, <1>14,
            <1>15, <1>16, <1>17, <1>18 DEF Progress

LEMMA HousekeepingMoves ==
    ASSUME IInv, SetPaused \/ Reap \/ Release \/ Tick
    PROVE  AllMove
<1>1. \A t \in Tasks : task[t] \in Row
  BY RowTyped DEF IInv
<1>2. CASE SetPaused
  BY <1>2, NoRowMoves DEF SetPaused
<1>3. CASE Reap
  <2>1. SUFFICES ASSUME NEW t \in Tasks
                 PROVE  Moves(t, task[t], task'[t])
    BY DEF AllMove
  <2>2. PICK alive \in BOOLEAN : task'[t] = IF Expired(task[t]) THEN Reaped(t, task[t], alive)
                                           ELSE task[t]
    <3>. DEFINE alive == task[t].pid \in procs[t]
    <3>1. task'[t] = IF Expired(task[t]) THEN Reaped(t, task[t], alive) ELSE task[t]
      BY <1>3 DEF Reap
    <3>2. alive \in BOOLEAN
      OBVIOUS
    <3>. HIDE DEF alive
    <3>. QED BY <3>1, <3>2
  <2>3. CASE Expired(task[t])
    BY <1>1, <2>2, <2>3, ReapMoves DEF Expired
  <2>4. CASE ~Expired(task[t])
    BY <2>2, <2>4 DEF Moves, Rests, Remains
  <2>. QED BY <2>3, <2>4
<1>4. CASE Release
  <2>1. SUFFICES ASSUME NEW t \in Tasks
                 PROVE  Moves(t, task[t], task'[t])
    BY DEF AllMove
  <2>2. CASE Releasable(t) /\ task'[t] = Released(task[t])
    <3>. DEFINE r == task[t]
    <3>1. /\ r \in Row /\ r.state = "BLOCKED" /\ r.error \in {"dependency", "debug"}
          /\ DebugBudget[t] \in Nat /\ r.debug \in Nat
          /\ ~(DebugBudget[t] > 0 /\ DebugBudget[t] <= r.debug)
      BY <1>1, <2>2, RowAssumption DEF Releasable, BudgetSpent, Row
    <3>. HIDE DEF r
    <3>2. Releases(t, r, Released(r))
      BY <3>1 DEF Releases, Released, Remains, Row
    <3>. QED BY <2>2, <3>2 DEF Moves, r
  <2>3. CASE task'[t] = task[t]
    BY <2>3 DEF Moves, Rests, Remains
  <2>. QED BY <1>4, <2>2, <2>3 DEF Release
<1>5. CASE Tick
  <2>1. ASSUME NEW t \in Tasks
        PROVE  Moves(t, task[t], task'[t])
    <3>. DEFINE r == task[t]
                n == IF r.ttl > 0 THEN r.ttl - 1 ELSE 0
                m == IF r.wait > 0 THEN r.wait - 1 ELSE 0
    <3>1. r \in Row
      BY <1>1
    <3>2. task'[t] = [r EXCEPT !.ttl = n, !.wait = m]
      BY <1>5 DEF Tick
    <3>. HIDE DEF r, n, m
    <3>3. Rests(r, [r EXCEPT !.ttl = n, !.wait = m])
      BY <3>1 DEF Rests, Remains, Row
    <3>. QED BY <3>2, <3>3 DEF r, Moves
  <2>. QED BY <2>1 DEF AllMove
<1>. QED BY <1>2, <1>3, <1>4, <1>5

LEMMA StepMoves ==
    ASSUME IInv, [Next]_vars
    PROVE  AllMove
<1>1. ASSUME NEW w \in Workers, Progress(w) \/ Heartbeat(w)
      PROVE  AllMove
  BY <1>1, ProgressMoves
<1>2. ASSUME NEW a \in Actors, Reconcile(a) \/ GiveUp(a) \/ Crash(a)
      PROVE  AllMove
  BY <1>2, ReconcileMoves, NoRowMoves DEF GiveUp, Crash
<1>3. ASSUME NEW o \in Operators, Operate(o)
      PROVE  AllMove
  BY <1>3, OperateMoves
<1>4. ASSUME NEW t \in Tasks, Command(t)
      PROVE  AllMove
  BY <1>4, CommandMoves
<1>5. ASSUME NEW t \in Tasks, NEW g \in procs[t], ProcessExits(t, g)
      PROVE  AllMove
  BY <1>5, NoRowMoves DEF ProcessExits
<1>6. CASE SetPaused \/ Reap \/ Release \/ Tick
  BY <1>6, HousekeepingMoves
<1>7. CASE UNCHANGED vars
  BY <1>7, NoRowMoves DEF vars
<1>. QED BY <1>1, <1>2, <1>3, <1>4, <1>5, <1>6, <1>7 DEF Next

-----------------------------------------------------------------------------
(* What the operators remember between the read and the write of a command *)

\* A command in flight was begun on a row that had failed in delivery, unless it
\* is an unblock.
LEMMA OperatorSessions ==
    ASSUME IInv, [Next]_vars, NEW o \in Operators, session'[o].phase \in CommandPhases
    PROVE  \/ session'[o] = session[o]
           \/ /\ UNCHANGED task
              /\ session'[o].task \in Tasks
              /\ session'[o].phase # "unblocking" =>
                   task[session'[o].task].failure = "delivery"
              /\ session'[o].phase = "adoptingFailed" =>
                   task[session'[o].task].state = "FAILED_SAFE"
<1>. DEFINE Goal == \/ session'[o] = session[o]
                    \/ /\ UNCHANGED task
                       /\ session'[o].task \in Tasks
                       /\ session'[o].phase # "unblocking" =>
                            task[session'[o].task].failure = "delivery"
                       /\ session'[o].phase = "adoptingFailed" =>
                            task[session'[o].task].state = "FAILED_SAFE"
<1>1. /\ o \in Actors /\ o \notin Workers
      /\ session \in [Actors -> Sessions]
  BY QueueAssumption, Typed DEF IInv, Actors
<1>2. ASSUME NEW a \in Actors, NEW s, session' = [session EXCEPT ![a] = s], a # o
      PROVE  Goal
  BY <1>1, <1>2
<1>3. ASSUME NEW a \in Actors, Leave(a)
      PROVE  Goal
  <2>1. a # o
    BY <1>1, <1>3 DEF Leave, Idle, CommandPhases
  <2>. QED BY <1>2, <1>3, <2>1 DEF Leave
<1>4. ASSUME NEW a \in Actors, NEW phase, phase \notin CommandPhases, Goto(a, phase)
      PROVE  Goal
  <2>1. a # o
    BY <1>1, <1>4 DEF Goto, Sessions
  <2>. QED BY <1>1, <1>4, <2>1 DEF Goto
<1>5. ASSUME UNCHANGED session
      PROVE  Goal
  BY <1>5
<1>6. ASSUME NEW w \in Workers, Progress(w) \/ Heartbeat(w)
      PROVE  Goal
  <2>1. w \in Actors /\ w # o
    BY <1>1 DEF Actors
  <2>2. \/ Leave(w)
        \/ \E phase \in {"polling", "claimed", "running", "spawned", "executing",
                         "verifying", "drifting", session[w].phase} : Goto(w, phase)
        \/ \E s : session' = [session EXCEPT ![w] = s]
    <3>1. CASE ClaimNext(w)
      BY <3>1 DEF ClaimNext
    <3>2. CASE Poll(w) \/ ClaimNothing(w) \/ AssignWorktree(w) \/ AllocationFails(w)
               \/ StartRunning(w) \/ Spawn(w) \/ RecordProcess(w) \/ Heartbeat(w)
      BY <3>2 DEF Poll, ClaimNothing, AssignWorktree, AllocationFails, StartRunning, Spawn,
                  RecordProcess, Heartbeat, Finish, Proceed
    <3>3. CASE \/ BeginVerifying(w) \/ ReportQuota(w) \/ ReportUnsafe(w)
               \/ \E s \in Signatures : ReportRetryable(w, s)
               \/ \E e \in Evidence : RecordEvidence(w, e)
      BY <3>3 DEF BeginVerifying, ReportQuota, ReportUnsafe, ReportRetryable,
                  RecordEvidence, Finish, Proceed
    <3>4. CASE \/ Deliver(w) \/ BlockDelivery(w) \/ VerificationFails(w) \/ DeliveryFails(w)
               \/ BaseDrifts(w)
      BY <3>4 DEF Deliver, BlockDelivery, VerificationFails, DeliveryFails, BaseDrifts,
                  Finish, Proceed
    <3>. QED BY <1>6, <3>1, <3>2, <3>3, <3>4 DEF Progress
  <2>3. session'[o] = session[o]
    BY <1>1, <2>1, <2>2 DEF Leave, Goto
  <2>. QED BY <2>3
<1>7. ASSUME NEW a \in Actors, Reconcile(a) \/ GiveUp(a) \/ Crash(a)
      PROVE  Goal
  <2>1. Leave(a) \/ Goto(a, "reconciling")
    BY <1>7 DEF Reconcile, StartReconciliation, ReconciliationSucceeds,
                ReconciliationFails, ReconciliationRetries, GiveUp, Crash, Finish, Proceed
  <2>2. "reconciling" \notin CommandPhases
    BY DEF CommandPhases
  <2>. QED BY <1>3, <1>4, <2>1, <2>2
<1>8. ASSUME NEW p \in Operators, Operate(p)
      PROVE  Goal
  <2>1. p \in Actors
    BY DEF Actors
  <2>2. CASE Unblock(p) \/ ReconcileDelivery(p)
    BY <1>3, <2>1, <2>2 DEF Unblock, ReconcileDelivery
  <2>3. ASSUME NEW t \in Tasks, NEW phase \in CommandPhases,
               session' = [session EXCEPT ![p] = [phase |-> phase, task |-> t, gen |-> 0]],
               UNCHANGED task,
               phase # "unblocking" => task[t].failure = "delivery",
               phase = "adoptingFailed" => task[t].state = "FAILED_SAFE"
        PROVE  Goal
    <3>1. CASE p = o
      <4>1. session'[o] = [phase |-> phase, task |-> t, gen |-> 0]
        BY <1>1, <2>3, <3>1
      <4>. QED BY <2>3, <4>1
    <3>2. CASE p # o
      BY <1>2, <2>1, <2>3, <3>2
    <3>. QED BY <3>1, <3>2
  <2>4. ASSUME NEW t \in Tasks, UnblockRead(p, t)
        PROVE  Goal
    BY <2>3, <2>4 DEF UnblockRead, CommandPhases
  <2>5. ASSUME NEW t \in Tasks, ReadPreserved(p, t)
        PROVE  Goal
    BY <2>3, <2>5 DEF ReadPreserved, CommandPhases
  <2>6. ASSUME NEW t \in Tasks, ReadDelivery(p, t)
        PROVE  Goal
    <3>1. PICK phase \in {"adoptingBlocked", "adoptingFailed"} :
            /\ task[t].state = StateRead(phase)
            /\ session' = [session EXCEPT ![p] = [phase |-> phase, task |-> t, gen |-> 0]]
      BY <2>6 DEF ReadDelivery
    <3>2. phase \in CommandPhases /\ phase # "unblocking"
      BY DEF CommandPhases
    <3>3. phase = "adoptingFailed" => task[t].state = "FAILED_SAFE"
      BY <3>1 DEF StateRead
    <3>4. UNCHANGED task /\ task[t].failure = "delivery"
      BY <2>6 DEF ReadDelivery
    <3>. QED BY <2>3, <3>1, <3>2, <3>3, <3>4
  <2>. QED BY <1>8, <2>2, <2>4, <2>5, <2>6 DEF Operate
<1>9. CASE \/ \E t \in Tasks : Command(t)
           \/ \E t \in Tasks : \E g \in procs[t] : ProcessExits(t, g)
           \/ SetPaused \/ Reap \/ Release \/ Tick
           \/ UNCHANGED vars
  <2>1. UNCHANGED session
    BY <1>9 DEF Command, Submit, Approve, Reject, Cancel, CeoReview, ReconcileMerged,
                ProcessExits, SetPaused, Reap, Release, Tick, vars
  <2>. QED BY <1>5, <2>1
<1>. QED BY <1>6, <1>7, <1>8, <1>9 DEF Next

-----------------------------------------------------------------------------
(* What running work rests on *)

\* Task d satisfies those who depend on it, and will not cease to.
DeliveredFor(d) ==
    /\ task[d].state \in {"COMPLETED", "CEO_REVIEW"}
    /\ d \in RequiresPr => "merged" \in task[d].evidence

\* The states of a task that was claimed at least once.
RanStates == Active \cup {"PR_READY", "CEO_REVIEW", "COMPLETED"}

RanWasClaimed ==
    \A t \in Tasks :
        task[t].state \in RanStates \/ task[t].failure = "delivery" => task[t].gen > 0

CompletedIsMerged ==
    \A t \in RequiresPr : task[t].state = "COMPLETED" => "merged" \in task[t].evidence

ClaimedRestsOnDelivered ==
    \A t \in Tasks : task[t].gen > 0 => \A d \in Deps[t] : DeliveredFor(d)

\* An operator's read of a failed delivery outlives the failure, not the claim.
CommandsOnClaimed ==
    \A o \in Operators :
        session[o].phase \in CommandPhases \ {"unblocking"} => task[session[o].task].gen > 0

\* A lease is numbered from one.
ClaimsNumbered ==
    \A w \in Workers : session[w].phase \in LeasedPhases => session[w].gen > 0

DependencyInvariant ==
    /\ ClaimsNumbered
    /\ RanWasClaimed
    /\ CompletedIsMerged
    /\ ClaimedRestsOnDelivered
    /\ CommandsOnClaimed

LEMMA GenerationGrows ==
    ASSUME NEW t \in Tasks, NEW r \in Row, NEW s \in Row, Moves(t, r, s)
    PROVE  s.gen >= r.gen
<1>1. r.gen \in Nat /\ s.gen \in Nat
  BY DEF Row
<1>2. s.gen = r.gen \/ s.gen = r.gen + 1 \/ s.gen >= r.gen
  BY DEF Moves, Rests, Submits, Queues, Drops, Claims, Unblocks, Releases, Works, Succeeds,
         Pauses, Retries, Parks, Fails, Stops, Reconciles, Concludes, Adopts, Reviews, Remains
<1>. QED BY <1>1, <1>2

LEMMA NumberedStep ==
    ASSUME IInv, ClaimsNumbered, [Next]_vars
    PROVE  ClaimsNumbered'
<1>1. SUFFICES ASSUME NEW w \in Workers, session'[w].phase \in LeasedPhases
               PROVE  session'[w].gen > 0
  BY DEF ClaimsNumbered
<1>2. /\ session \in [Actors -> Sessions] /\ w \in Actors
      /\ \A t \in Tasks : task[t].gen \in Nat
  BY Typed, RowTyped DEF IInv, Actors
<1>3. \/ session[w].phase \in LeasedPhases /\ session'[w].gen = session[w].gen
      \/ \E t \in Tasks : session'[w].gen = task[t].gen + 1
  <2>1. CASE Reap \/ Tick
    BY <1>1, <2>1 DEF Reap, Tick
  <2>2. ASSUME NEW v \in Workers, WorksUnderLease(v)
        PROVE  session[w].phase \in LeasedPhases /\ session'[w].gen = session[w].gen
    <3>1. v \in Actors
      BY DEF Actors
    <3>2. CASE \E p \in LeasedPhases : Goto(v, p)
      BY <1>1, <1>2, <2>2, <3>1, <3>2 DEF WorksUnderLease, Goto, Sessions
    <3>3. CASE Leave(v)
      BY <1>1, <1>2, <3>1, <3>3 DEF Leave, Idle, LeasedPhases
    <3>. QED BY <2>2, <3>2, <3>3 DEF WorksUnderLease
  <2>3. ASSUME NEW v \in Workers, NEW t \in Tasks, TakesLease(v, t)
        PROVE  \/ session[w].phase \in LeasedPhases /\ session'[w].gen = session[w].gen
               \/ session'[w].gen = task[t].gen + 1
    BY <1>1, <1>2, <2>3 DEF TakesLease, Actors
  <2>4. CASE StaysOutside
    BY <1>1, <1>2, <2>4 DEF StaysOutside, ChangesSession
  <2>. QED BY <2>1, <2>2, <2>3, <2>4, StepServes DEF Serves
<1>. QED BY <1>2, <1>3 DEF ClaimsNumbered, Sessions

LEMMA DependencyStep ==
    ASSUME IInv, IInv', DependencyInvariant, [Next]_vars
    PROVE  DependencyInvariant'
<1>1. /\ AllMove
      /\ \A t \in Tasks : /\ task[t] \in Row /\ task'[t] \in Row
                          /\ task[t].gen \in Nat /\ task'[t].gen \in Nat
  BY StepMoves, RowTyped DEF IInv, TypeOK, Row
<1>2. \A t \in Tasks : task'[t].gen >= task[t].gen
  BY <1>1, GenerationGrows DEF AllMove
<1>3. ASSUME NEW t \in Tasks, DeliveredFor(t)
      PROVE  DeliveredFor(t)'
  <2>. DEFINE r == task[t]
              s == task'[t]
  <2>1. Rests(r, s) \/ Reviews(t, r, s)
    <3>1. r.state \in {"COMPLETED", "CEO_REVIEW"} /\ Moves(t, r, s)
      BY <1>1, <1>3 DEF DeliveredFor, AllMove
    <3>2. ~Adopts(t, r, s)
      BY <3>1 DEF Adopts, StateRead
    <3>. HIDE DEF r, s
    <3>. QED BY <3>1, <3>2
         DEF Moves, Submits, Queues, Drops, Claims, Unblocks, Releases, Works, Succeeds,
             Pauses, Retries, Parks, Fails, Stops, Reconciles, Concludes, QueueStates,
             ExecutionStates
  <2>2. /\ s.state \in {"COMPLETED", "CEO_REVIEW"}
        /\ "merged" \in r.evidence => "merged" \in s.evidence
    BY <1>3, <2>1 DEF DeliveredFor, Rests, Remains, Reviews
  <2>. QED BY <1>3, <2>2 DEF DeliveredFor
<1>4. RanWasClaimed'
  <2>1. SUFFICES ASSUME NEW t \in Tasks,
                        task'[t].state \in RanStates \/ task'[t].failure = "delivery"
                 PROVE  task'[t].gen > 0
    BY DEF RanWasClaimed
  <2>. DEFINE r == task[t]
              s == task'[t]
  <2>2. Moves(t, r, s) /\ (r.state \in RanStates \/ r.failure = "delivery" => r.gen > 0)
    BY <1>1 DEF AllMove, DependencyInvariant, RanWasClaimed
  <2>3. s.state \in RanStates \/ s.failure = "delivery"
    BY <2>1
  <2>4. s.gen >= r.gen /\ r.gen \in Nat /\ s.gen \in Nat
    BY <1>1, <1>2
  <2>5. CASE Adopts(t, r, s) \/ Reconciles(t, r, s)
    <3>1. \/ \E o \in Operators : session[o].phase \in CommandPhases \ {"unblocking"}
                                  /\ session[o].task = t
          \/ \E w \in Workers : Holds(w, t)
          \/ r.state \in RanStates
      <4>1. ASSUME NEW a \in Actors, StartReconciliation(a)
            PROVE  \/ a \in Operators /\ session[a].phase \in CommandPhases \ {"unblocking"}
                   \/ a \in Workers /\ session[a].phase \in LeasedPhases
        BY <4>1, Typed DEF StartReconciliation, Actors, SessionOK, CommandPhases, LeasedPhases,
                           IInv
      <4>. QED BY <2>5, <4>1 DEF Adopts, Reconciles, ReconcileDelivery, CommandPhases,
                                 ExecutionStates, RanStates, Active, Holds
    <3>2. r.gen > 0
      <4>1. ASSUME NEW w \in Workers, Holds(w, t)
            PROVE  r.gen > 0
        <5>1. session[w].gen <= r.gen /\ session[w].gen > 0 /\ session[w].gen \in Nat
          BY <4>1, Typed DEF IInv, LeaseInvariant, GenerationsReached, DependencyInvariant,
                             ClaimsNumbered, Holds, Actors, Sessions
        <5>. QED BY <2>4, <5>1
      <4>. QED BY <2>2, <3>1, <4>1 DEF DependencyInvariant, CommandsOnClaimed
    <3>. QED BY <2>4, <3>2
  <2>6. CASE Claims(t, r, s)
    BY <2>4, <2>6 DEF Claims
  <2>7. CASE ~Adopts(t, r, s) /\ ~Reconciles(t, r, s) /\ ~Claims(t, r, s)
    <3>1. r.state \in RanStates \/ r.failure = "delivery"
      <4>. HIDE DEF r, s
      <4>. QED BY <2>2, <2>3, <2>7
           DEF Moves, Rests, Submits, Queues, Drops, Unblocks, Releases, Works, Succeeds,
               Pauses, Retries, Parks, Fails, Stops, Concludes, Reviews, QueueStates,
               ExecutionStates, RanStates, Active
    <3>. QED BY <2>2, <2>4, <3>1
  <2>. QED BY <2>5, <2>6, <2>7
<1>5. CompletedIsMerged'
  <2>1. SUFFICES ASSUME NEW t \in RequiresPr, task'[t].state = "COMPLETED"
                 PROVE  "merged" \in task'[t].evidence
    BY DEF CompletedIsMerged
  <2>. DEFINE r == task[t]
              s == task'[t]
  <2>2. /\ t \in Tasks /\ Moves(t, r, s) /\ s.state = "COMPLETED"
        /\ r.state = "COMPLETED" => "merged" \in r.evidence
    BY <1>1, <2>1, RowAssumption DEF AllMove, DependencyInvariant, CompletedIsMerged
  <2>3. Rests(r, s) \/ Reviews(t, r, s)
    <3>. HIDE DEF r, s
    <3>. QED BY <2>1, <2>2
         DEF Moves, Submits, Queues, Drops, Claims, Unblocks, Releases, Works, Succeeds,
             Pauses, Retries, Parks, Fails, Stops, Reconciles, Concludes, Adopts,
             QueueStates, ExecutionStates
  <2>. QED BY <2>2, <2>3 DEF Rests, Remains, Reviews
<1>6. ClaimedRestsOnDelivered'
  <2>1. SUFFICES ASSUME NEW t \in Tasks, task'[t].gen > 0, NEW d \in Deps[t]
                 PROVE  DeliveredFor(d)'
    BY DEF ClaimedRestsOnDelivered
  <2>. DEFINE r == task[t]
              s == task'[t]
  <2>2. d \in Tasks
    BY QueueAssumption
  <2>3. DeliveredFor(d)
    <3>1. CASE r.gen > 0
      BY <3>1 DEF DependencyInvariant, ClaimedRestsOnDelivered
    <3>2. CASE Claims(t, r, s)
      BY <2>2, <3>2 DEF Claims, Satisfied, DeliveredFor, DependencyInvariant, CompletedIsMerged
    <3>3. CASE ~Claims(t, r, s) /\ r.gen = 0
      <4>1. Moves(t, r, s) /\ s.gen > 0 /\ s.gen # r.gen
        BY <1>1, <2>1, <3>3 DEF AllMove
      <4>2. r.state \in RanStates
        <5>. HIDE DEF r, s
        <5>. QED BY <3>3, <4>1
             DEF Moves, Rests, Submits, Queues, Drops, Claims, Unblocks, Releases, Works,
                 Succeeds, Pauses, Retries, Parks, Fails, Stops, Reconciles, Concludes,
                 Adopts, Reviews, Remains, ExecutionStates, RanStates, Active
      <4>3. r.gen > 0
        BY <4>2 DEF DependencyInvariant, RanWasClaimed
      <4>. QED BY <3>3, <4>3
    <3>. QED BY <1>1, <3>1, <3>2, <3>3
  <2>. QED BY <1>3, <2>2, <2>3
<1>7. CommandsOnClaimed'
  <2>1. SUFFICES ASSUME NEW o \in Operators,
                        session'[o].phase \in CommandPhases \ {"unblocking"}
                 PROVE  task'[session'[o].task].gen > 0
    BY DEF CommandsOnClaimed
  <2>2. CASE session'[o] = session[o]
    <3>1. session[o].task \in Tasks
      BY <2>1, <2>2, Typed DEF IInv, Actors, SessionOK, CommandPhases
    <3>2. task[session[o].task].gen > 0
      BY <2>1, <2>2 DEF DependencyInvariant, CommandsOnClaimed
    <3>. DEFINE u == session[o].task
    <3>3. task'[u].gen >= task[u].gen /\ task[u].gen \in Nat /\ task'[u].gen \in Nat
      BY <1>1, <1>2, <3>1
    <3>. QED BY <2>2, <3>2, <3>3
  <2>3. CASE session'[o] # session[o]
    <3>1. /\ UNCHANGED task /\ session'[o].task \in Tasks
          /\ task[session'[o].task].failure = "delivery"
      BY <2>1, <2>3, OperatorSessions
    <3>. QED BY <3>1 DEF DependencyInvariant, RanWasClaimed
  <2>. QED BY <2>2, <2>3
<1>. QED BY <1>4, <1>5, <1>6, <1>7, NumberedStep DEF DependencyInvariant

THEOREM DependencyInvariance == Spec => []DependencyInvariant
<1>1. Init => DependencyInvariant
  BY QueueAssumption, RowAssumption
  DEF Init, DependencyInvariant, RanWasClaimed, CompletedIsMerged, ClaimedRestsOnDelivered,
      CommandsOnClaimed, ClaimsNumbered, NewRow, Idle, RanStates, Active, CommandPhases,
      LeasedPhases, Actors
<1>2. IInv /\ IInv' /\ DependencyInvariant /\ [Next]_vars => DependencyInvariant'
  BY DependencyStep
<1>. QED BY <1>1, <1>2, Invariance, PTL DEF Spec

\* claim_next looks at the dependencies once, and what it saw stays true: running
\* and finished work rests on completed, and where code changes merged, work.
THEOREM Dependencies == Spec => []DependenciesDelivered
<1>1. DependencyInvariant => DependenciesDelivered
  BY DEF DependencyInvariant, DependenciesDelivered, RanWasClaimed, ClaimedRestsOnDelivered,
         DeliveredFor, RanStates
<1>. QED BY <1>1, DependencyInvariance, PTL

-----------------------------------------------------------------------------
(* Attempts and verdicts *)

\* The transition of an unblock compares the state alone, so a row that was blocked
\* again for another reason is requeued whatever that reason is.  What follows is
\* said of the behaviours in which the row is still parked for a dependency.
FreshUnblock ==
    \A o \in Operators :
        Unblock(o) /\ Row0(o).state = "BLOCKED" => Row0(o).error = "dependency"

UnblocksAreFresh == [][FreshUnblock]_vars

\* A row that may be claimed has an attempt left, or a debug release paid for it.
AttemptLeft(t, r) ==
    /\ r.attempts < MaxAttempts[t] + r.debug
    /\ r.attempts >= MaxAttempts[t] => r.debug < DebugBudget[t]

Accounted(t, r) ==
    /\ r.attempts <= MaxAttempts[t] + (IF DebugBudget[t] > 0 THEN DebugBudget[t] - 1 ELSE 0)
    /\ r.failure = "exhausted" => r.attempts >= MaxAttempts[t]
    /\ \/ r.state \in QueueStates
       \/ r.state = "BLOCKED" /\ r.error = "dependency"
       => AttemptLeft(t, r)
    /\ r.state \in ExecutionStates =>
         /\ r.attempts <= MaxAttempts[t] + r.debug
         /\ r.attempts > MaxAttempts[t] => r.debug < DebugBudget[t]
    /\ r.state = "BLOCKED" /\ r.error = "debug" =>
         /\ DebugBudget[t] > 0
         /\ r.attempts < MaxAttempts[t] + r.debug

\* The row is past execution, and nothing but a new delivery awaits it.
Settled(r) ==
    \/ r.state \in {"DELIVERY_RECONCILING", "PR_READY", "CEO_REVIEW", "COMPLETED", "CANCELLED"}
    \/ r.state = "FAILED_SAFE" /\ r.failure = "delivery"
    \/ r.state = "BLOCKED" /\ r.error \notin {"dependency", "debug"}

\* Reconciled work is settled or failed; so is what an operator saw failed.
ReconciledIsSettled ==
    \A t \in Tasks : task[t].recon > 0 => Settled(task[t]) \/ task[t].state = "FAILED_SAFE"

CommandsOnSettled ==
    \A o \in Operators : session[o].phase = "adoptingFailed" => Settled(task[session[o].task])

LifeInvariant ==
    /\ \A t \in Tasks : Accounted(t, task[t])
    /\ ReconciledIsSettled
    /\ CommandsOnSettled

\* The numbers of a row and of its budgets.
LEMMA Budgets ==
    ASSUME NEW t \in Tasks, NEW r \in Row
    PROVE  /\ r.attempts \in Nat /\ r.debug \in Nat /\ r.recon \in Nat
           /\ MaxAttempts[t] \in Nat /\ MaxAttempts[t] >= 1
           /\ DebugBudget[t] \in Nat
BY RowAssumption DEF Row, MaxReconciliations

LEMMA AccountedStep ==
    ASSUME NEW t \in Tasks, NEW r \in Row, NEW s \in Row, Accounted(t, r), Moves(t, r, s),
           Unblocks(t, r, s) => r.error = "dependency"
    PROVE  Accounted(t, s)
<1>. USE Budgets
<1>1. CASE Rests(r, s)
  BY <1>1 DEF Rests, Remains, Accounted, AttemptLeft
<1>2. CASE Submits(r, s)
  BY <1>2 DEF Submits, Accounted, AttemptLeft, QueueStates, ExecutionStates
<1>3. CASE Queues(r, s)
  BY <1>3 DEF Queues, Remains, Accounted, AttemptLeft, QueueStates, ExecutionStates
<1>4. CASE Drops(r, s)
  BY <1>4 DEF Drops, Remains, Accounted, QueueStates, ExecutionStates
<1>5. CASE Claims(t, r, s)
  BY <1>5 DEF Claims, Accounted, AttemptLeft, QueueStates, ExecutionStates
<1>6. CASE Unblocks(t, r, s) \/ Releases(t, r, s)
  BY <1>6 DEF Unblocks, Releases, Remains, Accounted, AttemptLeft, QueueStates, ExecutionStates
<1>7. CASE Works(r, s)
  BY <1>7 DEF Works, Accounted, AttemptLeft, QueueStates, ExecutionStates
<1>8. CASE Succeeds(t, r, s)
  BY <1>8 DEF Succeeds, Remains, Accounted, QueueStates, ExecutionStates
<1>9. CASE Pauses(r, s)
  BY <1>9 DEF Pauses, Accounted, AttemptLeft, QueueStates, ExecutionStates
<1>10. CASE Retries(t, r, s)
  BY <1>10 DEF Retries, Accounted, AttemptLeft, QueueStates, ExecutionStates
<1>11. CASE Parks(t, r, s)
  BY <1>11 DEF Parks, Accounted, AttemptLeft, QueueStates, ExecutionStates
<1>12. CASE Fails(t, r, s) \/ Stops(r, s)
  BY <1>12 DEF Fails, Stops, Remains, Accounted, QueueStates, ExecutionStates
<1>13. CASE Reconciles(t, r, s) \/ Concludes(r, s)
  BY <1>13 DEF Reconciles, Concludes, Accounted, QueueStates, ExecutionStates
<1>14. CASE Adopts(t, r, s) \/ Reviews(t, r, s)
  BY <1>14 DEF Adopts, Reviews, Accounted, QueueStates, ExecutionStates
<1>. QED BY <1>1, <1>2, <1>3, <1>4, <1>5, <1>6, <1>7, <1>8, <1>9, <1>10, <1>11, <1>12,
            <1>13, <1>14 DEF Moves

\* What is settled stays so.
LEMMA SettledStays ==
    ASSUME NEW t \in Tasks, NEW r \in Row, NEW s \in Row, Settled(r), Moves(t, r, s),
           Unblocks(t, r, s) => r.error = "dependency"
    PROVE  Settled(s)
BY DEF Moves, Rests, Submits, Queues, Drops, Claims, Unblocks, Releases, Works, Succeeds,
       Pauses, Retries, Parks, Fails, Stops, Reconciles, Concludes, Adopts, Reviews,
       QueueStates, ExecutionStates, Settled

\* The hypothesis, said of the rows.
LEMMA FreshRows ==
    ASSUME FreshUnblock, NEW t \in Tasks, Unblocks(t, task[t], task'[t])
    PROVE  task[t].error = "dependency"
BY DEF FreshUnblock, Unblocks, Row0

LEMMA LifeStep ==
    ASSUME IInv, IInv', LifeInvariant, [Next]_vars, [FreshUnblock]_vars
    PROVE  LifeInvariant'
<1>1. \A t \in Tasks : /\ Moves(t, task[t], task'[t])
                       /\ task[t] \in Row /\ task'[t] \in Row
  BY StepMoves, RowTyped DEF IInv, TypeOK, AllMove
<1>2. CASE UNCHANGED vars
  BY <1>2 DEF vars, LifeInvariant, ReconciledIsSettled, CommandsOnSettled
<1>3. CASE FreshUnblock
  <2>1. \A t \in Tasks : Unblocks(t, task[t], task'[t]) => task[t].error = "dependency"
    BY <1>3, FreshRows
  <2>2. \A t \in Tasks : Accounted(t, task'[t])
    BY <1>1, <2>1, AccountedStep DEF LifeInvariant
  <2>3. \A t \in Tasks : Settled(task[t]) => Settled(task'[t])
    BY <1>1, <2>1, SettledStays
  <2>4. ReconciledIsSettled'
    <3>1. SUFFICES ASSUME NEW t \in Tasks, task'[t].recon > 0
                   PROVE  Settled(task'[t]) \/ task'[t].state = "FAILED_SAFE"
      BY DEF ReconciledIsSettled
    <3>. DEFINE r == task[t]
                s == task'[t]
    <3>2. CASE r.recon > 0
      <4>1. CASE Settled(r)
        BY <2>3, <4>1
      <4>2. CASE r.state = "FAILED_SAFE"
        <5>1. Moves(t, r, s)
          BY <1>1
        <5>. HIDE DEF r, s
        <5>2. Settled(s) \/ s.state = "FAILED_SAFE"
          BY <4>2, <5>1
          DEF Moves, Rests, Submits, Queues, Drops, Claims, Unblocks, Releases, Works,
              Succeeds, Pauses, Retries, Parks, Fails, Stops, Reconciles, Concludes, Adopts,
              Reviews, QueueStates, ExecutionStates, Settled
        <5>. QED BY <5>2 DEF s
      <4>. QED BY <3>2, <4>1, <4>2 DEF LifeInvariant, ReconciledIsSettled
    <3>3. CASE ~(r.recon > 0)
      <4>1. Moves(t, r, s) /\ s.recon # r.recon
        BY <1>1, <3>1, <3>3
      <4>2. r.recon \in Nat /\ s.recon > 0
        BY <1>1, <3>1, Budgets
      <4>. HIDE DEF r, s
      <4>3. Settled(s)
        BY <4>1, <4>2, <3>3
        DEF Moves, Rests, Submits, Queues, Drops, Claims, Unblocks, Releases, Works,
            Succeeds, Pauses, Retries, Parks, Fails, Stops, Reconciles, Concludes, Adopts,
            Reviews, Remains, Settled
      <4>. QED BY <4>3 DEF s
    <3>. QED BY <3>2, <3>3
  <2>5. CommandsOnSettled'
    <3>1. SUFFICES ASSUME NEW o \in Operators, session'[o].phase = "adoptingFailed"
                   PROVE  Settled(task'[session'[o].task])
      BY DEF CommandsOnSettled
    <3>2. "adoptingFailed" \in CommandPhases /\ "adoptingFailed" # "unblocking"
      BY DEF CommandPhases
    <3>3. CASE session'[o] = session[o]
      <4>1. session[o].task \in Tasks
        BY <3>1, <3>3, Typed DEF IInv, Actors, SessionOK
      <4>2. Settled(task[session[o].task])
        BY <3>1, <3>3 DEF LifeInvariant, CommandsOnSettled
      <4>. QED BY <2>3, <3>3, <4>1, <4>2
    <3>4. CASE session'[o] # session[o]
      <4>1. /\ UNCHANGED task
            /\ task[session'[o].task].failure = "delivery"
            /\ task[session'[o].task].state = "FAILED_SAFE"
        BY <3>1, <3>2, <3>4, OperatorSessions
      <4>. QED BY <4>1 DEF Settled
    <3>. QED BY <3>3, <3>4
  <2>. QED BY <2>2, <2>4, <2>5 DEF LifeInvariant
<1>. QED BY <1>2, <1>3

LEMMA LifeStart ==
    ASSUME Init
    PROVE  LifeInvariant
<1>1. \A t \in Tasks : /\ MaxAttempts[t] \in Nat /\ DebugBudget[t] \in Nat
                       /\ MaxAttempts[t] >= 1
  BY RowAssumption
<1>2. \A t \in Tasks : task[t] = NewRow("ABSENT", "none")
  BY DEF Init
<1>3. \A t \in Tasks : Accounted(t, task[t])
  BY <1>1, <1>2 DEF Accounted, NewRow, QueueStates, ExecutionStates
<1>4. ReconciledIsSettled /\ CommandsOnSettled
  BY <1>2 DEF Init, ReconciledIsSettled, CommandsOnSettled, NewRow, Idle, Actors
<1>. QED BY <1>3, <1>4 DEF LifeInvariant

THEOREM LifeInvariance == Spec /\ UnblocksAreFresh => []LifeInvariant
<1>1. IInv /\ IInv' /\ LifeInvariant /\ [Next]_vars /\ [FreshUnblock]_vars => LifeInvariant'
  BY LifeStep
<1>. QED BY <1>1, LifeStart, Invariance, PTL DEF Spec, UnblocksAreFresh

\* Retries, quota refunds, crashes and debug releases together never grant more
\* attempts than max_attempts and the debug budget allow, and none too few.
THEOREM Attempts == Spec /\ UnblocksAreFresh => []AttemptsAccounted
<1>1. LifeInvariant => AttemptsAccounted
  BY DEF LifeInvariant, AttemptsAccounted, Accounted
<1>. QED BY <1>1, LifeInvariance, PTL

\* Work that entered delivery reconciliation is not executed again.
THEOREM NoRerun == Spec /\ UnblocksAreFresh => ReconciliationNeverReruns
<1>. DEFINE Reruns == \A t \in Tasks : task[t].recon > 0 =>
                        /\ task'[t].attempts = task[t].attempts
                        /\ task'[t].state \notin {"READY", "CLAIMED", "RUNNING", "VERIFYING"}
<1>1. IInv /\ IInv' /\ LifeInvariant /\ [Next]_vars /\ [FreshUnblock]_vars => [Reruns]_vars
  <2>1. SUFFICES ASSUME IInv, IInv', LifeInvariant, [Next]_vars, FreshUnblock,
                        NEW t \in Tasks, task[t].recon > 0
                 PROVE  /\ task'[t].attempts = task[t].attempts
                        /\ task'[t].state \notin {"READY", "CLAIMED", "RUNNING", "VERIFYING"}
    OBVIOUS
  <2>. DEFINE r == task[t]
              s == task'[t]
  <2>2. /\ Moves(t, r, s) /\ (Settled(r) \/ r.state = "FAILED_SAFE")
        /\ Unblocks(t, r, s) => r.error = "dependency"
    BY <2>1, StepMoves, FreshRows DEF AllMove, LifeInvariant, ReconciledIsSettled
  <2>. HIDE DEF r, s
  <2>3. /\ s.attempts = r.attempts
        /\ s.state \notin {"READY", "CLAIMED", "RUNNING", "VERIFYING"}
    BY <2>2
    DEF Moves, Rests, Submits, Queues, Drops, Claims, Unblocks, Releases, Works, Succeeds,
        Pauses, Retries, Parks, Fails, Stops, Reconciles, Concludes, Adopts, Reviews, Remains,
        QueueStates, ExecutionStates, Settled
  <2>. QED BY <2>3 DEF r, s
<1>. QED BY <1>1, LifeInvariance, Invariance, PTL
     DEF Spec, UnblocksAreFresh, ReconciliationNeverReruns

\* Failed and cancelled work stays so, unless it failed in delivery: a person who
\* adopts a delivery late finds the row where the delivery left it.
THEOREM Verdicts == Spec /\ UnblocksAreFresh => VerdictsFinal
<1>. DEFINE Final == \A t \in Tasks :
                       \/ task[t].state = "CANCELLED"
                       \/ task[t].state = "FAILED_SAFE" /\ task[t].failure # "delivery"
                       => task'[t].state = task[t].state
<1>1. IInv /\ LifeInvariant /\ [Next]_vars => Final
  <2>1. SUFFICES ASSUME IInv, LifeInvariant, [Next]_vars, NEW t \in Tasks,
                        \/ task[t].state = "CANCELLED"
                        \/ task[t].state = "FAILED_SAFE" /\ task[t].failure # "delivery"
                 PROVE  task'[t].state = task[t].state
    OBVIOUS
  <2>. DEFINE r == task[t]
              s == task'[t]
  <2>2. Moves(t, r, s)
    BY <2>1, StepMoves DEF AllMove
  <2>3. ~Adopts(t, r, s)
    <3>1. SUFFICES ASSUME NEW o \in Operators, ReconcileDelivery(o), session[o].task = t,
                          r.state = StateRead(session[o].phase)
                   PROVE  FALSE
      BY DEF Adopts
    <3>2. session[o].phase = "adoptingFailed"
      BY <2>1, <3>1 DEF ReconcileDelivery, StateRead
    <3>3. Settled(r)
      BY <3>1, <3>2, <2>1 DEF LifeInvariant, CommandsOnSettled
    <3>4. r.state = "FAILED_SAFE" /\ r.failure # "delivery"
      BY <2>1, <3>1, <3>2 DEF StateRead
    <3>. HIDE DEF r
    <3>. QED BY <3>3, <3>4 DEF Settled
  <2>4. \/ r.state = "CANCELLED"
        \/ r.state = "FAILED_SAFE" /\ r.failure # "delivery"
    BY <2>1
  <2>. HIDE DEF r, s
  <2>5. s.state = r.state
    BY <2>2, <2>3, <2>4
    DEF Moves, Rests, Submits, Queues, Drops, Claims, Unblocks, Releases, Works, Succeeds,
        Pauses, Retries, Parks, Fails, Stops, Reconciles, Concludes, Reviews,
        QueueStates, ExecutionStates
  <2>. QED BY <2>5 DEF r, s
<1>. QED BY <1>1, LifeInvariance, Invariance, PTL DEF Spec, VerdictsFinal

-----------------------------------------------------------------------------
(* What is presented for review *)

\* reconcile_delivery replaces the evidence of a row by that of the pull request
\* a person points at; the behaviours without it are the ones meant here.
NoAdoption == [][\A o \in Operators : ~ReconcileDelivery(o)]_vars

\* A pull request is opened after everything it shows, and stays backed by it.
Backed(t, r) ==
    /\ "pr" \in r.evidence => {"commit", "verified", "remote"} \subseteq r.evidence
    /\ r.state \in {"PR_READY", "CEO_REVIEW", "COMPLETED"} /\ t \in RequiresPr =>
         Deliverable \subseteq r.evidence
    /\ r.state = "COMPLETED" /\ t \in RequiresPr => "merged" \in r.evidence

ReviewInvariant == \A t \in Tasks : Backed(t, task[t])

LEMMA BackedStep ==
    ASSUME NEW t \in Tasks, NEW r \in Row, NEW s \in Row, Backed(t, r), Moves(t, r, s),
           ~Adopts(t, r, s)
    PROVE  Backed(t, s)
<1>1. CASE Rests(r, s) \/ Submits(r, s) \/ Queues(r, s) \/ Drops(r, s)
  BY <1>1 DEF Rests, Submits, Queues, Drops, Remains, Backed, QueueStates
<1>2. CASE Claims(t, r, s) \/ Unblocks(t, r, s) \/ Releases(t, r, s)
  BY <1>2 DEF Claims, Unblocks, Releases, Remains, Backed
<1>3. CASE Works(r, s)
  <2>1. s.state \notin {"PR_READY", "CEO_REVIEW", "COMPLETED"}
    BY <1>3 DEF Works, ExecutionStates
  <2>2. "pr" \in s.evidence => {"commit", "verified", "remote"} \subseteq s.evidence
    BY <1>3 DEF Works, Backed
  <2>. QED BY <2>1, <2>2 DEF Backed
<1>4. CASE Succeeds(t, r, s)
  BY <1>4 DEF Succeeds, Required, Remains, Backed
<1>5. CASE Pauses(r, s)
  BY <1>5 DEF Pauses, Backed
<1>6. CASE Retries(t, r, s) \/ Parks(t, r, s) \/ Fails(t, r, s)
  BY <1>6 DEF Retries, Parks, Fails, Backed
<1>7. CASE Stops(r, s)
  BY <1>7 DEF Stops, Remains, Backed, Deliverable
<1>8. CASE Reconciles(t, r, s)
  BY <1>8 DEF Reconciles, Backed
<1>9. CASE Concludes(r, s)
  BY <1>9 DEF Concludes, Backed, Deliverable
<1>10. CASE Reviews(t, r, s)
  BY <1>10 DEF Reviews, Backed, Deliverable
<1>. QED BY <1>1, <1>2, <1>3, <1>4, <1>5, <1>6, <1>7, <1>8, <1>9, <1>10 DEF Moves

\* A code-changing task is presented for review only with a commit, a passing
\* verification, a push and a pull request, and complete only when merged.
THEOREM Reviewable == Spec /\ NoAdoption => []ReviewableIsDelivered
<1>1. Init => ReviewInvariant
  BY DEF Init, ReviewInvariant, Backed, NewRow
<1>2. ASSUME IInv, IInv', ReviewInvariant, [Next]_vars,
             [\A o \in Operators : ~ReconcileDelivery(o)]_vars
      PROVE  ReviewInvariant'
  <2>1. \A t \in Tasks : /\ Moves(t, task[t], task'[t])
                         /\ task[t] \in Row /\ task'[t] \in Row
    BY <1>2, StepMoves, RowTyped DEF IInv, TypeOK, AllMove
  <2>2. CASE UNCHANGED vars
    BY <1>2, <2>2 DEF vars, ReviewInvariant
  <2>3. CASE \A o \in Operators : ~ReconcileDelivery(o)
    <3>1. \A t \in Tasks : ~Adopts(t, task[t], task'[t])
      BY <2>3 DEF Adopts
    <3>. QED BY <1>2, <2>1, <3>1, BackedStep DEF ReviewInvariant
  <2>. QED BY <1>2, <2>2, <2>3
<1>3. ReviewInvariant => ReviewableIsDelivered
  BY RowAssumption DEF ReviewInvariant, Backed, ReviewableIsDelivered
<1>. QED BY <1>1, <1>2, <1>3, Invariance, PTL DEF Spec, NoAdoption

-----------------------------------------------------------------------------
(* Scheduling *)

\* What counts against a builder's capacity, and the leased part of it.
Running(b) == {t \in Tasks : BuilderOf[t] = b /\ task[t].state \in Active}

LeasedOf(b) == {t \in Leased : BuilderOf[t] = b}

\* The scan sees the running work of the table.
LEMMA ScanSeesActive ==
    ASSUME IInv, NEW t \in Tasks
    PROVE  /\ QuotaResumed[t].state \in Active <=> task[t].state \in Active
           /\ task[t].state = "READY" => QuotaResumed[t] = task[t]
           /\ task[t].state = "COMPLETED" => QuotaResumed[t] = task[t]
<1>1. task[t] \in Row
  BY RowTyped DEF IInv
<1>2. Resumed(task[t]).state = "READY"
  BY <1>1 DEF Resumed, Unleased, Row
<1>. QED BY <1>2 DEF QuotaResumed, Active

\* A lease is granted by a claim, to one task at a time.
LEMMA NewlyLeased ==
    ASSUME IInv, [Next]_vars, NEW t \in Tasks, task'[t].owner # None, task[t].owner = None
    PROVE  /\ \E w \in Workers : ClaimNext(w) /\ t \in Chosen(WorkerBuilder[w], QuotaResumed)
           /\ \A u \in Tasks \ {t} : task'[u].owner # None => task[u].owner # None
<1>1. /\ \A u \in Tasks : task[u] \in Row
      /\ \A v \in Workers : SessionOK(v, session[v])
  BY RowTyped, Typed DEF IInv, Actors
<1>2. ~(Reap \/ Tick)
  <2>1. CASE Reap
    <3>1. task'[t] = IF Expired(task[t]) THEN Reaped(t, task[t], task[t].pid \in procs[t])
                     ELSE task[t]
      BY <2>1 DEF Reap
    <3>. QED BY <3>1 DEF Expired
  <2>2. CASE Tick
    BY <1>1, <2>2 DEF Tick, Row
  <2>. QED BY <2>1, <2>2
<1>3. ~StaysOutside
  BY DEF StaysOutside, Aloof
<1>4. ASSUME NEW w \in Workers, WorksUnderLease(w)
      PROVE  FALSE
  <2>1. session[w].task \in Tasks /\ task[session[w].task].owner # None
    BY <1>4, FencedRow DEF WorksUnderLease, Row0
  <2>2. t # session[w].task
    BY <2>1
  <2>3. task'[t] = task[t]
    BY <1>4, <2>2, Typed DEF WorksUnderLease, Write, IInv
  <2>. QED BY <2>3
<1>5. PICK w \in Workers, u \in Tasks : TakesLease(w, u)
  BY <1>2, <1>3, <1>4, StepServes DEF Serves
<1>6. \A v \in Tasks \ {u} : task'[v].owner = task[v].owner
  BY <1>5 DEF TakesLease, Aloof
<1>7. t = u
  BY <1>6
<1>. QED BY <1>5, <1>6, <1>7 DEF TakesLease

\* Leased tasks that name a common resource never run together: the scan skips a
\* row whose locks a running task holds, in the transaction that claims.
THEOREM Locking == Spec => []LocksExclusive
<1>1. Init => LocksExclusive
  BY DEF Init, LocksExclusive, Leased, NewRow
<1>2. ASSUME IInv, LocksExclusive, [Next]_vars
      PROVE  LocksExclusive'
  <2>1. ASSUME NEW t \in Tasks, NEW u \in Tasks, t # u,
               task'[t].owner # None, task'[u].owner # None, task[t].owner = None
        PROVE  Locks[t] \cap Locks[u] = {}
    <3>1. PICK w \in Workers : t \in Chosen(WorkerBuilder[w], QuotaResumed)
      BY <1>2, <2>1, NewlyLeased
    <3>2. task[u].owner # None
      BY <1>2, <2>1, NewlyLeased
    <3>3. task[u].state \in Active
      BY <1>2, <3>2 DEF IInv, LeaseInvariant, LeaseConsistent
    <3>4. QuotaResumed[u].state \in Active
      BY <1>2, <3>3, ScanSeesActive
    <3>. QED BY <3>1, <3>4 DEF Chosen, Scanned
  <2>2. SUFFICES ASSUME NEW t \in Tasks, NEW u \in Tasks, t # u,
                        task'[t].owner # None, task'[u].owner # None
                 PROVE  Locks[t] \cap Locks[u] = {}
    BY DEF LocksExclusive, Leased
  <2>3. CASE task[t].owner = None
    BY <2>1, <2>2, <2>3
  <2>4. CASE task[u].owner = None
    <3>1. Locks[u] \cap Locks[t] = {}
      BY <2>1, <2>2, <2>4
    <3>. QED BY <3>1
  <2>5. CASE task[t].owner # None /\ task[u].owner # None
    BY <1>2, <2>2, <2>5 DEF LocksExclusive, Leased
  <2>. QED BY <2>3, <2>4, <2>5
<1>. QED BY <1>1, <1>2, Invariance, PTL DEF Spec

\* Only one process claims in a step.
LEMMA ClaimerIsOne ==
    ASSUME IInv, NEW v \in Workers, NEW w \in Workers, ClaimNext(v), ClaimNext(w)
    PROVE  v = w
<1>1. /\ session \in [Actors -> Sessions] /\ v \in Actors /\ w \in Actors
      /\ session[v].phase = "polling"
  BY Typed DEF IInv, Actors, ClaimNext, At
<1>2. session'[v].phase # "polling"
  BY <1>1 DEF ClaimNext, Leave, Idle
<1>3. v # w => session'[v] = session[v]
  BY <1>1 DEF ClaimNext, Leave
<1>. QED BY <1>1, <1>2, <1>3

\* Work begins to run one task at a time, when it is claimed or recovered.
LEMMA OneBegins ==
    ASSUME IInv, [Next]_vars, NEW t \in Tasks, NEW u \in Tasks,
           task'[t].state \in Active, task[t].state \notin Active,
           task'[u].state \in Active, task[u].state \notin Active
    PROVE  t = u
<1>1. ASSUME NEW v \in Tasks, task'[v].state \in Active, task[v].state \notin Active
      PROVE  \/ \E w \in Workers : ClaimNext(w) /\ v \in Chosen(WorkerBuilder[w], QuotaResumed)
             \/ \E a \in Actors : StartReconciliation(a)
  <2>. DEFINE r == task[v]
              s == task'[v]
  <2>1. Moves(v, r, s) /\ r.state \notin Active /\ s.state \in Active
    BY <1>1, StepMoves DEF AllMove
  <2>. HIDE DEF r, s
  <2>2. Claims(v, r, s) \/ Reconciles(v, r, s)
    BY <2>1
    DEF Moves, Rests, Submits, Queues, Drops, Unblocks, Releases, Works, Succeeds, Pauses,
        Retries, Parks, Fails, Stops, Concludes, Adopts, Reviews, QueueStates,
        ExecutionStates, Active
  <2>. QED BY <2>1, <2>2 DEF Claims, Reconciles, ExecutionStates, Active
<1>2. ASSUME NEW a \in Actors, StartReconciliation(a)
      PROVE  t = u
  <2>1. task' = task \/ \E row : Write(session[a].task, row)
    BY <1>2 DEF StartReconciliation, Proceed
  <2>2. \A v \in Tasks : v # session[a].task => task'[v] = task[v]
    BY <2>1, Typed DEF Write, IInv
  <2>. QED BY <2>2
<1>3. CASE ~\E a \in Actors : StartReconciliation(a)
  <2>1. PICK w \in Workers : ClaimNext(w) /\ t \in Chosen(WorkerBuilder[w], QuotaResumed)
    BY <1>1, <1>3
  <2>2. PICK v \in Workers : ClaimNext(v) /\ u \in Chosen(WorkerBuilder[v], QuotaResumed)
    BY <1>1, <1>3
  <2>3. v = w
    BY <2>1, <2>2, ClaimerIsOne
  <2>. QED BY <2>1, <2>2, <2>3, OneChosen
<1>. QED BY <1>2, <1>3

\* What is leased counts against the capacity, which is a number whatever the
\* table holds: only finitely many of a builder's tasks ever run.
CapacityInvariant ==
    \A b \in Builders :
        /\ IsFiniteSet(Running(b))
        /\ Cardinality(LeasedOf(b)) <= MaxConcurrency[b]

LEMMA CapacityStep ==
    ASSUME IInv, CapacityInvariant, [Next]_vars, NEW b \in Builders
    PROVE  /\ IsFiniteSet(Running(b)')
           /\ Cardinality(LeasedOf(b)') <= MaxConcurrency[b]
<1>. DEFINE R == Running(b)
            Q == Running(b)'
            L == LeasedOf(b)
            M == LeasedOf(b)'
<1>1. /\ IsFiniteSet(R) /\ Cardinality(L) <= MaxConcurrency[b] /\ MaxConcurrency[b] \in Nat
  BY QueueAssumption DEF CapacityInvariant
<1>2. L \subseteq R
  BY DEF LeasedOf, Leased, Running, IInv, LeaseInvariant, LeaseConsistent
<1>3. /\ IsFiniteSet(L) /\ Cardinality(L) <= Cardinality(R)
      /\ Cardinality(L) \in Nat /\ Cardinality(R) \in Nat
  <2>. HIDE DEF L, R
  <2>. QED BY <1>1, <1>2, FS_Subset, FS_CardinalityType
<1>4. IsFiniteSet(Q)
  <2>1. \E t : Q \subseteq R \cup {t}
    <3>1. CASE Q \subseteq R
      BY <3>1
    <3>2. CASE ~(Q \subseteq R)
      <4>1. PICK t \in Tasks : task'[t].state \in Active /\ task[t].state \notin Active
        BY <3>2 DEF Running
      <4>2. Q \subseteq R \cup {t}
        BY <4>1, OneBegins DEF Running
      <4>. QED BY <4>2
    <3>. QED BY <3>1, <3>2
  <2>. HIDE DEF Q, R
  <2>. QED BY <1>1, <2>1, FS_AddElement, FS_Subset
<1>5. CASE M \subseteq L
  <2>. HIDE DEF L, M
  <2>1. IsFiniteSet(M) /\ Cardinality(M) <= Cardinality(L)
    BY <1>3, <1>5, FS_Subset
  <2>2. Cardinality(M) \in Nat
    BY <2>1, FS_CardinalityType
  <2>3. Cardinality(M) <= MaxConcurrency[b]
    BY <1>1, <1>3, <2>1, <2>2
  <2>. QED BY <1>4, <2>3 DEF Q, M
<1>6. CASE ~(M \subseteq L)
  <2>1. PICK t \in Tasks : /\ BuilderOf[t] = b
                           /\ task'[t].owner # None /\ task[t].owner = None
    BY <1>6 DEF LeasedOf, Leased
  <2>2. PICK w \in Workers : ClaimNext(w) /\ t \in Chosen(WorkerBuilder[w], QuotaResumed)
    BY <2>1, NewlyLeased
  <2>3. WorkerBuilder[w] = b
    BY <2>1, <2>2 DEF Chosen, Scanned
  <2>4. M \subseteq L \cup {t} /\ t \notin L
    BY <2>1, NewlyLeased DEF LeasedOf, Leased
  <2>5. {u \in Tasks : BuilderOf[u] = b /\ QuotaResumed[u].state \in Active} = R
    BY ScanSeesActive DEF Running
  <2>6. ~(Cardinality(R) >= MaxConcurrency[b])
    BY <2>2, <2>3, <2>5 DEF ClaimNext, AtCapacity
  <2>. HIDE DEF R, L, M
  <2>7. IsFiniteSet(L \cup {t}) /\ Cardinality(L \cup {t}) = Cardinality(L) + 1
    BY <1>3, <2>4, FS_AddElement
  <2>8. IsFiniteSet(M) /\ Cardinality(M) <= Cardinality(L) + 1
    BY <2>4, <2>7, FS_Subset
  <2>9. Cardinality(M) \in Nat
    BY <2>8, FS_CardinalityType
  <2>10. Cardinality(M) <= MaxConcurrency[b]
    BY <1>1, <1>3, <2>6, <2>8, <2>9
  <2>. QED BY <1>4, <2>10 DEF Q, M
<1>. QED BY <1>5, <1>6

\* Counting against max_concurrency and claiming are one transaction: a builder
\* never holds more leases than that, however many of its processes claim, and
\* however many recoveries run without a lease.
THEOREM Capacity == Spec => []ConcurrencyBounded
<1>1. Init => CapacityInvariant
  <2>1. SUFFICES ASSUME Init, NEW b \in Builders
                 PROVE  /\ IsFiniteSet(Running(b))
                        /\ Cardinality(LeasedOf(b)) <= MaxConcurrency[b]
    BY DEF CapacityInvariant
  <2>2. Running(b) = {} /\ LeasedOf(b) = {}
    BY <2>1 DEF Init, Running, LeasedOf, Leased, NewRow, Active
  <2>3. IsFiniteSet({}) /\ Cardinality({}) = 0
    BY FS_EmptySet
  <2>. QED BY <2>2, <2>3, QueueAssumption
<1>2. IInv /\ CapacityInvariant /\ [Next]_vars => CapacityInvariant'
  BY CapacityStep DEF CapacityInvariant
<1>3. CapacityInvariant => ConcurrencyBounded
  BY DEF CapacityInvariant, ConcurrencyBounded, LeasedOf
<1>. QED BY <1>1, <1>2, <1>3, Invariance, PTL DEF Spec

\* What a builder claims is its most urgent claimable row: any more urgent one is
\* held back by the locks of running work.
THEOREM Urgency == Spec => ClaimsMostUrgent
<1>. DEFINE Urgent ==
              \A t, u \in Tasks :
                /\ task[t].state \notin Active /\ task'[t].state = "CLAIMED"
                /\ BuilderOf[u] = BuilderOf[t] /\ Rank[u] < Rank[t]
                /\ task[u].state = "READY" /\ task[u].wait = 0
                /\ Satisfied(u, task)
                => \E v \in Tasks : task[v].state \in Active /\ Locks[u] \cap Locks[v] # {}
<1>1. IInv /\ [Next]_vars => Urgent
  <2>1. SUFFICES ASSUME IInv, [Next]_vars, NEW t \in Tasks, NEW u \in Tasks,
                        task[t].state \notin Active, task'[t].state = "CLAIMED",
                        BuilderOf[u] = BuilderOf[t], Rank[u] < Rank[t],
                        task[u].state = "READY", task[u].wait = 0, Satisfied(u, task),
                        \A v \in Tasks : task[v].state \in Active => Locks[u] \cap Locks[v] = {}
                 PROVE  FALSE
    OBVIOUS
  <2>2. PICK w \in Workers : t \in Chosen(WorkerBuilder[w], QuotaResumed)
    <3>. DEFINE r == task[t]
                s == task'[t]
    <3>1. Moves(t, r, s) /\ r.state \notin Active /\ s.state = "CLAIMED"
      BY <2>1, StepMoves DEF AllMove
    <3>. HIDE DEF r, s
    <3>2. Claims(t, r, s)
      BY <3>1
      DEF Moves, Rests, Submits, Queues, Drops, Unblocks, Releases, Works, Succeeds, Pauses,
          Retries, Parks, Fails, Stops, Reconciles, Concludes, Adopts, Reviews, QueueStates,
          ExecutionStates, Active
    <3>. QED BY <3>2 DEF Claims
  <2>3. BuilderOf[t] = WorkerBuilder[w]
    BY <2>2 DEF Chosen, Scanned
  <2>4. u \in Scanned(WorkerBuilder[w], QuotaResumed)
    BY <2>1, <2>3, ScanSeesActive DEF Scanned
  <2>5. Satisfied(u, QuotaResumed)
    <3>1. \A d \in Deps[u] : d \in Tasks
      BY QueueAssumption
    <3>. QED BY <2>1, <3>1, ScanSeesActive DEF Satisfied
  <2>. QED BY <2>1, <2>2, <2>4, <2>5 DEF Chosen
<1>. QED BY <1>1, Invariance, PTL DEF Spec, ClaimsMostUrgent

=============================================================================
