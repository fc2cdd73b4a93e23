-------------------------- MODULE TaskQueueProofs --------------------------
(***************************************************************************)
(* Theorems about the queue for every set of tasks, workers and operators, *)
(* every attempt budget and every delay.                                   *)
(*                                                                         *)
(* The first part says what each transaction does to the lease columns of  *)
(* the row it writes.  All but three kinds of step keep the lease of every *)
(* row or end it, and take no session into a phase that needs a new one;   *)
(* the claim, the change of state under the fence and the entry into       *)
(* reconciliation have a lemma of their own.                               *)
(***************************************************************************)
EXTENDS TaskQueueProperties, TLAPS

\* The states a submitted row may be in without a lease.
FreeStates == States \ {"ABSENT", "CLAIMED", "RUNNING", "VERIFYING"}

\* The lease is as it was.
Kept(r, s) ==
    /\ s \in Row
    /\ s.owner = r.owner
    /\ s.gen = r.gen
    /\ s.state = r.state

\* There is no lease afterwards, and no state that needs one.
Freed(r, s) ==
    /\ s \in Row
    /\ s.owner = None
    /\ s.gen >= r.gen
    /\ s.state \in FreeStates

-----------------------------------------------------------------------------
(* Rows *)

\* The words the transactions write are in the sets the columns range over.
LEMMA Words ==
    /\ "none" \in Failures /\ "delivery" \in Failures /\ "debug_budget" \in Failures
    /\ "exhausted" \in Failures /\ "quota" \in Failures /\ "other" \in Failures
    /\ "none" \in Errors /\ "dependency" \in Errors /\ "debug" \in Errors
    /\ "policy" \in Errors /\ "other" \in Errors
    /\ "ABSENT" \in States /\ "BACKLOG" \in FreeStates /\ "READY" \in FreeStates
    /\ "WAITING_DEPENDENCY" \in FreeStates /\ "PAUSED_QUOTA" \in FreeStates
    /\ "DELIVERY_RECONCILING" \in FreeStates /\ "PR_READY" \in FreeStates
    /\ "CEO_REVIEW" \in FreeStates /\ "BLOCKED" \in FreeStates
    /\ "FAILED_SAFE" \in FreeStates /\ "COMPLETED" \in FreeStates
    /\ "CANCELLED" \in FreeStates
    /\ "CLAIMED" \in States /\ "RUNNING" \in States /\ "VERIFYING" \in States
    /\ FreeStates \subseteq States
BY DEF Failures, Errors, States, FreeStates

\* Only the columns of a lease matter to Freed.
LEMMA FreedBy ==
    ASSUME NEW r \in Row, NEW u \in Row, u.owner = None, u.gen >= r.gen,
           NEW s \in FreeStates, NEW f \in Failures, NEW e \in Errors,
           NEW n \in Nat, NEW m \in Nat
    PROVE  /\ Freed(r, [u EXCEPT !.state = s])
           /\ Freed(r, [u EXCEPT !.state = s, !.wait = n])
           /\ Freed(r, [u EXCEPT !.state = s, !.error = e])
           /\ Freed(r, [u EXCEPT !.state = s, !.failure = f])
           /\ Freed(r, [u EXCEPT !.state = s, !.wait = n, !.failure = f])
           /\ Freed(r, [u EXCEPT !.state = s, !.wait = n, !.error = e])
           /\ Freed(r, [u EXCEPT !.state = s, !.error = e, !.failure = f])
           /\ Freed(r, [u EXCEPT !.state = s, !.failure = f, !.error = e])
           /\ Freed(r, [u EXCEPT !.state = s, !.wait = n, !.error = e, !.failure = f])
           /\ Freed(r, [u EXCEPT !.state = s, !.error = e, !.wait = n, !.failure = f])
           /\ Freed(r, [u EXCEPT !.state = s, !.failure = f, !.error = e, !.debug = n])
           /\ Freed(r, [u EXCEPT !.state = s, !.wait = n, !.attempts = m,
                                 !.error = e, !.failure = f])
<1>1. s \in States
  BY DEF FreeStates
<1>2. Freed(r, [u EXCEPT !.state = s])
  BY <1>1 DEF Freed, Row
<1>3. Freed(r, [u EXCEPT !.state = s, !.error = e])
  BY <1>1 DEF Freed, Row
<1>4. Freed(r, [u EXCEPT !.state = s, !.failure = f])
  BY <1>1 DEF Freed, Row
<1>5. Freed(r, [u EXCEPT !.state = s, !.wait = n, !.failure = f])
  BY <1>1 DEF Freed, Row
<1>6. Freed(r, [u EXCEPT !.state = s, !.wait = n, !.error = e])
  BY <1>1 DEF Freed, Row
<1>7. Freed(r, [u EXCEPT !.state = s, !.error = e, !.failure = f])
  BY <1>1 DEF Freed, Row
<1>8. Freed(r, [u EXCEPT !.state = s, !.failure = f, !.error = e])
  BY <1>1 DEF Freed, Row
<1>9. Freed(r, [u EXCEPT !.state = s, !.wait = n, !.error = e, !.failure = f])
  BY <1>1 DEF Freed, Row
<1>10. Freed(r, [u EXCEPT !.state = s, !.error = e, !.wait = n, !.failure = f])
  BY <1>1 DEF Freed, Row
<1>11. Freed(r, [u EXCEPT !.state = s, !.failure = f, !.error = e, !.debug = n])
  BY <1>1 DEF Freed, Row
<1>13. Freed(r, [u EXCEPT !.state = s, !.wait = n])
  BY <1>1 DEF Freed, Row
<1>12. Freed(r, [u EXCEPT !.state = s, !.wait = n, !.attempts = m,
                           !.error = e, !.failure = f])
  BY <1>1 DEF Freed, Row
<1>. QED BY <1>2, <1>3, <1>4, <1>5, <1>6, <1>7, <1>8, <1>9, <1>10, <1>11, <1>12, <1>13

\* The same for rows whose evidence changes as well.
LEMMA FreedWithEvidence ==
    ASSUME NEW r \in Row, NEW u \in Row, u.owner = None, u.gen >= r.gen,
           NEW s \in FreeStates, NEW f \in Failures, NEW e \in Errors,
           NEW v \in SUBSET Evidence
    PROVE  Freed(r, [u EXCEPT !.state = s, !.evidence = v, !.error = e, !.failure = f])
<1>1. s \in States
  BY DEF FreeStates
<1>. QED BY <1>1 DEF Freed, Row

\* A freshly submitted row has no lease.
LEMMA NewRowFreed ==
    ASSUME NEW s \in States, NEW e \in Errors
    PROVE  /\ NewRow(s, e) \in Row
           /\ NewRow(s, e).owner = None
           /\ NewRow(s, e).gen = 0
           /\ NewRow(s, e).state = s
<1>1. "ABSENT" \in States /\ "none" \in Failures
  BY Words
<1>2. 0 \in 0..MaxReconciliations
  BY DEF MaxReconciliations
<1>. QED BY <1>1, <1>2 DEF NewRow, Row

\* Unleased clears the lease and keeps the rest.
LEMMA UnleasedRow ==
    ASSUME NEW r \in Row
    PROVE  /\ Unleased(r) \in Row
           /\ Unleased(r).owner = None
           /\ Unleased(r).gen = r.gen
           /\ Unleased(r).gen >= r.gen
           /\ Unleased(r).evidence = r.evidence
<1>1. Unleased(r) \in Row
  BY DEF Unleased, Row
<1>2. Unleased(r).owner = None /\ Unleased(r).gen = r.gen /\ Unleased(r).evidence = r.evidence
  BY DEF Unleased, Row
<1>3. r.gen >= r.gen
  BY DEF Row
<1>. QED BY <1>1, <1>2, <1>3

\* A failure that is neither retried nor parked frees the row.
LEMMA FailedFreed ==
    ASSUME NEW t \in Tasks, NEW r \in Row, NEW f \in Failures
    PROVE  Freed(r, Failed(t, r, f))
<1>. DEFINE u == Unleased(r)
            n == IF DebugBudget[t] > 0 THEN u.debug + 1 ELSE u.debug
<1>1. u \in Row /\ u.owner = None /\ u.gen >= r.gen
  BY UnleasedRow
<1>2. n \in Nat
  BY <1>1, RowAssumption DEF Row
<1>. HIDE DEF u
<1>3. Freed(r, [u EXCEPT !.state = "FAILED_SAFE", !.failure = f, !.error = "other",
                         !.debug = n])
  BY <1>1, <1>2, FreedBy, Words
<1>. QED BY <1>3 DEF Failed, u

\* A successful report frees the row.
LEMMA SuccessFreed ==
    ASSUME NEW t \in Tasks, NEW r \in Row
    PROVE  Freed(r, CompletedSuccess(t, r))
<1>. DEFINE u == Unleased(r)
            s == IF t \in RequiresPr THEN "PR_READY" ELSE "COMPLETED"
<1>1. u \in Row /\ u.owner = None /\ u.gen >= r.gen
  BY UnleasedRow
<1>2. s \in FreeStates
  BY Words
<1>. HIDE DEF u, s
<1>3. Freed(r, [u EXCEPT !.state = s, !.error = "none", !.failure = "none"])
  BY <1>1, <1>2, FreedBy, Words
<1>. QED BY <1>3 DEF CompletedSuccess, u, s

\* A quota report frees the row.
LEMMA QuotaFreed ==
    ASSUME NEW r \in Row
    PROVE  Freed(r, CompletedQuota(r))
<1>. DEFINE u == Unleased(r)
            n == IF u.attempts > 0 THEN u.attempts - 1 ELSE 0
<1>1. u \in Row /\ u.owner = None /\ u.gen >= r.gen
  BY UnleasedRow
<1>. HIDE DEF u
<1>2. n \in Nat
  BY <1>1 DEF Row
<1>3. Freed(r, [u EXCEPT !.state = "PAUSED_QUOTA", !.wait = QuotaDelay, !.attempts = n,
                         !.error = "other", !.failure = "quota"])
  BY <1>1, <1>2, FreedBy, Words, RowAssumption
<1>4. Freed(r, [u EXCEPT !.state = "PR_READY", !.error = "none", !.failure = "quota"])
  BY <1>1, FreedBy, Words
<1>. QED BY <1>3, <1>4 DEF CompletedQuota, u

\* The report of a failed delivery frees the row.
LEMMA UndeliveredFreed ==
    ASSUME NEW t \in Tasks, NEW r \in Row
    PROVE  Freed(r, CompletedUndelivered(t, r))
<1>1. Freed(r, [Unleased(r) EXCEPT !.state = "BLOCKED", !.failure = "delivery",
                                   !.error = "other"])
  BY UnleasedRow, FreedBy, Words
<1>2. Freed(r, Failed(t, r, "delivery"))
  BY FailedFreed, Words
<1>. QED BY <1>1, <1>2 DEF CompletedUndelivered

\* Counting a failure leaves the lease columns alone.
LEMMA CountedKept ==
    ASSUME NEW u \in Row, NEW d \in Nat, NEW n \in Nat, NEW s \in Signatures,
           NEW f \in Failures, NEW e \in Errors
    PROVE  Kept(u, [u EXCEPT !.debug = d, !.sig = s, !.repeats = n,
                             !.failure = f, !.error = e])
BY DEF Kept, Row

\* The report of a retryable failure frees the row.
LEMMA RetryableFreed ==
    ASSUME NEW t \in Tasks, NEW r \in Row, NEW s \in Signatures
    PROVE  Freed(r, CompletedRetryable(t, r, s))
<1>. DEFINE repeats == IF r.sig = s THEN r.repeats + 1 ELSE 1
            debug   == r.debug + 1
            park    == /\ DebugBudget[t] > 0
                       /\ debug >= DebugBudget[t] \/ repeats >= RepeatLimit[t]
            counted == [Unleased(r) EXCEPT !.debug = debug, !.sig = s,
                                           !.repeats = repeats, !.failure = "other",
                                           !.error = "other"]
            delay   == IF RetryDelay > ParkDelay THEN RetryDelay ELSE ParkDelay
<1>1. counted \in Row /\ counted.owner = None /\ counted.gen >= r.gen
  <2>. DEFINE u == Unleased(r)
  <2>1. u \in Row /\ u.owner = None /\ u.gen >= r.gen
    BY UnleasedRow
  <2>2. debug \in Nat /\ repeats \in Nat
    BY DEF Row
  <2>. HIDE DEF debug, repeats
  <2>. HIDE DEF u, debug, repeats
  <2>3. Kept(u, [u EXCEPT !.debug = debug, !.sig = s, !.repeats = repeats,
                           !.failure = "other", !.error = "other"])
    BY <2>1, <2>2, CountedKept, Words
  <2>. QED BY <2>1, <2>3 DEF u, debug, repeats, Kept
<1>2. delay \in Nat
  BY RowAssumption
<1>. HIDE DEF counted, delay
<1>3. Freed(r, [counted EXCEPT !.state = "FAILED_SAFE"])
  BY <1>1, FreedBy, Words
<1>4. Freed(r, [counted EXCEPT !.state = "READY", !.wait = RetryDelay])
  BY <1>1, FreedBy, Words, RowAssumption
<1>5. Freed(r, [counted EXCEPT !.state = "BLOCKED", !.error = "debug", !.wait = delay,
                               !.failure = IF debug >= DebugBudget[t]
                                             THEN "debug_budget" ELSE @])
  <2>. DEFINE f == IF debug >= DebugBudget[t] THEN "debug_budget" ELSE counted.failure
  <2>1. counted.failure \in Failures
    BY <1>1 DEF Row
  <2>2. f \in Failures
    BY <2>1, Words
  <2>. HIDE DEF f
  <2>3. Freed(r, [counted EXCEPT !.state = "BLOCKED", !.error = "debug", !.wait = delay,
                                 !.failure = f])
    BY <1>1, <1>2, <2>2, FreedBy, Words
  <2>. QED BY <2>3 DEF f
<1>6. Freed(r, Failed(t, r, "exhausted"))
  BY FailedFreed, Words
<1>7. CASE s \in TimeoutSignatures /\ r.sig = s
  BY <1>3, <1>7 DEF CompletedRetryable, counted
<1>8. CASE ~(s \in TimeoutSignatures /\ r.sig = s) /\ r.attempts < MaxAttempts[t] /\ ~park
  BY <1>4, <1>8 DEF CompletedRetryable, counted
<1>9. CASE ~(s \in TimeoutSignatures /\ r.sig = s) /\ park
  BY <1>5, <1>9 DEF CompletedRetryable, counted, delay
<1>10. CASE /\ ~(s \in TimeoutSignatures /\ r.sig = s)
            /\ ~park /\ ~(r.attempts < MaxAttempts[t])
  BY <1>6, <1>10 DEF CompletedRetryable
<1>. QED BY <1>7, <1>8, <1>9, <1>10

\* The reaper frees the row and moves the generation on.
LEMMA ReapedFreed ==
    ASSUME NEW t \in Tasks, NEW r \in Row, NEW alive \in BOOLEAN
    PROVE  Freed(r, Reaped(t, r, alive))
<1>. DEFINE u == Unleased(r)
            fenced == [u EXCEPT !.gen = @ + 1, !.error = "other"]
<1>1. u \in Row /\ u.owner = None /\ u.gen >= r.gen
  BY UnleasedRow
<1>2. fenced \in Row /\ fenced.owner = None /\ fenced.gen >= r.gen
  <2>. HIDE DEF u
  <2>1. u.gen + 1 \in Nat /\ u.gen + 1 >= r.gen
    BY <1>1 DEF Row
  <2>2. \A n \in Nat, e \in Errors :
          /\ [u EXCEPT !.gen = n, !.error = e] \in Row
          /\ [u EXCEPT !.gen = n, !.error = e].owner = u.owner
          /\ [u EXCEPT !.gen = n, !.error = e].gen = n
    BY <1>1 DEF Row
  <2>. QED BY <1>1, <2>1, <2>2, Words
<1>. HIDE DEF fenced
<1>3. Freed(r, [fenced EXCEPT !.state = "BLOCKED", !.failure = "delivery"])
  BY <1>2, FreedBy, Words
<1>4. Freed(r, [fenced EXCEPT !.state = "FAILED_SAFE", !.failure = "other"])
  BY <1>2, FreedBy, Words
<1>5. Freed(r, [fenced EXCEPT !.state = "READY", !.wait = 0, !.failure = "other"])
  BY <1>2, FreedBy, Words
<1>6. Freed(r, [fenced EXCEPT !.state = "FAILED_SAFE", !.failure = "exhausted"])
  BY <1>2, FreedBy, Words
<1>. QED BY <1>3, <1>4, <1>5, <1>6 DEF Reaped, fenced

\* So does everything that ends a delivery, a reconciliation or a quota pause.
LEMMA DeliveryFreed ==
    ASSUME NEW r \in Row, NEW f \in Failures
    PROVE  /\ Freed(r, DeliveryStopped(r, f))
           /\ Freed(r, Recovered(r))
           /\ Freed(r, Unrecovered(r))
           /\ Freed(r, Adopted(r))
           /\ Freed(r, Resumed(r))
<1>. DEFINE u == Unleased(r)
<1>1. u \in Row /\ u.owner = None /\ u.gen >= r.gen
  BY UnleasedRow
<1>2. u.evidence \in SUBSET Evidence
  BY <1>1 DEF Row
<1>. HIDE DEF u
<1>3. Freed(r, DeliveryStopped(r, f))
  <2>. DEFINE s == IF "pr" \in r.evidence THEN "PR_READY" ELSE "BLOCKED"
  <2>1. s \in FreeStates
    BY Words
  <2>. HIDE DEF s
  <2>2. Freed(r, [u EXCEPT !.state = s, !.failure = f, !.error = "other"])
    BY <1>1, <2>1, FreedBy, Words
  <2>. QED BY <2>2 DEF DeliveryStopped, u, s
<1>4. Freed(r, Recovered(r))
  <2>1. u.evidence \cup Deliverable \in SUBSET Evidence
    BY <1>2 DEF Deliverable, Evidence
  <2>2. Freed(r, [u EXCEPT !.state = "PR_READY", !.evidence = u.evidence \cup Deliverable,
                           !.error = "none", !.failure = "none"])
    BY <1>1, <2>1, FreedWithEvidence, Words
  <2>. QED BY <2>2 DEF Recovered, u
<1>5. Freed(r, Unrecovered(r))
  <2>. DEFINE s == IF r.source = "FAILED_SAFE" THEN "FAILED_SAFE" ELSE "BLOCKED"
  <2>1. s \in FreeStates
    BY Words
  <2>. HIDE DEF s
  <2>2. Freed(r, [u EXCEPT !.state = s, !.error = "other", !.failure = "delivery"])
    BY <1>1, <2>1, FreedBy, Words
  <2>. QED BY <2>2 DEF Unrecovered, u, s
<1>6. Freed(r, Adopted(r))
  <2>. DEFINE v == (u.evidence \ {"verified"}) \cup {"commit", "remote", "pr"}
  <2>1. v \in SUBSET Evidence
    BY <1>2 DEF Evidence
  <2>. HIDE DEF v
  <2>2. Freed(r, [u EXCEPT !.state = "PR_READY", !.evidence = v,
                           !.error = "other", !.failure = "delivery"])
    BY <1>1, <2>1, FreedWithEvidence, Words
  <2>. QED BY <2>2 DEF Adopted, u, v
<1>7. Freed(r, Resumed(r))
  BY <1>1, FreedBy, Words DEF Resumed, u
<1>. QED BY <1>3, <1>4, <1>5, <1>6, <1>7

\* A row without a lease stays without one.
LEMMA FreeStaysFree ==
    ASSUME NEW r \in Row, r.owner = None, NEW s \in FreeStates, NEW e \in Errors
    PROVE  /\ Freed(r, [r EXCEPT !.state = s])
           /\ Freed(r, [r EXCEPT !.state = s, !.error = e])
           /\ Freed(r, Merged(r))
           /\ Freed(r, Released(r))
<1>1. r.gen >= r.gen
  BY DEF Row
<1>2. r.evidence \cup {"merged"} \in SUBSET Evidence
  BY DEF Row, Evidence
<1>3. Freed(r, Merged(r))
  <2>1. Freed(r, [r EXCEPT !.state = "COMPLETED", !.evidence = r.evidence \cup {"merged"},
                           !.error = "none", !.failure = "none"])
    BY <1>1, <1>2, FreedWithEvidence, Words
  <2>. QED BY <2>1 DEF Merged
<1>4. Freed(r, Released(r))
  <2>1. Freed(r, [r EXCEPT !.state = "READY", !.wait = 0, !.error = "none"])
    BY <1>1, FreedBy, Words
  <2>. QED BY <2>1 DEF Released
<1>5. Freed(r, [r EXCEPT !.state = s])
  BY <1>1, FreedBy, Words
<1>6. Freed(r, [r EXCEPT !.state = s, !.error = e])
  BY <1>1, FreedBy, Words
<1>. QED BY <1>3, <1>4, <1>5, <1>6

\* What a worker records while it keeps its lease, and what time does.
LEMMA RecordedKept ==
    ASSUME NEW r \in Row, NEW n \in Nat, NEW m \in Nat, NEW e \in Evidence,
           NEW k \in 0..MaxReconciliations
    PROVE  /\ Kept(r, r)
           /\ Kept(r, Recorded(r, e))
           /\ Kept(r, [r EXCEPT !.pid = n])
           /\ Kept(r, [r EXCEPT !.ttl = n])
           /\ Kept(r, [r EXCEPT !.recon = k])
           /\ Kept(r, [r EXCEPT !.ttl = n, !.wait = m])
<1>1. \A v \in SUBSET Evidence : Kept(r, [r EXCEPT !.evidence = v])
  BY DEF Kept, Row
<1>2. r.evidence \cup {e} \in SUBSET Evidence
  BY DEF Row
<1>3. Kept(r, Recorded(r, e))
  BY <1>1, <1>2 DEF Recorded
<1>. QED BY <1>3 DEF Kept, Row

\* The claim grants the lease under the next generation.
LEMMA ClaimedGrants ==
    ASSUME NEW r \in Row, NEW b \in Builders
    PROVE  /\ Claimed(r, b) \in Row
           /\ Claimed(r, b).owner = b
           /\ Claimed(r, b).gen = r.gen + 1
           /\ Claimed(r, b).state = "CLAIMED"
<1>. DEFINE c == Claimed(r, b)
<1>1. r.attempts + 1 \in Nat /\ r.gen + 1 \in Nat /\ LeaseTerm \in Nat
  BY RowAssumption DEF Row
<1>2. ASSUME NEW n \in Nat, NEW m \in Nat, NEW s \in States, NEW e \in Errors,
             NEW f \in Failures
      PROVE  [r EXCEPT !.state = s, !.attempts = m, !.gen = n, !.owner = b,
                       !.ttl = LeaseTerm, !.pid = 0, !.error = e, !.failure = f] \in Row
  BY <1>1 DEF Row
<1>3. c \in Row
  BY <1>1, <1>2, Words DEF Claimed
<1>4. c.owner = b /\ c.state = "CLAIMED"
  BY DEF Claimed, Row
<1>5. c.gen = r.gen + 1
  BY DEF Claimed, Row
<1>. QED BY <1>3, <1>4, <1>5

\* Entering reconciliation leaves the lease columns alone.
LEMMA ReconcilingKeepsLease ==
    ASSUME NEW r \in Row, r.recon < MaxReconciliations
    PROVE  /\ Reconciling(r) \in Row
           /\ Reconciling(r).owner = r.owner
           /\ Reconciling(r).gen = r.gen
           /\ Reconciling(r).state = "DELIVERY_RECONCILING"
<1>. DEFINE c == Reconciling(r)
<1>1. r.recon + 1 \in 0..MaxReconciliations /\ r.state \in States
  BY DEF Row, MaxReconciliations
<1>2. ASSUME NEW s \in States, NEW q \in States, NEW k \in 0..MaxReconciliations,
             NEW e \in Errors
      PROVE  [r EXCEPT !.state = s, !.recon = k, !.source = q, !.error = e] \in Row
  BY DEF Row
<1>3. c \in Row
  BY <1>1, <1>2, Words DEF Reconciling
<1>4. c.owner = r.owner /\ c.state = "DELIVERY_RECONCILING"
  BY DEF Reconciling, Row
<1>5. c.gen = r.gen
  BY DEF Reconciling, Row
<1>. QED BY <1>3, <1>4, <1>5
-----------------------------------------------------------------------------
(* The table and the sessions *)

\* The inductive invariant: the lease invariant needs the types only.
IInv == TypeOK /\ LeaseInvariant

SessionOK(a, s) ==
    /\ s \in Sessions
    /\ s.phase \notin {"idle", "polling"} => s.task \in Tasks
    /\ a \in Operators => s.phase \in {"idle", "reconciling"} \cup CommandPhases
    /\ a \in Workers => s.phase \notin CommandPhases

\* A step keeps or ends the lease of every row ...
RowsMove ==
    /\ task' \in [Tasks -> Row]
    /\ \A t \in Tasks : Kept(task[t], task'[t]) \/ Freed(task[t], task'[t])

\* The phase needs a state the row t has after the step, if it is leased then.
Fits(phase, t) == task'[t].owner # None => task'[t].state = StateIn(phase)

\* ... and a session that goes on goes on with the lease it had, in a phase that
\* needs the same state of the row, or the state the row has.
SessionMoves(a) ==
    a \in Workers /\ session'[a].phase \in LeasedPhases =>
        /\ session[a].phase \in LeasedPhases
        /\ session'[a].task = session[a].task
        /\ session'[a].gen = session[a].gen
        /\ \/ StateIn(session'[a].phase) = StateIn(session[a].phase)
           \/ Fits(session'[a].phase, session[a].task)

SessionsMove ==
    /\ session' \in [Actors -> Sessions]
    /\ \A a \in Actors : SessionOK(a, session'[a]) /\ SessionMoves(a)

\* The type invariant, one session at a time.
LEMMA Typed ==
    ASSUME TypeOK
    PROVE  /\ task \in [Tasks -> Row]
           /\ session \in [Actors -> Sessions]
           /\ procs \in [Tasks -> SUBSET Nat]
           /\ \A a \in Actors : SessionOK(a, session[a])
BY QueueAssumption DEF TypeOK, SessionOK, Actors

LEMMA RowTyped ==
    ASSUME TypeOK, NEW t \in Tasks
    PROVE  /\ task[t] \in Row
           /\ task[t].state \in States
           /\ task[t].gen \in Nat
           /\ task[t].recon \in 0..MaxReconciliations
           /\ task[t].evidence \in SUBSET Evidence
<1>1. task[t] \in Row
  BY DEF TypeOK
<1>. QED BY <1>1 DEF Row

\* Steps of this kind preserve the invariant.
LEMMA QuietStep ==
    ASSUME IInv, RowsMove, SessionsMove, paused' \in BOOLEAN,
           procs' \in [Tasks -> SUBSET Nat]
    PROVE  IInv'
<1>1. TypeOK'
  BY DEF TypeOK, RowsMove, SessionsMove, SessionOK, Actors
<1>2. \A w \in Workers, t \in Tasks : Holds(w, t)' =>
        /\ Holds(w, t)
        /\ session'[w].gen = session[w].gen
        /\ \/ StateIn(session'[w].phase) = StateIn(session[w].phase)
           \/ Fits(session'[w].phase, t)
  BY DEF SessionsMove, SessionMoves, Holds, Actors
<1>3. \A t \in Tasks : /\ task[t].gen \in Nat /\ task'[t].gen \in Nat
                       /\ task'[t].gen >= task[t].gen
  BY RowTyped, <1>1 DEF IInv, TypeOK, RowsMove, Kept, Freed, Row
<1>4. \A t \in Tasks : task'[t].owner # None =>
        /\ task'[t].owner = task[t].owner
        /\ task'[t].gen = task[t].gen
        /\ task'[t].state = task[t].state
  BY DEF RowsMove, Kept, Freed
<1>5. LeaseConsistent'
  BY DEF IInv, LeaseInvariant, LeaseConsistent, RowsMove, Kept, Freed, FreeStates
<1>6. GenerationsReached'
  <2>1. SUFFICES ASSUME NEW w \in Workers, NEW t \in Tasks, Holds(w, t)'
                 PROVE  session'[w].gen <= task'[t].gen
    BY DEF GenerationsReached
  <2>2. session[w].gen <= task[t].gen
    BY <1>2, <2>1 DEF IInv, LeaseInvariant, GenerationsReached
  <2>3. session[w].gen \in Nat
    BY Typed DEF IInv, Actors, Sessions
  <2>. QED BY <1>2, <1>3, <2>1, <2>2, <2>3
<1>7. DistinctGenerations'
  BY <1>2 DEF IInv, LeaseInvariant, DistinctGenerations
<1>8. CurrentSessionOwns'
  BY <1>2, <1>4 DEF IInv, LeaseInvariant, CurrentSessionOwns, Fits
<1>9. UnsubmittedUnleased'
  BY DEF IInv, LeaseInvariant, UnsubmittedUnleased, RowsMove, Kept, Freed, FreeStates
<1>. QED BY <1>1, <1>5, <1>6, <1>7, <1>8, <1>9 DEF IInv, LeaseInvariant

\* One row is written.
LEMMA WriteMoves ==
    ASSUME TypeOK, NEW t \in Tasks, NEW row, Write(t, row),
           Kept(task[t], row) \/ Freed(task[t], row)
    PROVE  RowsMove
<1>1. task' = [task EXCEPT ![t] = row] /\ row \in Row
  BY DEF Write, Kept, Freed
<1>2. task' \in [Tasks -> Row]
  BY <1>1 DEF TypeOK
<1>3. \A u \in Tasks : task'[u] = IF u = t THEN row ELSE task[u]
  BY <1>1 DEF TypeOK
<1>4. \A u \in Tasks : Kept(task[u], task[u])
  BY RowTyped DEF Kept
<1>. QED BY <1>2, <1>3, <1>4 DEF RowsMove

\* No row is written.
LEMMA SameTable ==
    ASSUME TypeOK, UNCHANGED task
    PROVE  RowsMove
<1>1. \A u \in Tasks : Kept(task[u], task[u])
  BY RowTyped DEF Kept
<1>. QED BY <1>1 DEF RowsMove, TypeOK

\* One session changes, within its lease or out of it.
LEMMA SetMoves ==
    ASSUME TypeOK, NEW a \in Actors, NEW s, SessionOK(a, s),
           session' = [session EXCEPT ![a] = s],
           a \in Workers /\ s.phase \in LeasedPhases =>
              /\ session[a].phase \in LeasedPhases
              /\ s.task = session[a].task
              /\ s.gen = session[a].gen
              /\ \/ StateIn(s.phase) = StateIn(session[a].phase)
                 \/ Fits(s.phase, session[a].task)
    PROVE  SessionsMove
<1>1. session' \in [Actors -> Sessions]
  BY Typed DEF SessionOK
<1>2. \A b \in Actors : session'[b] = IF b = a THEN s ELSE session[b]
  BY Typed
<1>3. \A b \in Actors : SessionOK(b, session'[b])
  BY <1>2, Typed
<1>4. \A b \in Actors : SessionMoves(b)
  BY <1>2 DEF SessionMoves
<1>. QED BY <1>1, <1>3, <1>4 DEF SessionsMove

\* No session changes.
LEMMA SameSessions ==
    ASSUME TypeOK, UNCHANGED session
    PROVE  SessionsMove
BY Typed DEF SessionsMove, SessionMoves

\* A session ends.
LEMMA LeaveMoves ==
    ASSUME TypeOK, NEW a \in Actors, Leave(a)
    PROVE  SessionsMove
<1>1. SessionOK(a, Idle) /\ Idle.phase \notin LeasedPhases
  BY DEF SessionOK, Idle, Sessions, Phases, LeasedPhases, CommandPhases
<1>. QED BY <1>1, SetMoves DEF Leave

\* A session changes its phase.
LEMMA GotoMoves ==
    ASSUME TypeOK, NEW a \in Actors, NEW phase \in Phases, Goto(a, phase),
           phase \notin {"idle", "polling"} => session[a].task \in Tasks,
           a \in Operators => phase \in {"idle", "reconciling"} \cup CommandPhases,
           a \in Workers => phase \notin CommandPhases,
           a \in Workers /\ phase \in LeasedPhases =>
              /\ session[a].phase \in LeasedPhases
              /\ \/ StateIn(phase) = StateIn(session[a].phase)
                 \/ Fits(phase, session[a].task)
    PROVE  SessionsMove
<1>. DEFINE s == [session[a] EXCEPT !.phase = phase]
<1>1. session[a] \in Sessions
  BY Typed
<1>2. /\ s \in Sessions /\ s.phase = phase
      /\ s.task = session[a].task /\ s.gen = session[a].gen
  BY <1>1 DEF Sessions
<1>3. session' = [session EXCEPT ![a] = s]
  BY DEF Goto
<1>. HIDE DEF s
<1>4. SessionOK(a, s)
  BY <1>2 DEF SessionOK
<1>. QED BY <1>2, <1>3, <1>4, SetMoves

\* What a session that passed the fence knows of its row.
LEMMA FencedRow ==
    ASSUME IInv, NEW w \in Workers, NEW S, Fenced(w, S),
           session[w].phase \in LeasedPhases
    PROVE  /\ w \in Actors
           /\ session[w].task \in Tasks
           /\ Holds(w, session[w].task)
           /\ Row0(w) \in Row
           /\ Row0(w).owner = WorkerBuilder[w]
           /\ Row0(w).owner # None
           /\ Row0(w).gen = session[w].gen
           /\ Row0(w).state \in S
<1>1. w \in Actors
  BY DEF Actors
<1>2. session[w].task \in Tasks
  BY <1>1, Typed DEF IInv, SessionOK, LeasedPhases
<1>3. WorkerBuilder[w] # None
  BY RowAssumption, QueueAssumption
<1>. QED BY <1>1, <1>2, <1>3, RowTyped DEF IInv, Fenced, LeaseHeld, Row0, Holds

\* The change of state under the fence: row and session change together.
LEMMA AdvanceStep ==
    ASSUME IInv, NEW w \in Workers, NEW S, Fenced(w, S),
           session[w].phase \in LeasedPhases,
           NEW phase \in LeasedPhases, NEW row \in Row,
           row.owner = Row0(w).owner, row.gen = Row0(w).gen, row.state = StateIn(phase),
           Proceed(w, row, phase)
    PROVE  IInv'
<1>. DEFINE t == session[w].task
<1>1. /\ w \in Actors /\ t \in Tasks /\ Holds(w, t)
      /\ task[t].owner = WorkerBuilder[w] /\ task[t].owner # None
      /\ task[t].gen = session[w].gen
  BY FencedRow DEF Row0
<1>2. phase \in Phases /\ phase \notin {"idle", "polling"} \cup CommandPhases
  BY DEF LeasedPhases, Phases, CommandPhases
<1>3. StateIn(phase) \in Active
  BY DEF LeasedPhases, StateIn, Active
<1>4. /\ task' \in [Tasks -> Row]
      /\ \A u \in Tasks : task'[u] = IF u = t THEN row ELSE task[u]
  BY <1>1, Typed DEF IInv, Proceed, Write
<1>5. /\ session' \in [Actors -> Sessions]
      /\ \A a \in Actors : session'[a].task = session[a].task
                           /\ session'[a].gen = session[a].gen
      /\ session'[w].phase = phase
      /\ \A a \in Actors : a # w => session'[a] = session[a]
  BY <1>1, <1>2, Typed DEF IInv, Proceed, Goto, Sessions
<1>6. w \notin Operators
  BY QueueAssumption
<1>7. \A a \in Actors : SessionOK(a, session'[a])
  <2>1. SessionOK(w, session'[w])
    BY <1>1, <1>2, <1>5, <1>6 DEF SessionOK
  <2>. QED BY <2>1, <1>5, Typed DEF IInv
<1>8. TypeOK'
  BY <1>4, <1>5, <1>7 DEF IInv, TypeOK, Proceed, SessionOK, Actors
<1>9. LeaseConsistent'
  BY <1>1, <1>3, <1>4 DEF IInv, LeaseInvariant, LeaseConsistent, Row0
<1>10. \A v \in Workers, u \in Tasks : Holds(v, u)' => Holds(v, u)
  BY <1>5 DEF Holds, Actors
<1>11. \A u \in Tasks : task'[u].gen = task[u].gen /\ task'[u].owner = task[u].owner
  BY <1>1, <1>4 DEF Row0
<1>12. GenerationsReached'
  BY <1>5, <1>10, <1>11 DEF IInv, LeaseInvariant, GenerationsReached, Actors
<1>13. DistinctGenerations'
  BY <1>5, <1>10 DEF IInv, LeaseInvariant, DistinctGenerations, Actors
<1>14. CurrentSessionOwns'
  <2>1. SUFFICES ASSUME NEW v \in Workers, NEW u \in Tasks,
                        Holds(v, u)', session'[v].gen = task'[u].gen,
                        task'[u].owner # None
                 PROVE  /\ task'[u].owner = WorkerBuilder[v]
                        /\ task'[u].state = StateIn(session'[v].phase)
    BY DEF CurrentSessionOwns
  <2>2. /\ Holds(v, u) /\ session[v].gen = task[u].gen /\ task[u].owner # None
    BY <2>1, <1>5, <1>10, <1>11 DEF Actors
  <2>3. /\ task[u].owner = WorkerBuilder[v]
        /\ task[u].state = StateIn(session[v].phase)
    BY <2>2 DEF IInv, LeaseInvariant, CurrentSessionOwns
  <2>4. CASE v = w
    BY <2>2, <2>3, <2>4, <1>4, <1>5, <1>11 DEF Holds
  <2>5. CASE v # w
    <3>1. u # t
      BY <2>2, <2>5, <1>1 DEF IInv, LeaseInvariant, DistinctGenerations
    <3>. QED BY <3>1, <2>3, <2>5, <1>4, <1>5 DEF Actors
  <2>. QED BY <2>4, <2>5
<1>15. UnsubmittedUnleased'
  BY <1>1, <1>3, <1>4 DEF IInv, LeaseInvariant, UnsubmittedUnleased, Active
<1>. QED BY <1>8, <1>9, <1>12, <1>13, <1>14, <1>15 DEF IInv, LeaseInvariant

\* The claim: one session gets the new generation of a row.
LEMMA GrantStep ==
    ASSUME IInv, NEW w \in Workers, NEW t \in Tasks,
           task' \in [Tasks -> Row],
           \A u \in Tasks : \/ Kept(task[u], task'[u])
                            \/ Freed(task[u], task'[u])
                            \/ /\ task'[u].owner = WorkerBuilder[w]
                               /\ task'[u].gen = task[u].gen + 1
                               /\ task'[u].state = "CLAIMED",
           task'[t].owner = WorkerBuilder[w],
           task'[t].gen = task[t].gen + 1,
           task'[t].state = "CLAIMED",
           session' = [session EXCEPT ![w] = [phase |-> "claimed", task |-> t,
                                              gen |-> task[t].gen + 1]],
           UNCHANGED <<paused, procs>>
    PROVE  IInv'
<1>. DEFINE s == [phase |-> "claimed", task |-> t, gen |-> task[t].gen + 1]
<1>1. w \in Actors /\ w \notin Operators /\ WorkerBuilder[w] \in Builders
      /\ WorkerBuilder[w] # None
  BY QueueAssumption, RowAssumption DEF Actors
<1>2. \A u \in Tasks : task[u].gen \in Nat /\ task'[u].gen \in Nat
                       /\ task'[u].gen >= task[u].gen
  <2>1. \A u \in Tasks : task[u].gen \in Nat
    BY RowTyped DEF IInv
  <2>2. \A u \in Tasks : task'[u].gen \in Nat
    BY DEF Row
  <2>. QED BY <2>1, <2>2 DEF Kept, Freed
<1>3. SessionOK(w, s)
  BY <1>1, <1>2 DEF SessionOK, Sessions, Phases, CommandPhases
<1>4. /\ session' \in [Actors -> Sessions]
      /\ session'[w] = s
      /\ \A a \in Actors : a # w => session'[a] = session[a]
  BY <1>1, <1>3, Typed DEF IInv, SessionOK
<1>5. \A a \in Actors : SessionOK(a, session'[a])
  BY <1>3, <1>4, Typed DEF IInv
<1>6. TypeOK'
  BY <1>4, <1>5 DEF IInv, TypeOK, SessionOK, Actors
<1>7. LeaseConsistent'
  BY <1>1 DEF IInv, LeaseInvariant, LeaseConsistent, Kept, Freed, FreeStates, Active
<1>8. \A v \in Workers, u \in Tasks : v # w /\ Holds(v, u)' =>
        Holds(v, u) /\ session'[v] = session[v]
  BY <1>4 DEF Holds, Actors
<1>9. \A u \in Tasks : Holds(w, u)' => u = t
  BY <1>4 DEF Holds
<1>10. \A v \in Workers : session[v].gen \in Nat
  BY Typed DEF IInv, Actors, Sessions
<1>11. GenerationsReached'
  <2>1. SUFFICES ASSUME NEW v \in Workers, NEW u \in Tasks, Holds(v, u)'
                 PROVE  session'[v].gen <= task'[u].gen
    BY DEF GenerationsReached
  <2>2. CASE v = w
    BY <2>1, <2>2, <1>2, <1>4, <1>9
  <2>3. CASE v # w
    <3>1. session[v].gen <= task[u].gen
      BY <2>1, <2>3, <1>8 DEF IInv, LeaseInvariant, GenerationsReached
    <3>. QED BY <3>1, <2>1, <2>3, <1>2, <1>8, <1>10
  <2>. QED BY <2>2, <2>3
<1>12. \A v \in Workers : v # w /\ Holds(v, t)' => session'[v].gen < task[t].gen + 1
  <2>1. SUFFICES ASSUME NEW v \in Workers, v # w, Holds(v, t)'
                 PROVE  session'[v].gen < task[t].gen + 1
    OBVIOUS
  <2>2. session[v].gen <= task[t].gen
    BY <2>1, <1>8 DEF IInv, LeaseInvariant, GenerationsReached
  <2>. QED BY <2>1, <2>2, <1>2, <1>8, <1>10
<1>13. DistinctGenerations'
  <2>1. SUFFICES ASSUME NEW v \in Workers, NEW x \in Workers, NEW u \in Tasks,
                        v # x, Holds(v, u)', Holds(x, u)'
                 PROVE  session'[v].gen # session'[x].gen
    BY DEF DistinctGenerations
  <2>2. CASE v = w
    BY <2>1, <2>2, <1>2, <1>4, <1>9, <1>10, <1>8, <1>12
  <2>3. CASE x = w
    BY <2>1, <2>3, <1>2, <1>4, <1>9, <1>10, <1>8, <1>12
  <2>4. CASE v # w /\ x # w
    BY <2>1, <2>4, <1>8 DEF IInv, LeaseInvariant, DistinctGenerations
  <2>. QED BY <2>2, <2>3, <2>4
<1>14. CurrentSessionOwns'
  <2>1. SUFFICES ASSUME NEW v \in Workers, NEW u \in Tasks,
                        Holds(v, u)', session'[v].gen = task'[u].gen,
                        task'[u].owner # None
                 PROVE  /\ task'[u].owner = WorkerBuilder[v]
                        /\ task'[u].state = StateIn(session'[v].phase)
    BY DEF CurrentSessionOwns
  <2>2. CASE v = w
    BY <2>1, <2>2, <1>4, <1>9 DEF StateIn
  <2>3. CASE v # w
    <3>1. session[v].gen <= task[u].gen /\ Holds(v, u) /\ session'[v] = session[v]
      BY <2>1, <2>3, <1>8 DEF IInv, LeaseInvariant, GenerationsReached
    <3>2. task'[u].gen # task[u].gen + 1
      BY <3>1, <2>1, <1>2, <1>10
    <3>3. Kept(task[u], task'[u])
      BY <3>2, <2>1 DEF Freed
    <3>. QED BY <3>1, <3>3, <2>1 DEF IInv, LeaseInvariant, CurrentSessionOwns, Kept
  <2>. QED BY <2>2, <2>3
<1>15. UnsubmittedUnleased'
  BY DEF IInv, LeaseInvariant, UnsubmittedUnleased, Kept, Freed, FreeStates
<1>. QED BY <1>6, <1>7, <1>11, <1>13, <1>14, <1>15 DEF IInv, LeaseInvariant

-----------------------------------------------------------------------------
(* Transactions that touch one row *)

\* A transaction of the command line.
LEMMA WriteStep ==
    ASSUME IInv, NEW t \in Tasks, NEW row,
           Kept(task[t], row) \/ Freed(task[t], row),
           Write(t, row), UNCHANGED <<paused, session, procs>>
    PROVE  IInv'
BY QuietStep, WriteMoves, SameSessions DEF IInv, TypeOK

\* A transaction that ends a session.
LEMMA FinishStep ==
    ASSUME IInv, NEW a \in Actors, session[a].task \in Tasks, NEW row,
           Freed(Row0(a), row), Finish(a, row)
    PROVE  IInv'
<1>1. RowsMove
  BY WriteMoves DEF IInv, Finish, Row0
<1>2. SessionsMove
  BY LeaveMoves DEF IInv, Finish
<1>. QED BY <1>1, <1>2, QuietStep DEF IInv, TypeOK, Finish

\* A transaction of a worker that stays in its phase.
LEMMA RecordStep ==
    ASSUME IInv, NEW a \in Actors, session[a].task \in Tasks, NEW row, NEW phase \in Phases,
           Kept(Row0(a), row), Proceed(a, row, phase),
           SessionOK(a, session[a]),
           session[a].phase \in LeasedPhases,
           phase \in LeasedPhases,
           a \in Operators => phase = "reconciling",
           StateIn(phase) = StateIn(session[a].phase)
    PROVE  IInv'
<1>1. RowsMove
  BY WriteMoves DEF IInv, Proceed, Row0
<1>2. phase \notin CommandPhases
  BY DEF LeasedPhases, CommandPhases
<1>3. SessionsMove
  BY <1>2, GotoMoves DEF IInv, Proceed
<1>. QED BY <1>1, <1>3, QuietStep DEF IInv, TypeOK, Proceed

-----------------------------------------------------------------------------
(* Commands *)

LEMMA CommandPreserves ==
    ASSUME IInv, NEW t \in Tasks, Command(t)
    PROVE  IInv'
<1>. DEFINE r == task[t]
<1>1. r \in Row /\ r.gen \in Nat
  BY RowTyped DEF IInv
<1>2. r.state \notin Active => r.owner = None
  BY DEF IInv, LeaseInvariant, LeaseConsistent
<1>3. CASE Submit(t)
  <2>1. r.gen = 0
    BY <1>3 DEF Submit, IInv, LeaseInvariant, UnsubmittedUnleased
  <2>2. PICK s \in FreeStates, e \in Errors : Write(t, NewRow(s, e))
    BY <1>3, Words DEF Submit
  <2>3. Freed(r, NewRow(s, e))
    BY <2>1, NewRowFreed, Words DEF Freed
  <2>. QED BY <2>2, <2>3, <1>3, WriteStep DEF Submit
<1>4. CASE Approve(t)
  <2>1. r.owner = None
    BY <1>2, <1>4 DEF Approve, Active
  <2>2. Freed(r, [r EXCEPT !.state = "READY"])
    BY <2>1, <1>1, FreeStaysFree, Words
  <2>. QED BY <2>2, <1>4, WriteStep DEF Approve
<1>5. CASE Reject(t)
  <2>1. r.owner = None
    BY <1>2, <1>5 DEF Reject, Active
  <2>2. Freed(r, [r EXCEPT !.state = "FAILED_SAFE", !.error = "other"])
    BY <2>1, <1>1, FreeStaysFree, Words
  <2>. QED BY <2>2, <1>5, WriteStep DEF Reject
<1>6. CASE Cancel(t)
  <2>1. r.owner = None
    BY <1>2, <1>6 DEF Cancel
  <2>2. Freed(r, [r EXCEPT !.state = "CANCELLED", !.error = "other"])
    BY <2>1, <1>1, FreeStaysFree, Words
  <2>. QED BY <2>2, <1>6, WriteStep DEF Cancel
<1>7. CASE CeoReview(t)
  <2>1. r.owner = None
    BY <1>2, <1>7 DEF CeoReview, Active
  <2>2. Freed(r, [r EXCEPT !.state = "CEO_REVIEW"])
    BY <2>1, <1>1, FreeStaysFree, Words
  <2>. QED BY <2>2, <1>7, WriteStep DEF CeoReview
<1>8. CASE ReconcileMerged(t)
  <2>1. r.owner = None
    BY <1>2, <1>8 DEF ReconcileMerged, Active
  <2>2. Freed(r, Merged(r))
    BY <2>1, <1>1, FreeStaysFree, Words
  <2>. QED BY <2>2, <1>8, WriteStep DEF ReconcileMerged
<1>. QED BY <1>3, <1>4, <1>5, <1>6, <1>7, <1>8 DEF Command

LEMMA OperatePreserves ==
    ASSUME IInv, NEW o \in Operators, Operate(o)
    PROVE  IInv'
<1>1. o \in Actors /\ o \notin Workers /\ SessionOK(o, session[o])
  BY QueueAssumption, Typed DEF IInv, Actors
<1>2. ASSUME NEW t \in Tasks, NEW p \in CommandPhases,
             session' = [session EXCEPT ![o] = [phase |-> p, task |-> t, gen |-> 0]],
             UNCHANGED <<task, paused, procs>>
      PROVE  IInv'
  <2>. DEFINE s == [phase |-> p, task |-> t, gen |-> 0]
  <2>1. SessionOK(o, s)
    BY <1>1 DEF SessionOK, Sessions, Phases, CommandPhases
  <2>2. SessionsMove
    BY <2>1, <1>1, <1>2, SetMoves DEF IInv
  <2>3. RowsMove
    BY <1>2, SameTable DEF IInv
  <2>. QED BY <1>2, <2>2, <2>3, QuietStep DEF IInv, TypeOK
<1>3. ASSUME NEW t \in Tasks, UnblockRead(o, t) \/ ReadPreserved(o, t) \/ ReadDelivery(o, t)
      PROVE  IInv'
  <2>1. CASE UnblockRead(o, t)
    BY <1>2, <2>1 DEF UnblockRead, CommandPhases
  <2>2. CASE ReadPreserved(o, t)
    BY <1>2, <2>2 DEF ReadPreserved, CommandPhases
  <2>3. CASE ReadDelivery(o, t)
    <3>1. PICK p \in CommandPhases :
            session' = [session EXCEPT ![o] = [phase |-> p, task |-> t, gen |-> 0]]
      BY <2>3 DEF ReadDelivery, CommandPhases
    <3>. QED BY <1>2, <2>3, <3>1 DEF ReadDelivery
  <2>. QED BY <1>3, <2>1, <2>2, <2>3
<1>4. CASE Unblock(o)
  <2>1. session[o].task \in Tasks /\ Row0(o) \in Row
    BY <1>1, <1>4, RowTyped DEF Unblock, At, SessionOK, IInv, Row0
  <2>2. SessionsMove
    BY <1>1, <1>4, LeaveMoves DEF Unblock, IInv
  <2>3. RowsMove
    <3>1. CASE Row0(o).state = "BLOCKED"
      <4>1. Row0(o).owner = None
        BY <2>1, <3>1 DEF IInv, LeaseInvariant, LeaseConsistent, Row0, Active
      <4>2. Freed(Row0(o), [Row0(o) EXCEPT !.state = "READY"])
        BY <2>1, <4>1, FreeStaysFree, Words
      <4>3. Write(session[o].task, [Row0(o) EXCEPT !.state = "READY"])
        BY <1>4, <2>1, <3>1, Typed DEF Unblock, Write, Row0, IInv
      <4>. QED BY <2>1, <4>2, <4>3, WriteMoves DEF IInv, Row0
    <3>2. CASE Row0(o).state # "BLOCKED"
      BY <1>4, <3>2, SameTable DEF Unblock, IInv
    <3>. QED BY <3>1, <3>2
  <2>. QED BY <1>4, <2>2, <2>3, QuietStep DEF Unblock, IInv, TypeOK
<1>5. CASE ReconcileDelivery(o)
  <2>. DEFINE r == Row0(o)
  <2>1. session[o].task \in Tasks /\ r \in Row
    BY <1>1, <1>5, RowTyped DEF ReconcileDelivery, SessionOK, IInv, Row0
  <2>2. SessionsMove
    BY <1>1, <1>5, LeaveMoves DEF ReconcileDelivery, IInv
  <2>3. RowsMove
    <3>1. CASE r.state = StateRead(session[o].phase)
      <4>1. Freed(r, Adopted(r))
        BY <2>1, DeliveryFreed, Words
      <4>2. Write(session[o].task, Adopted(r))
        BY <1>5, <2>1, <3>1, Typed DEF ReconcileDelivery, Write, Row0, IInv
      <4>. QED BY <2>1, <4>1, <4>2, WriteMoves DEF IInv, Row0
    <3>2. CASE r.state # StateRead(session[o].phase)
      BY <1>5, <3>2, SameTable DEF ReconcileDelivery, IInv
    <3>. QED BY <3>1, <3>2
  <2>. QED BY <1>5, <2>2, <2>3, QuietStep DEF ReconcileDelivery, IInv, TypeOK
<1>. QED BY <1>3, <1>4, <1>5 DEF Operate

\* A recovery is started by the holder of the lease, or on a row without a lease;
\* or one under way is joined.
LEMMA StartPreserves ==
    ASSUME IInv, NEW a \in Actors, StartReconciliation(a)
    PROVE  IInv'
<1>. DEFINE r == Row0(a)
<1>1. /\ SessionOK(a, session[a]) /\ session[a].task \in Tasks /\ r \in Row
      /\ r.recon \in 0..MaxReconciliations /\ r.gen \in Nat
  BY Typed, RowTyped DEF StartReconciliation, SessionOK, IInv, Row0
<1>2. a \in Workers => session[a].phase \in LeasedPhases
  BY <1>1 DEF StartReconciliation, SessionOK, CommandPhases, LeasedPhases
<1>3. "reconciling" \in LeasedPhases /\ "reconciling" \in Phases
      /\ "reconciling" \notin CommandPhases
      /\ StateIn("reconciling") = "DELIVERY_RECONCILING"
  BY DEF LeasedPhases, Phases, CommandPhases, StateIn
<1>4. ASSUME Goto(a, "reconciling"), Fits("reconciling", session[a].task)
      PROVE  SessionsMove
  BY <1>1, <1>2, <1>3, <1>4, GotoMoves DEF IInv
<1>5. ASSUME MayStart(a), Proceed(a, Reconciling(r), "reconciling")
      PROVE  IInv'
  <2>1. r.recon < MaxReconciliations
    BY <1>5 DEF MayStart
  <2>2. CASE a \in Workers /\ Fenced(a, {"VERIFYING"})
    BY <2>1, <2>2, <1>1, <1>2, <1>3, <1>5, ReconcilingKeepsLease, AdvanceStep
  <2>3. CASE r.owner = None
    <3>1. Freed(r, Reconciling(r))
      BY <1>1, <2>1, <2>3, ReconcilingKeepsLease, Words DEF Freed
    <3>2. RowsMove
      BY <1>1, <1>5, <3>1, WriteMoves DEF Proceed, IInv, Row0
    <3>3. task'[session[a].task] = Reconciling(r)
      BY <1>1, <1>5, Typed DEF Proceed, Write, IInv
    <3>4. SessionsMove
      BY <1>4, <1>5, <3>1, <3>3 DEF Proceed, Fits, Freed
    <3>. QED BY <1>5, <3>2, <3>4, QuietStep DEF Proceed, IInv, TypeOK
  <2>. QED BY <1>5, <2>2, <2>3 DEF MayStart
<1>6. ASSUME r.state = "DELIVERY_RECONCILING", Goto(a, "reconciling"),
             UNCHANGED <<task, paused, procs>>
      PROVE  IInv'
  <2>1. SessionsMove
    BY <1>3, <1>4, <1>6 DEF Fits, Row0
  <2>. QED BY <1>6, <2>1, SameTable, QuietStep DEF IInv, TypeOK
<1>7. CASE Leave(a) /\ UNCHANGED <<task, paused, procs>>
  BY <1>7, SameTable, LeaveMoves, QuietStep DEF IInv, TypeOK
<1>. QED BY <1>5, <1>6, <1>7 DEF StartReconciliation

LEMMA ReconcilePreserves ==
    ASSUME IInv, NEW a \in Actors, Reconcile(a)
    PROVE  IInv'
<1>0. CASE StartReconciliation(a)
  BY <1>0, StartPreserves
<1>. SUFFICES ASSUME ~StartReconciliation(a) PROVE IInv'
  BY <1>0
<1>1. /\ session[a].phase = "reconciling" /\ SessionOK(a, session[a])
      /\ session[a].task \in Tasks /\ Row0(a) \in Row
      /\ Row0(a).recon \in 0..MaxReconciliations
  BY Typed, RowTyped
  DEF IInv, Reconcile, ReconciliationSucceeds, ReconciliationFails,
      ReconciliationRetries, At, SessionOK, Row0
<1>2. CASE ReconciliationSucceeds(a)
  BY <1>1, <1>2, DeliveryFreed, Words, FinishStep DEF ReconciliationSucceeds
<1>3. CASE ReconciliationFails(a)
  BY <1>1, <1>3, DeliveryFreed, Words, FinishStep DEF ReconciliationFails
<1>4. CASE ReconciliationRetries(a)
  <2>. DEFINE k == Row0(a).recon + 1
  <2>1. k \in 0..MaxReconciliations
    BY <1>1, <1>4 DEF ReconciliationRetries, MaxReconciliations
  <2>. HIDE DEF k
  <2>2. Kept(Row0(a), [Row0(a) EXCEPT !.recon = k])
    BY <1>1, <2>1 DEF Kept, Row
  <2>3. Proceed(a, [Row0(a) EXCEPT !.recon = k], "reconciling")
    BY <1>4 DEF ReconciliationRetries, k
  <2>4. "reconciling" \in LeasedPhases /\ "reconciling" \in Phases
    BY DEF LeasedPhases, Phases
  <2>. QED BY <1>1, <2>2, <2>3, <2>4, RecordStep
<1>. QED BY <1>2, <1>3, <1>4 DEF Reconcile

-----------------------------------------------------------------------------
(* The claim *)

\* The rows the scan works on.
LEMMA QuotaRow ==
    ASSUME IInv, NEW t \in Tasks
    PROVE  /\ QuotaResumed[t] \in Row
           /\ QuotaResumed[t].gen = task[t].gen
           /\ Kept(task[t], QuotaResumed[t]) \/ Freed(task[t], QuotaResumed[t])
           /\ QuotaResumed[t].state \notin Active => QuotaResumed[t].owner = None
<1>. DEFINE r == task[t]
<1>1. r \in Row
  BY RowTyped DEF IInv
<1>2. CASE QuotaResumed[t] = r
  BY <1>1, <1>2 DEF Kept, IInv, LeaseInvariant, LeaseConsistent
<1>3. CASE QuotaResumed[t] = Resumed(r)
  <2>1. Freed(r, Resumed(r))
    BY <1>1, DeliveryFreed, Words
  <2>2. Resumed(r).gen = r.gen
    BY <1>1 DEF Resumed, Unleased, Row
  <2>. QED BY <1>3, <2>1, <2>2 DEF Freed
<1>4. QuotaResumed[t] = r \/ QuotaResumed[t] = Resumed(r)
  BY DEF QuotaResumed
<1>. QED BY <1>2, <1>3, <1>4

LEMMA ScanPreserves ==
    ASSUME IInv, NEW w \in Workers, ClaimNothing(w) \/ ClaimNext(w)
    PROVE  IInv'
<1>. DEFINE b    == WorkerBuilder[w]
            rows == QuotaResumed
<1>1. w \in Actors /\ b \in Builders
  BY QueueAssumption DEF Actors
<1>2. CASE ClaimNothing(w)
  <2>1. RowsMove
    <3>1. task' = rows
      BY <1>2 DEF ClaimNothing
    <3>2. rows \in [Tasks -> Row]
      BY QuotaRow DEF QuotaResumed
    <3>. QED BY <3>1, <3>2, QuotaRow DEF RowsMove
  <2>2. SessionsMove
    BY <1>1, <1>2, LeaveMoves DEF ClaimNothing, IInv
  <2>. QED BY <1>2, <2>1, <2>2, QuietStep DEF ClaimNothing, IInv, TypeOK
<1>3. CASE ClaimNext(w)
  <2>1. PICK blocked \in SUBSET Passed(b, rows) : task' = AfterScan(w, rows, blocked)
    BY <1>3 DEF ClaimNext
  <2>2. \A t \in Passed(b, rows) \cup Chosen(b, rows) :
          t \in Tasks /\ rows[t].state \in {"READY", "WAITING_DEPENDENCY"}
    BY DEF Passed, Chosen, Scanned
  <2>3. ASSUME NEW t \in Chosen(b, rows)
        PROVE  /\ t \in Tasks
               /\ task'[t] \in Row
               /\ task'[t].owner = b
               /\ task'[t].gen = task[t].gen + 1
               /\ task'[t].state = "CLAIMED"
    <3>1. t \in Tasks
      BY <2>2
    <3>2. task'[t] = Claimed(rows[t], b)
      BY <2>1, <3>1 DEF AfterScan
    <3>. QED BY <1>1, <3>1, <3>2, QuotaRow, ClaimedGrants
  <2>4. ASSUME NEW t \in Tasks, t \notin Chosen(b, rows)
        PROVE  Kept(task[t], task'[t]) \/ Freed(task[t], task'[t])
    <3>. DEFINE r == rows[t]
    <3>1. /\ r \in Row /\ r.gen = task[t].gen
          /\ Kept(task[t], r) \/ Freed(task[t], r)
          /\ r.state \notin Active => r.owner = None
      BY QuotaRow
    <3>2. task'[t] = IF t \in blocked
                       THEN [r EXCEPT !.state = "BLOCKED", !.error = "dependency"]
                     ELSE IF t \in Passed(b, rows)
                       THEN [r EXCEPT !.state = "WAITING_DEPENDENCY"]
                     ELSE r
      BY <2>1, <2>4 DEF AfterScan
    <3>. HIDE DEF r
    <3>3. CASE t \in Passed(b, rows)
      <4>1. r.owner = None
        BY <2>2, <3>1, <3>3 DEF Active, r
      <4>2. /\ Freed(r, [r EXCEPT !.state = "BLOCKED", !.error = "dependency"])
            /\ Freed(r, [r EXCEPT !.state = "WAITING_DEPENDENCY"])
        BY <3>1, <4>1, FreeStaysFree, Words
      <4>3. Freed(r, task'[t])
        BY <3>2, <3>3, <4>2
      <4>. QED BY <3>1, <4>3 DEF Freed
    <3>4. CASE t \notin Passed(b, rows)
      BY <3>1, <3>2, <3>4
    <3>. QED BY <3>3, <3>4
  <2>5. task' \in [Tasks -> Row]
    <3>1. \A t \in Tasks : task'[t] \in Row
      BY <2>3, <2>4 DEF Kept, Freed
    <3>2. task' = [t \in Tasks |-> task'[t]]
      BY <2>1 DEF AfterScan
    <3>. QED BY <3>1, <3>2
  <2>6. CASE Chosen(b, rows) = {} /\ Leave(w)
    <3>1. RowsMove
      BY <2>4, <2>5, <2>6 DEF RowsMove
    <3>2. SessionsMove
      BY <1>1, <2>6, LeaveMoves DEF IInv
    <3>. QED BY <1>3, <3>1, <3>2, QuietStep DEF ClaimNext, IInv, TypeOK
  <2>7. CASE \E t \in Chosen(b, rows) :
               session' = [session EXCEPT ![w] = [phase |-> "claimed", task |-> t,
                                                  gen |-> task[t].gen + 1]]
    <3>1. PICK t \in Chosen(b, rows) :
            session' = [session EXCEPT ![w] = [phase |-> "claimed", task |-> t,
                                               gen |-> task[t].gen + 1]]
      BY <2>7
    <3>2. \A u \in Tasks : \/ Kept(task[u], task'[u])
                           \/ Freed(task[u], task'[u])
                           \/ /\ task'[u].owner = b
                              /\ task'[u].gen = task[u].gen + 1
                              /\ task'[u].state = "CLAIMED"
      BY <2>3, <2>4
    <3>3. UNCHANGED <<paused, procs>>
      BY <1>3 DEF ClaimNext
    <3>. QED BY <2>3, <2>5, <3>1, <3>2, <3>3, GrantStep
  <2>. QED BY <1>3, <2>6, <2>7 DEF ClaimNext
<1>. QED BY <1>2, <1>3

-----------------------------------------------------------------------------
(* run_once *)

LEMMA ProgressPreserves ==
    ASSUME IInv, NEW w \in Workers, Progress(w) \/ Heartbeat(w)
    PROVE  IInv'
<1>. DEFINE r == Row0(w)
            t == session[w].task
<1>1. w \in Actors /\ w \notin Operators /\ SessionOK(w, session[w])
  BY QueueAssumption, Typed DEF IInv, Actors
<1>2. TypeOK
  BY DEF IInv
<1>3. ASSUME NEW S, Fenced(w, S), session[w].phase \in LeasedPhases
      PROVE  /\ t \in Tasks /\ r \in Row /\ r.owner # None /\ r.state \in S
             /\ r.owner = WorkerBuilder[w] /\ r.gen = session[w].gen
             /\ r.recon \in 0..MaxReconciliations /\ r.evidence \in SUBSET Evidence
  BY <1>3, <1>2, FencedRow, RowTyped DEF Row0
<1>4. CASE Poll(w)
  <2>1. SessionsMove
    BY <1>1, <1>2, <1>4, GotoMoves DEF Poll, Phases, LeasedPhases, CommandPhases
  <2>. QED BY <1>2, <1>4, <2>1, SameTable, QuietStep DEF Poll, TypeOK
<1>5. CASE ClaimNothing(w) \/ ClaimNext(w)
  BY <1>5, ScanPreserves
<1>6. CASE AssignWorktree(w)
  <2>1. "claimed" \in LeasedPhases \cap Phases /\ session[w].phase = "claimed"
    BY <1>6 DEF AssignWorktree, At, LeasedPhases, Phases
  <2>2. t \in Tasks /\ r \in Row
    BY <1>3, <1>6, <2>1 DEF AssignWorktree
  <2>3. Kept(r, Recorded(r, "worktree"))
    <3>1. "worktree" \in Evidence /\ 0 \in 0..MaxReconciliations
      BY DEF Evidence, MaxReconciliations
    <3>. QED BY <2>2, <3>1, RecordedKept
  <2>. QED BY <1>1, <1>6, <2>1, <2>2, <2>3, RecordStep DEF AssignWorktree
<1>7. CASE AllocationFails(w)
  <2>1. t \in Tasks /\ r \in Row
    BY <1>3, <1>7 DEF AllocationFails, At, LeasedPhases
  <2>. QED BY <1>1, <1>7, <2>1, FailedFreed, Words, FinishStep DEF AllocationFails
<1>8. CASE StartRunning(w)
  <2>1. session[w].phase \in LeasedPhases /\ "running" \in LeasedPhases
    BY <1>8 DEF StartRunning, At, LeasedPhases
  <2>2. r \in Row
    BY <1>3, <1>8, <2>1 DEF StartRunning
  <2>3. LET s == [r EXCEPT !.state = "RUNNING"]
        IN  s \in Row /\ s.owner = r.owner /\ s.gen = r.gen /\ s.state = StateIn("running")
    BY <2>2, Words DEF Row, StateIn
  <2>. QED BY <1>8, <2>1, <2>3, AdvanceStep DEF StartRunning
<1>9. CASE Spawn(w)
  <2>1. t \in Tasks /\ session[w].gen \in Nat
    BY <1>1, <1>9 DEF Spawn, At, SessionOK, Sessions
  <2>2. SessionsMove
    BY <1>1, <1>2, <1>9, <2>1, GotoMoves DEF Spawn, At, Phases, LeasedPhases, CommandPhases, StateIn
  <2>3. procs' \in [Tasks -> SUBSET Nat]
    BY <1>2, <1>9, <2>1 DEF Spawn, TypeOK
  <2>. QED BY <1>2, <1>9, <2>2, <2>3, SameTable, QuietStep DEF Spawn, TypeOK
<1>10. CASE RecordProcess(w)
  <2>1. /\ session[w].phase = "spawned" /\ "spawned" \in LeasedPhases
        /\ "executing" \in LeasedPhases \cap Phases
        /\ StateIn("executing") = StateIn("spawned")
    BY <1>10 DEF RecordProcess, At, LeasedPhases, Phases, StateIn
  <2>2. t \in Tasks /\ r \in Row /\ session[w].gen \in Nat
    BY <1>1, <1>3, <1>10, <2>1 DEF RecordProcess, SessionOK, Sessions
  <2>3. Kept(r, [r EXCEPT !.pid = session[w].gen])
    BY <2>2 DEF Kept, Row
  <2>. QED BY <1>1, <1>10, <2>1, <2>2, <2>3, RecordStep DEF RecordProcess
<1>11. CASE Heartbeat(w)
  <2>1. session[w].phase \in LeasedPhases \cap Phases
    BY <1>11 DEF Heartbeat, LeasedPhases, Phases
  <2>2. t \in Tasks /\ r \in Row
    BY <1>3, <1>11, <2>1 DEF Heartbeat
  <2>3. Kept(r, [r EXCEPT !.ttl = LeaseTerm])
    BY <2>2, RowAssumption DEF Kept, Row
  <2>. QED BY <1>1, <1>11, <2>1, <2>2, <2>3, RecordStep DEF Heartbeat
<1>12. CASE BeginVerifying(w)
  <2>1. session[w].phase \in LeasedPhases /\ "verifying" \in LeasedPhases
    BY <1>12 DEF BeginVerifying, Returned, At, LeasedPhases
  <2>2. r \in Row
    BY <1>3, <1>12, <2>1 DEF BeginVerifying
  <2>3. LET s == [r EXCEPT !.state = "VERIFYING"]
        IN  s \in Row /\ s.owner = r.owner /\ s.gen = r.gen /\ s.state = StateIn("verifying")
    BY <2>2, Words DEF Row, StateIn
  <2>. QED BY <1>12, <2>1, <2>3, AdvanceStep DEF BeginVerifying
<1>13. CASE ReportQuota(w)
  <2>1. t \in Tasks /\ r \in Row
    BY <1>3, <1>13 DEF ReportQuota, Returned, At, LeasedPhases
  <2>. QED BY <1>1, <1>13, <2>1, QuotaFreed, FinishStep DEF ReportQuota
<1>14. CASE ReportUnsafe(w)
  <2>1. t \in Tasks /\ r \in Row
    BY <1>3, <1>14 DEF ReportUnsafe, Returned, At, LeasedPhases
  <2>. QED BY <1>1, <1>14, <2>1, FailedFreed, Words, FinishStep DEF ReportUnsafe
<1>15. ASSUME NEW s \in Signatures, ReportRetryable(w, s)
       PROVE  IInv'
  <2>1. t \in Tasks /\ r \in Row
    BY <1>3, <1>15 DEF ReportRetryable, Returned, At, LeasedPhases
  <2>. QED BY <1>1, <1>15, <2>1, RetryableFreed, FinishStep DEF ReportRetryable
<1>16. ASSUME NEW e \in Evidence, RecordEvidence(w, e)
       PROVE  IInv'
  <2>1. "verifying" \in LeasedPhases \cap Phases /\ session[w].phase = "verifying"
    BY <1>16 DEF RecordEvidence, At, LeasedPhases, Phases
  <2>2. t \in Tasks /\ r \in Row
    BY <1>3, <1>16, <2>1 DEF RecordEvidence
  <2>3. Kept(r, Recorded(r, e))
    <3>1. 0 \in 0..MaxReconciliations
      BY DEF MaxReconciliations
    <3>. QED BY <2>2, <3>1, RecordedKept
  <2>. QED BY <1>1, <1>16, <2>1, <2>2, <2>3, RecordStep DEF RecordEvidence
<1>17. CASE Deliver(w)
  <2>1. t \in Tasks /\ r \in Row
    BY <1>3, <1>17 DEF Deliver, At, LeasedPhases
  <2>. QED BY <1>1, <1>17, <2>1, SuccessFreed, FinishStep DEF Deliver
<1>18. CASE BlockDelivery(w) \/ VerificationFails(w)
  <2>1. t \in Tasks /\ r \in Row
    BY <1>3, <1>18 DEF BlockDelivery, VerificationFails, At, LeasedPhases
  <2>2. Freed(r, DeliveryStopped(r, "delivery")) /\ Freed(r, DeliveryStopped(r, "other"))
    BY <2>1, DeliveryFreed, Words
  <2>. QED BY <1>1, <1>18, <2>1, <2>2, FinishStep DEF BlockDelivery, VerificationFails
<1>19. CASE DeliveryFails(w)
  <2>1. t \in Tasks /\ r \in Row
    BY <1>3, <1>19 DEF DeliveryFails, At, LeasedPhases
  <2>. QED BY <1>1, <1>19, <2>1, UndeliveredFreed, FinishStep DEF DeliveryFails
<1>20. CASE BaseDrifts(w)
  <2>1. /\ session[w].phase = "verifying" /\ "verifying" \in LeasedPhases
        /\ "drifting" \in (LeasedPhases \cap Phases) \ CommandPhases
        /\ StateIn("drifting") = StateIn("verifying")
    BY <1>20 DEF BaseDrifts, At, LeasedPhases, Phases, CommandPhases, StateIn
  <2>2. t \in Tasks
    BY <1>3, <1>20, <2>1 DEF BaseDrifts
  <2>3. SessionsMove
    BY <1>1, <1>2, <1>20, <2>1, <2>2, GotoMoves DEF BaseDrifts
  <2>. QED BY <1>2, <1>20, <2>3, SameTable, QuietStep DEF BaseDrifts, TypeOK
<1>. QED BY <1>4, <1>5, <1>6, <1>7, <1>8, <1>9, <1>10, <1>11, <1>12, <1>13, <1>14,
            <1>15, <1>16, <1>17, <1>18, <1>19, <1>20 DEF Progress

-----------------------------------------------------------------------------
(* Crashes, the reaper, time *)

LEMMA EndOfSessionPreserves ==
    ASSUME IInv, NEW a \in Actors, GiveUp(a) \/ Crash(a)
    PROVE  IInv'
<1>1. TypeOK /\ UNCHANGED <<task, paused>> /\ Leave(a)
  BY DEF GiveUp, Crash, IInv
<1>2. procs' \in [Tasks -> SUBSET Nat]
  <2>1. CASE GiveUp(a)
    BY <1>1, <2>1 DEF GiveUp, TypeOK
  <2>2. CASE Crash(a)
    BY <1>1, <2>2 DEF Crash, TypeOK
  <2>. QED BY <2>1, <2>2
<1>. QED BY <1>1, <1>2, SameTable, LeaveMoves, QuietStep DEF TypeOK

LEMMA ExitPreserves ==
    ASSUME IInv, NEW t \in Tasks, NEW g, ProcessExits(t, g)
    PROVE  IInv'
<1>1. TypeOK /\ UNCHANGED <<task, paused, session>>
  BY DEF ProcessExits, IInv
<1>2. procs' \in [Tasks -> SUBSET Nat]
  BY <1>1 DEF ProcessExits, TypeOK
<1>. QED BY <1>1, <1>2, SameTable, SameSessions, QuietStep DEF TypeOK

LEMMA HousekeepingPreserves ==
    ASSUME IInv, SetPaused \/ Reap \/ Release \/ Tick
    PROVE  IInv'
<1>1. TypeOK
  BY DEF IInv
<1>2. CASE SetPaused
  <2>1. paused' \in BOOLEAN
    BY <1>1, <1>2 DEF SetPaused, TypeOK
  <2>2. RowsMove /\ SessionsMove
    BY <1>1, <1>2, SameTable, SameSessions DEF SetPaused
  <2>. QED BY <1>1, <1>2, <2>1, <2>2, QuietStep DEF SetPaused, TypeOK
<1>3. CASE Reap
  <2>1. ASSUME NEW t \in Tasks
        PROVE  \/ task'[t] = task[t]
               \/ \E alive \in BOOLEAN : task'[t] = Reaped(t, task[t], alive)
    <3>. DEFINE alive == task[t].pid \in procs[t]
    <3>1. task'[t] = task[t] \/ task'[t] = Reaped(t, task[t], alive)
      BY <1>3 DEF Reap
    <3>2. alive \in BOOLEAN
      OBVIOUS
    <3>. HIDE DEF alive
    <3>. QED BY <3>1, <3>2
  <2>2. \A t \in Tasks : Kept(task[t], task'[t]) \/ Freed(task[t], task'[t])
    BY <1>1, <2>1, RowTyped, ReapedFreed DEF Kept
  <2>3. task' \in [Tasks -> Row]
    BY <1>3, <2>2 DEF Reap, Kept, Freed
  <2>4. RowsMove /\ SessionsMove
    BY <1>1, <1>3, <2>2, <2>3, SameSessions DEF Reap, RowsMove
  <2>. QED BY <1>1, <1>3, <2>4, QuietStep DEF Reap, TypeOK
<1>4. CASE Release
  <2>1. \A t \in Tasks : \/ task'[t] = task[t]
                         \/ Releasable(t) /\ task'[t] = Released(task[t])
    BY <1>4 DEF Release
  <2>2. \A t \in Tasks : Releasable(t) => task[t].owner = None
    BY DEF Releasable, IInv, LeaseInvariant, LeaseConsistent, Active
  <2>3. \A t \in Tasks : Kept(task[t], task'[t]) \/ Freed(task[t], task'[t])
    BY <1>1, <2>1, <2>2, RowTyped, FreeStaysFree, Words DEF Kept
  <2>4. task' \in [Tasks -> Row]
    BY <1>4, <2>3 DEF Release, Kept, Freed
  <2>5. RowsMove /\ SessionsMove
    BY <1>1, <1>4, <2>3, <2>4, SameSessions DEF Release, RowsMove
  <2>. QED BY <1>1, <1>4, <2>5, QuietStep DEF Release, TypeOK
<1>5. CASE Tick
  <2>1. ASSUME NEW t \in Tasks
        PROVE  Kept(task[t], task'[t])
    <3>. DEFINE r == task[t]
                n == IF r.ttl > 0 THEN r.ttl - 1 ELSE 0
                m == IF r.wait > 0 THEN r.wait - 1 ELSE 0
    <3>1. r \in Row
      BY <1>1, RowTyped
    <3>2. n \in Nat /\ m \in Nat
      BY <3>1 DEF Row
    <3>3. task'[t] = [r EXCEPT !.ttl = n, !.wait = m]
      BY <1>5 DEF Tick
    <3>. HIDE DEF r, n, m
    <3>4. Kept(r, [r EXCEPT !.ttl = n, !.wait = m])
      BY <3>1, <3>2 DEF Kept, Row
    <3>. QED BY <3>3, <3>4 DEF r
  <2>2. task' \in [Tasks -> Row]
    BY <1>5, <2>1 DEF Tick, Kept
  <2>3. RowsMove /\ SessionsMove
    BY <1>1, <1>5, <2>1, <2>2, SameSessions DEF Tick, RowsMove
  <2>. QED BY <1>1, <1>5, <2>3, QuietStep DEF Tick, TypeOK
<1>. QED BY <1>2, <1>3, <1>4, <1>5

\* A step that changes nothing.
LEMMA StutterPreserves ==
    ASSUME IInv, UNCHANGED vars
    PROVE  IInv'
BY SameTable, SameSessions, QuietStep DEF vars, IInv, TypeOK

-----------------------------------------------------------------------------

LEMMA InitialInvariant ==
    ASSUME Init
    PROVE  IInv
<1>1. NewRow("ABSENT", "none") \in Row
  BY NewRowFreed, Words
<1>2. /\ \A t \in Tasks : task[t] = NewRow("ABSENT", "none")
      /\ \A a \in Actors : session[a] = Idle
  BY DEF Init
<1>3. Idle \in Sessions /\ Idle.phase = "idle"
  BY DEF Idle, Sessions, Phases
<1>4. TypeOK
  BY <1>1, <1>2, <1>3 DEF Init, TypeOK, Actors, CommandPhases
<1>5. \A w \in Workers, t \in Tasks : ~Holds(w, t)
  BY <1>2, <1>3 DEF Holds, LeasedPhases, Actors
<1>6. LeaseConsistent /\ UnsubmittedUnleased
  BY <1>2 DEF LeaseConsistent, UnsubmittedUnleased, NewRow
<1>. QED BY <1>4, <1>5, <1>6
         DEF IInv, LeaseInvariant, GenerationsReached, DistinctGenerations, CurrentSessionOwns

LEMMA StepPreserves ==
    ASSUME IInv, [Next]_vars
    PROVE  IInv'
<1>1. ASSUME NEW w \in Workers, Progress(w) \/ Heartbeat(w)
      PROVE  IInv'
  BY <1>1, ProgressPreserves
<1>2. ASSUME NEW a \in Actors, Reconcile(a) \/ GiveUp(a) \/ Crash(a)
      PROVE  IInv'
  BY <1>2, ReconcilePreserves, EndOfSessionPreserves
<1>3. ASSUME NEW o \in Operators, Operate(o)
      PROVE  IInv'
  BY <1>3, OperatePreserves
<1>4. ASSUME NEW t \in Tasks, Command(t)
      PROVE  IInv'
  BY <1>4, CommandPreserves
<1>5. ASSUME NEW t \in Tasks, NEW g \in procs[t], ProcessExits(t, g)
      PROVE  IInv'
  BY <1>5, ExitPreserves
<1>6. CASE SetPaused \/ Reap \/ Release \/ Tick
  BY <1>6, HousekeepingPreserves
<1>7. CASE UNCHANGED vars
  BY <1>7, StutterPreserves
<1>. QED BY <1>1, <1>2, <1>3, <1>4, <1>5, <1>6, <1>7 DEF Next

\* The invariant of every behaviour of the queue.
THEOREM Invariance == Spec => []IInv
<1>. QED BY InitialInvariant, StepPreserves, PTL DEF Spec

\* Type correctness: every transaction leaves rows and sessions well formed, the
\* two reconciliation attempts included (models.py, store_lifecycle.py).
THEOREM Typing == Spec => []TypeOK
<1>1. IInv => TypeOK
  BY DEF IInv
<1>. QED BY <1>1, Invariance, PTL

\* The lease columns and the sessions agree: only running work has an owner, no
\* two processes remember the same generation, and the session whose generation
\* is current has its row in the state it put it in.
THEOREM Fencing == Spec => []LeaseInvariant
<1>1. IInv => LeaseInvariant
  BY DEF IInv
<1>. QED BY <1>1, Invariance, PTL

\* _assert_active_lease lets at most one process through, however many processes
\* share an owner name, and whatever crashed, expired or was claimed again.
THEOREM FenceAdmitsOne == Spec => []SingleWriter
<1>1. IInv => SingleWriter
  <2>1. SUFFICES ASSUME IInv, NEW t \in Tasks, NEW v \in Workers, NEW w \in Workers,
                        Holds(v, t), Holds(w, t), Fenced(v, Active), Fenced(w, Active)
                 PROVE  v = w
    BY DEF SingleWriter
  <2>2. session[v].gen = task[t].gen /\ session[w].gen = task[t].gen
    BY <2>1 DEF Holds, Fenced, LeaseHeld, Row0
  <2>. QED BY <2>1, <2>2 DEF IInv, LeaseInvariant, DistinctGenerations
<1>. QED BY <1>1, Invariance, PTL

=============================================================================
