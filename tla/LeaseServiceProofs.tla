------------------------- MODULE LeaseServiceProofs -------------------------
(***************************************************************************)
(* The queue implements the fenced lease service.                          *)
(*                                                                         *)
(* The first part sorts the steps of the queue by what they do to leases:  *)
(* a process works under its lease, a claim grants one, the reaper takes   *)
(* expired ones back, time passes, or no leased row is touched.  The       *)
(* refinement and the fate of a lost lease both follow from that.          *)
(***************************************************************************)
EXTENDS TaskQueueProofs

-----------------------------------------------------------------------------
(* What a step may do to leases *)

\* A row that nobody holds may change, but not its lease.
Aloof(r, s) ==
    /\ s.owner = r.owner
    /\ s.gen = r.gen
    /\ r.owner # None => s = r

\* Worker w passed the fence and wrote the row of its task.
WorksUnderLease(w) ==
    /\ Fenced(w, Active)
    /\ session[w].phase \in LeasedPhases
    /\ \E row \in Row :
         /\ Write(session[w].task, row)
         /\ row.gen = Row0(w).gen
         /\ \/ row.owner = Row0(w).owner /\ \E p \in LeasedPhases : Goto(w, p)
            \/ row.owner = None /\ Leave(w)

\* Worker w claimed task t, the choice of its scan.
TakesLease(w, t) ==
    /\ At(w, "polling")
    /\ ClaimNext(w) /\ t \in Chosen(WorkerBuilder[w], QuotaResumed)
    /\ task[t].owner = None
    /\ task'[t].owner = WorkerBuilder[w]
    /\ task'[t].gen = task[t].gen + 1
    /\ \A u \in Tasks \ {t} : Aloof(task[u], task'[u])
    /\ session' = [session EXCEPT ![w] = [phase |-> "claimed", task |-> t,
                                          gen |-> task[t].gen + 1]]

\* No leased row changes, and no session comes by a lease: one may move within
\* its lease, or end.
ChangesSession(a, s) ==
    /\ session' = [session EXCEPT ![a] = s]
    /\ a \in Workers =>
         /\ \/ s.phase \notin LeasedPhases
            \/ /\ session[a].phase \in LeasedPhases
               /\ s.phase \in LeasedPhases
               /\ s.task = session[a].task
               /\ s.gen = session[a].gen
         /\ session[a].phase \in LeasedPhases => OnlyRecovers(session[a].task)

StaysOutside ==
    /\ \A t \in Tasks : Aloof(task[t], task'[t])
    /\ \/ UNCHANGED session
       \/ \E a \in Actors, s \in Sessions : ChangesSession(a, s)

Serves ==
    \/ \E w \in Workers : WorksUnderLease(w)
    \/ \E w \in Workers, t \in Tasks : TakesLease(w, t)
    \/ Reap
    \/ Tick
    \/ StaysOutside

-----------------------------------------------------------------------------
(* The transactions *)

\* Reports and the ends of a delivery give the lease back under its generation.
LEMMA GivesBack ==
    ASSUME NEW t \in Tasks, NEW r \in Row, NEW f \in Failures
    PROVE  /\ Failed(t, r, f).gen = r.gen
           /\ CompletedSuccess(t, r).gen = r.gen
           /\ CompletedQuota(r).gen = r.gen
           /\ CompletedUndelivered(t, r).gen = r.gen
           /\ \A s \in Signatures : CompletedRetryable(t, r, s).gen = r.gen
           /\ DeliveryStopped(r, f).gen = r.gen
           /\ Recovered(r).gen = r.gen
           /\ Unrecovered(r).gen = r.gen
           /\ Adopted(r).gen = r.gen
<1>. DEFINE u == Unleased(r)
<1>1. u \in Row /\ u.gen = r.gen
  BY UnleasedRow
<1>. HIDE DEF u
<1>2. \A g \in Failures : Failed(t, r, g).gen = r.gen
  BY <1>1 DEF Failed, u, Row
<1>3. CompletedSuccess(t, r).gen = r.gen
  BY <1>1 DEF CompletedSuccess, u, Row
<1>4. CompletedQuota(r).gen = r.gen
  BY <1>1 DEF CompletedQuota, u, Row
<1>5. CompletedUndelivered(t, r).gen = r.gen
  BY <1>1, <1>2, Words DEF CompletedUndelivered, u, Row
<1>6. ASSUME NEW s \in Signatures
      PROVE  CompletedRetryable(t, r, s).gen = r.gen
  BY <1>1, <1>2, Words DEF CompletedRetryable, u, Row
<1>7. DeliveryStopped(r, f).gen = r.gen
  BY <1>1 DEF DeliveryStopped, u, Row
<1>8. Recovered(r).gen = r.gen /\ Unrecovered(r).gen = r.gen /\ Adopted(r).gen = r.gen
  BY <1>1 DEF Recovered, Unrecovered, Adopted, u, Row
<1>. QED BY <1>2, <1>3, <1>4, <1>5, <1>6, <1>7, <1>8

\* A row that is not running work has no owner.
LEMMA NotHeld ==
    ASSUME IInv, NEW t \in Tasks, task[t].state \notin Active
    PROVE  task[t].owner = None
BY DEF IInv, LeaseInvariant, LeaseConsistent

\* A write to a row that nobody holds, by a step that ends no worker's session.
LEMMA WritesFree ==
    ASSUME TypeOK, NEW t \in Tasks, NEW row, Write(t, row),
           task[t].owner = None, row.owner = None, row.gen = task[t].gen
    PROVE  \A u \in Tasks : Aloof(task[u], task'[u])
BY DEF TypeOK, Write, Aloof

LEMMA SameRows ==
    ASSUME UNCHANGED task
    PROVE  \A u \in Tasks : Aloof(task[u], task'[u])
BY DEF Aloof

\* A session ends, or moves.
LEMMA EndsSession ==
    ASSUME NEW a \in Actors, Leave(a),
           \/ UNCHANGED task
           \/ session[a].phase \notin LeasedPhases
           \/ OnlyRecovers(session[a].task)
    PROVE  \E b \in Actors, s \in Sessions : ChangesSession(b, s)
<1>1. Idle \in Sessions /\ Idle.phase \notin LeasedPhases
  BY DEF Idle, Sessions, Phases, LeasedPhases
<1>2. UNCHANGED task => OnlyRecovers(session[a].task)
  BY DEF OnlyRecovers
<1>3. ChangesSession(a, Idle)
  BY <1>1, <1>2 DEF Leave, ChangesSession
<1>. QED BY <1>1, <1>3

LEMMA MovesSession ==
    ASSUME TypeOK, NEW a \in Actors, NEW p \in Phases, Goto(a, p), UNCHANGED task,
           \/ a \notin Workers
           \/ p \notin LeasedPhases
           \/ {session[a].phase, p} \subseteq LeasedPhases
    PROVE  \E b \in Actors, s \in Sessions : ChangesSession(b, s)
<1>. DEFINE s == [session[a] EXCEPT !.phase = p]
<1>1. session[a] \in Sessions
  BY Typed
<1>2. /\ s \in Sessions /\ s.phase = p
      /\ s.task = session[a].task /\ s.gen = session[a].gen
  BY <1>1 DEF Sessions
<1>3. session' = [session EXCEPT ![a] = s]
  BY DEF Goto
<1>. HIDE DEF s
<1>4. OnlyRecovers(session[a].task)
  BY DEF OnlyRecovers
<1>5. ChangesSession(a, s)
  BY <1>2, <1>3, <1>4 DEF ChangesSession
<1>. QED BY <1>2, <1>5

\* A fenced transaction that goes on, and one that ends the session.
LEMMA GoesOn ==
    ASSUME IInv, NEW w \in Workers, NEW S \in SUBSET Active, Fenced(w, S),
           session[w].phase \in LeasedPhases, NEW p \in LeasedPhases, NEW row \in Row,
           row.owner = Row0(w).owner, row.gen = Row0(w).gen, Proceed(w, row, p)
    PROVE  Serves
<1>1. Fenced(w, Active)
  BY DEF Fenced, LeaseHeld
<1>2. WorksUnderLease(w)
  BY <1>1 DEF WorksUnderLease, Proceed
<1>. QED BY <1>2 DEF Serves

LEMMA Reports ==
    ASSUME IInv, NEW w \in Workers, NEW S \in SUBSET Active, Fenced(w, S),
           session[w].phase \in LeasedPhases, NEW row,
           Freed(Row0(w), row), row.gen = Row0(w).gen, Finish(w, row)
    PROVE  Serves
<1>1. Fenced(w, Active)
  BY DEF Fenced, LeaseHeld
<1>2. WorksUnderLease(w)
  BY <1>1 DEF WorksUnderLease, Finish, Freed
<1>. QED BY <1>2 DEF Serves

LEMMA CommandServes ==
    ASSUME IInv, NEW t \in Tasks, Command(t)
    PROVE  Serves
<1>. DEFINE r == task[t]
<1>1. TypeOK /\ r \in Row
  BY RowTyped DEF IInv
<1>2. r.state \notin Active => r.owner = None
  BY NotHeld
<1>3. r.state = "ABSENT" => r.gen = 0
  BY DEF IInv, LeaseInvariant, UnsubmittedUnleased
<1>4. PICK row : /\ Write(t, row) /\ UNCHANGED session
                 /\ r.owner = None /\ row.owner = None /\ row.gen = r.gen
  <2>1. CASE Submit(t)
    <3>1. PICK s \in {"BLOCKED", "BACKLOG", "READY"}, e \in {"policy", "none"} :
            Write(t, NewRow(s, e))
      BY <2>1 DEF Submit
    <3>2. NewRow(s, e).owner = None /\ NewRow(s, e).gen = 0
      BY DEF NewRow
    <3>3. r.owner = None /\ r.gen = 0 /\ UNCHANGED session
      BY <1>2, <1>3, <2>1 DEF Submit, Active
    <3>. QED BY <3>1, <3>2, <3>3
  <2>2. CASE Approve(t)
    BY <1>1, <1>2, <2>2 DEF Approve, Active, Row
  <2>. DEFINE dropped(s) == [r EXCEPT !.state = s, !.error = "other"]
  <2>0. \A s \in States : dropped(s).owner = r.owner /\ dropped(s).gen = r.gen
    BY <1>1 DEF Row
  <2>3. CASE Reject(t)
    <3>1. Write(t, dropped("FAILED_SAFE")) /\ r.owner = None /\ UNCHANGED session
      BY <1>2, <2>3 DEF Reject, Active
    <3>2. "FAILED_SAFE" \in States
      BY DEF States
    <3>. HIDE DEF dropped, r
    <3>. QED BY <2>0, <3>1, <3>2
  <2>4. CASE Cancel(t)
    <3>1. Write(t, dropped("CANCELLED")) /\ r.owner = None /\ UNCHANGED session
      BY <1>2, <2>4 DEF Cancel
    <3>2. "CANCELLED" \in States
      BY DEF States
    <3>. HIDE DEF dropped, r
    <3>. QED BY <2>0, <3>1, <3>2
  <2>5. CASE CeoReview(t)
    BY <1>1, <1>2, <2>5 DEF CeoReview, Active, Row
  <2>6. CASE ReconcileMerged(t)
    <3>1. Merged(r).owner = r.owner /\ Merged(r).gen = r.gen
      BY <1>1 DEF Merged, Row
    <3>. QED BY <1>2, <2>6, <3>1 DEF ReconcileMerged, Active
  <2>. QED BY <2>1, <2>2, <2>3, <2>4, <2>5, <2>6 DEF Command
<1>5. StaysOutside
  BY <1>1, <1>4, WritesFree DEF StaysOutside
<1>. QED BY <1>5 DEF Serves

LEMMA OperateServes ==
    ASSUME IInv, NEW o \in Operators, Operate(o)
    PROVE  Serves
<1>. DEFINE t == session[o].task
            Moves == \E a \in Actors, s \in Sessions : ChangesSession(a, s)
<1>1. /\ TypeOK /\ o \in Actors /\ o \notin Workers
      /\ session[o].phase \in CommandPhases => t \in Tasks /\ task[t] \in Row
  BY QueueAssumption, Typed, RowTyped DEF IInv, Actors, SessionOK, CommandPhases
<1>2. ASSUME Leave(o)
      PROVE  Moves
  <2>1. Idle \in Sessions
    BY DEF Idle, Sessions, Phases
  <2>2. ChangesSession(o, Idle)
    BY <1>1, <1>2 DEF Leave, ChangesSession
  <2>. QED BY <1>1, <2>1, <2>2
<1>3. CASE \E u \in Tasks : UnblockRead(o, u) \/ ReadPreserved(o, u) \/ ReadDelivery(o, u)
  <2>1. PICK u \in Tasks, p \in CommandPhases :
          /\ session' = [session EXCEPT ![o] = [phase |-> p, task |-> u, gen |-> 0]]
          /\ UNCHANGED task
    BY <1>3 DEF UnblockRead, ReadPreserved, ReadDelivery, CommandPhases
  <2>2. [phase |-> p, task |-> u, gen |-> 0] \in Sessions
    BY DEF Sessions, CommandPhases, Phases
  <2>3. ChangesSession(o, [phase |-> p, task |-> u, gen |-> 0])
    BY <1>1, <2>1 DEF ChangesSession
  <2>. QED BY <1>1, <2>1, <2>2, <2>3, SameRows DEF StaysOutside, Serves
<1>4. CASE Unblock(o)
  <2>1. t \in Tasks /\ task[t] \in Row /\ Moves
    BY <1>1, <1>2, <1>4 DEF Unblock, At, CommandPhases
  <2>2. CASE task[t].state = "BLOCKED"
    <3>1. task[t].owner = None
      BY <2>1, <2>2, NotHeld DEF Active
    <3>2. Write(t, [task[t] EXCEPT !.state = "READY"])
      BY <1>1, <1>4, <2>1, <2>2 DEF Unblock, Row0, Write, TypeOK
    <3>3. [task[t] EXCEPT !.state = "READY"].owner = None
          /\ [task[t] EXCEPT !.state = "READY"].gen = task[t].gen
      BY <2>1, <3>1 DEF Row
    <3>. QED BY <1>1, <2>1, <3>1, <3>2, <3>3, WritesFree DEF StaysOutside, Serves
  <2>3. CASE task[t].state # "BLOCKED"
    BY <1>4, <2>1, <2>3, SameRows DEF Unblock, Row0, StaysOutside, Serves
  <2>. QED BY <2>2, <2>3
<1>5. CASE ReconcileDelivery(o)
  <2>1. t \in Tasks /\ task[t] \in Row /\ Moves
    BY <1>1, <1>2, <1>5 DEF ReconcileDelivery, CommandPhases
  <2>2. CASE task[t].state \in {"BLOCKED", "FAILED_SAFE"}
             /\ task' = [task EXCEPT ![t] = Adopted(task[t])]
    <3>1. task[t].owner = None
      BY <2>1, <2>2, NotHeld DEF Active
    <3>2. Adopted(task[t]).owner = None /\ Adopted(task[t]).gen = task[t].gen
      BY <2>1, GivesBack, DeliveryFreed, Words DEF Freed
    <3>. QED BY <1>1, <2>1, <2>2, <3>1, <3>2, WritesFree DEF Write, StaysOutside, Serves
  <2>3. CASE UNCHANGED task
    BY <2>1, <2>3, SameRows DEF StaysOutside, Serves
  <2>4. \/ task[t].state \in {"BLOCKED", "FAILED_SAFE"}
           /\ task' = [task EXCEPT ![t] = Adopted(task[t])]
        \/ UNCHANGED task
    BY <1>1, <1>5, <2>1 DEF ReconcileDelivery, Row0, StateRead, TypeOK
  <2>. QED BY <2>2, <2>3, <2>4
<1>. QED BY <1>3, <1>4, <1>5 DEF Operate

\* A recovery is started under the lease, or on a row without one.
LEMMA StartServes ==
    ASSUME IInv, NEW a \in Actors, StartReconciliation(a)
    PROVE  Serves
<1>. DEFINE t == session[a].task
            r == task[t]
<1>1. /\ TypeOK /\ t \in Tasks /\ r \in Row /\ Row0(a) = r /\ session[a] \in Sessions
      /\ session \in [Actors -> Sessions] /\ task \in [Tasks -> Row]
      /\ a \in Workers => session[a].phase \in LeasedPhases
  BY Typed, RowTyped
  DEF IInv, StartReconciliation, SessionOK, CommandPhases, LeasedPhases, Row0
<1>2. /\ "reconciling" \in LeasedPhases /\ "reconciling" \in Phases
      /\ {"VERIFYING"} \in SUBSET Active
  BY DEF LeasedPhases, Phases, Active
<1>3. ASSUME Goto(a, "reconciling"), OnlyRecovers(t)
      PROVE  \E b \in Actors, s \in Sessions : ChangesSession(b, s)
  <2>. DEFINE s == [session[a] EXCEPT !.phase = "reconciling"]
  <2>1. /\ s \in Sessions /\ s.phase = "reconciling"
        /\ s.task = session[a].task /\ s.gen = session[a].gen
    BY <1>1, <1>2 DEF Sessions
  <2>2. session' = [session EXCEPT ![a] = s]
    BY <1>3 DEF Goto
  <2>. HIDE DEF s
  <2>3. ChangesSession(a, s)
    BY <1>1, <1>2, <1>3, <2>1, <2>2 DEF ChangesSession
  <2>. QED BY <2>1, <2>3
<1>4. ASSUME MayStart(a), Proceed(a, Reconciling(r), "reconciling")
      PROVE  Serves
  <2>1. /\ Reconciling(r) \in Row
        /\ Reconciling(r).owner = r.owner /\ Reconciling(r).gen = r.gen
        /\ Reconciling(r).state = "DELIVERY_RECONCILING"
    BY <1>1, <1>4, ReconcilingKeepsLease DEF MayStart
  <2>2. CASE a \in Workers /\ Fenced(a, {"VERIFYING"})
    BY <1>1, <1>2, <1>4, <2>1, <2>2, GoesOn
  <2>3. CASE r.owner = None
    <3>1. \A u \in Tasks : Aloof(task[u], task'[u])
      BY <1>1, <1>4, <2>1, <2>3, WritesFree DEF Proceed
    <3>2. OnlyRecovers(t)
      <4>1. \A u \in Tasks : task'[u] = IF u = t THEN Reconciling(r) ELSE task[u]
        BY <1>1, <1>4 DEF Proceed, Write
      <4>. QED BY <4>1, <2>1, <2>3 DEF OnlyRecovers
    <3>. QED BY <1>3, <1>4, <3>1, <3>2 DEF Proceed, StaysOutside, Serves
  <2>. QED BY <1>1, <1>4, <2>2, <2>3 DEF MayStart
<1>5. ASSUME UNCHANGED task, Goto(a, "reconciling") \/ Leave(a)
      PROVE  Serves
  <2>1. OnlyRecovers(t)
    BY <1>5 DEF OnlyRecovers
  <2>2. \E b \in Actors, s \in Sessions : ChangesSession(b, s)
    BY <1>3, <1>5, <2>1, EndsSession
  <2>. QED BY <1>5, <2>2, SameRows DEF StaysOutside, Serves
<1>. QED BY <1>1, <1>4, <1>5 DEF StartReconciliation

LEMMA ReconcileServes ==
    ASSUME IInv, NEW a \in Actors, Reconcile(a)
    PROVE  Serves
<1>0. CASE StartReconciliation(a)
  BY <1>0, StartServes
<1>. SUFFICES ASSUME ~StartReconciliation(a) PROVE Serves
  BY <1>0
<1>. DEFINE t == session[a].task
            r == task[t]
<1>1. /\ TypeOK /\ t \in Tasks /\ r \in Row /\ Row0(a) = r
      /\ session[a].phase = "reconciling" /\ MayReconcile(a)
      /\ r.recon \in Nat /\ session[a] \in Sessions
  BY Typed, RowTyped
  DEF IInv, Reconcile, ReconciliationSucceeds, ReconciliationFails, MaxReconciliations,
      ReconciliationRetries, At, SessionOK, Row0
<1>2. "reconciling" \in LeasedPhases /\ "reconciling" \in Phases
  BY DEF LeasedPhases, Phases
<1>. DEFINE again == [r EXCEPT !.recon = @ + 1]
<1>3. \/ \E row \in {Recovered(r), Unrecovered(r)} : Finish(a, row)
      \/ r.recon < MaxReconciliations /\ Proceed(a, again, "reconciling")
  BY <1>1 DEF Reconcile, ReconciliationSucceeds, ReconciliationFails, ReconciliationRetries
<1>4. r.recon < MaxReconciliations =>
        again \in Row /\ again.owner = r.owner /\ again.gen = r.gen
  BY <1>1 DEF Row, MaxReconciliations
<1>5. \A row \in {Recovered(r), Unrecovered(r)} : Freed(r, row) /\ row.gen = r.gen
  BY <1>1, DeliveryFreed, GivesBack, Words
<1>. HIDE DEF r, again
<1>6. CASE a \in Workers /\ Fenced(a, {"DELIVERY_RECONCILING"})
  <2>1. {"DELIVERY_RECONCILING"} \in SUBSET Active
    BY DEF Active
  <2>. QED BY <1>1, <1>2, <1>3, <1>4, <1>5, <1>6, <2>1, GoesOn, Reports
<1>7. CASE r.owner = None
  <2>0. ASSUME NEW row, Write(t, row)
        PROVE  OnlyRecovers(t)
    <3>1. \A u \in Tasks : u # t => task'[u] = task[u]
      BY <1>1, <2>0 DEF Write, TypeOK
    <3>2. r.state = "DELIVERY_RECONCILING"
      BY <1>1 DEF MayReconcile
    <3>. QED BY <1>7, <3>1, <3>2 DEF OnlyRecovers, r
  <2>1. CASE \E row \in {Recovered(r), Unrecovered(r)} : Finish(a, row)
    <3>1. \A u \in Tasks : Aloof(task[u], task'[u])
      BY <1>1, <1>5, <1>7, <2>1, WritesFree DEF Finish, Freed, r
    <3>2. \E b \in Actors, s \in Sessions : ChangesSession(b, s)
      BY <1>1, <2>0, <2>1, EndsSession DEF Finish
    <3>. QED BY <3>1, <3>2 DEF StaysOutside, Serves
  <2>2. CASE r.recon < MaxReconciliations /\ Proceed(a, again, "reconciling")
    <3>1. \A u \in Tasks : Aloof(task[u], task'[u])
      BY <1>1, <1>4, <1>7, <2>2, WritesFree DEF Proceed, r
    <3>. DEFINE s == [session[a] EXCEPT !.phase = "reconciling"]
    <3>2. /\ s \in Sessions /\ s.phase = "reconciling"
          /\ s.task = session[a].task /\ s.gen = session[a].gen
      BY <1>1, <1>2 DEF Sessions
    <3>3. session' = [session EXCEPT ![a] = s]
      BY <2>2 DEF Proceed, Goto
    <3>. HIDE DEF s
    <3>4. ChangesSession(a, s)
      BY <1>1, <1>2, <2>0, <2>2, <3>2, <3>3 DEF ChangesSession, Proceed
    <3>. QED BY <3>1, <3>2, <3>4 DEF StaysOutside, Serves
  <2>. QED BY <1>3, <2>1, <2>2
<1>. QED BY <1>1, <1>6, <1>7 DEF MayReconcile

\* The scan: quota pauses that elapsed, and rows passed on the way, are not held.
LEMMA QuotaAloof ==
    ASSUME IInv, NEW t \in Tasks
    PROVE  /\ QuotaResumed[t] \in Row
           /\ Aloof(task[t], QuotaResumed[t])
           /\ QuotaResumed[t].state \notin Active => QuotaResumed[t].owner = None
<1>. DEFINE r == task[t]
<1>1. r \in Row
  BY RowTyped DEF IInv
<1>2. CASE QuotaResumed[t] = r
  BY <1>2, QuotaRow DEF Aloof
<1>3. CASE r.state = "PAUSED_QUOTA" /\ QuotaResumed[t] = Resumed(r)
  <2>1. r.owner = None
    BY <1>3, NotHeld DEF Active
  <2>2. Freed(r, Resumed(r))
    BY <1>1, DeliveryFreed, Words
  <2>. QED BY <1>3, <2>1, <2>2, QuotaRow DEF Aloof, Freed
<1>4. \/ QuotaResumed[t] = r
      \/ r.state = "PAUSED_QUOTA" /\ QuotaResumed[t] = Resumed(r)
  BY DEF QuotaResumed
<1>. QED BY <1>2, <1>3, <1>4

\* The scan chooses one row at most.
LEMMA OneChosen ==
    ASSUME NEW b, NEW rows, NEW t \in Chosen(b, rows), NEW u \in Chosen(b, rows)
    PROVE  t = u
<1>1. /\ t \in Tasks /\ u \in Tasks /\ t \in Scanned(b, rows) /\ u \in Scanned(b, rows)
      /\ Satisfied(t, rows) /\ Satisfied(u, rows)
  BY DEF Chosen, Scanned
<1>2. ~(Rank[u] < Rank[t]) /\ ~(Rank[t] < Rank[u])
  BY <1>1 DEF Chosen
<1>3. Rank[t] \in Nat /\ Rank[u] \in Nat
  BY <1>1, QueueAssumption
<1>. QED BY <1>1, <1>2, <1>3, QueueAssumption

LEMMA ScanServes ==
    ASSUME IInv, NEW w \in Workers, ClaimNothing(w) \/ ClaimNext(w)
    PROVE  Serves
<1>. DEFINE b    == WorkerBuilder[w]
            rows == QuotaResumed
<1>1. w \in Actors /\ b \in Builders /\ TypeOK
  BY QueueAssumption DEF Actors, IInv
<1>2. ASSUME Leave(w), At(w, "polling")
      PROVE  \E a \in Actors, s \in Sessions : ChangesSession(a, s)
  BY <1>1, <1>2, EndsSession DEF At, LeasedPhases
<1>3. CASE ClaimNothing(w)
  <2>1. \A t \in Tasks : Aloof(task[t], task'[t])
    BY <1>3, QuotaAloof DEF ClaimNothing
  <2>. QED BY <1>2, <1>3, <2>1 DEF ClaimNothing, StaysOutside, Serves
<1>4. CASE ClaimNext(w)
  <2>1. PICK blocked \in SUBSET Passed(b, rows) : task' = AfterScan(w, rows, blocked)
    BY <1>4 DEF ClaimNext
  <2>2. \A t \in Passed(b, rows) \cup Chosen(b, rows) :
          t \in Tasks /\ rows[t].state \in {"READY", "WAITING_DEPENDENCY"}
    BY DEF Passed, Chosen, Scanned
  <2>3. ASSUME NEW t \in Tasks, t \notin Chosen(b, rows)
        PROVE  Aloof(task[t], task'[t])
    <3>. DEFINE r == rows[t]
    <3>1. /\ r \in Row
          /\ Aloof(task[t], r)
          /\ r.state \notin Active => r.owner = None
      BY QuotaAloof
    <3>2. task'[t] = IF t \in blocked
                       THEN [r EXCEPT !.state = "BLOCKED", !.error = "dependency"]
                     ELSE IF t \in Passed(b, rows)
                       THEN [r EXCEPT !.state = "WAITING_DEPENDENCY"]
                     ELSE r
      BY <2>1, <2>3 DEF AfterScan
    <3>3. t \in Passed(b, rows) => r.owner = None
      BY <2>2, <3>1 DEF Active
    <3>. HIDE DEF r
    <3>4. CASE t \in Passed(b, rows)
      <4>1. task'[t].owner = r.owner /\ task'[t].gen = r.gen
        BY <3>1, <3>2, <3>4 DEF Row
      <4>. QED BY <3>1, <3>3, <3>4, <4>1 DEF Aloof
    <3>5. CASE t \notin Passed(b, rows)
      BY <3>1, <3>2, <3>5
    <3>. QED BY <3>4, <3>5
  <2>4. CASE Chosen(b, rows) = {} /\ Leave(w)
    BY <1>2, <1>4, <2>3, <2>4 DEF ClaimNext, StaysOutside, Serves
  <2>5. CASE \E t \in Chosen(b, rows) :
               session' = [session EXCEPT ![w] = [phase |-> "claimed", task |-> t,
                                                  gen |-> task[t].gen + 1]]
    <3>1. PICK t \in Chosen(b, rows) :
            session' = [session EXCEPT ![w] = [phase |-> "claimed", task |-> t,
                                               gen |-> task[t].gen + 1]]
      BY <2>5
    <3>2. t \in Tasks /\ rows[t].state \in {"READY", "WAITING_DEPENDENCY"}
      BY <2>2
    <3>3. task'[t] = Claimed(rows[t], b)
      BY <2>1, <3>2 DEF AfterScan
    <3>4. /\ rows[t] \in Row /\ rows[t].owner = None
          /\ task[t].owner = None /\ task[t].gen = rows[t].gen
      BY <3>2, QuotaAloof DEF Aloof, Active
    <3>5. task'[t].owner = b /\ task'[t].gen = task[t].gen + 1
      BY <1>1, <3>3, <3>4, ClaimedGrants
    <3>6. \A u \in Tasks \ {t} : Aloof(task[u], task'[u])
      BY <2>3, OneChosen
    <3>7. TakesLease(w, t)
      BY <1>4, <3>1, <3>4, <3>5, <3>6 DEF At, ClaimNext, TakesLease
    <3>. QED BY <3>2, <3>7 DEF Serves
  <2>. QED BY <1>4, <2>4, <2>5 DEF ClaimNext
<1>. QED BY <1>3, <1>4

LEMMA ProgressServes ==
    ASSUME IInv, NEW w \in Workers, Progress(w) \/ Heartbeat(w)
    PROVE  Serves
<1>. DEFINE r == Row0(w)
            t == session[w].task
<1>1. w \in Actors /\ TypeOK /\ SessionOK(w, session[w]) /\ session[w] \in Sessions
  BY Typed DEF IInv, Actors
<1>2. ASSUME NEW S, Fenced(w, S), session[w].phase \in LeasedPhases
      PROVE  t \in Tasks /\ r \in Row /\ session[w].gen \in Nat
  BY <1>1, <1>2, FencedRow DEF Sessions
<1>3. /\ {"CLAIMED"} \in SUBSET Active /\ {"RUNNING"} \in SUBSET Active
      /\ {"VERIFYING"} \in SUBSET Active /\ Active \in SUBSET Active
      /\ "claimed" \in LeasedPhases /\ "running" \in LeasedPhases
      /\ "executing" \in LeasedPhases /\ "verifying" \in LeasedPhases
      /\ "reconciling" \in LeasedPhases
  BY DEF Active, LeasedPhases
<1>4. CASE Poll(w)
  <2>1. "polling" \in Phases /\ "polling" \notin LeasedPhases
    BY DEF Phases, LeasedPhases
  <2>. QED BY <1>1, <1>4, <2>1, MovesSession, SameRows DEF Poll, StaysOutside, Serves
<1>5. CASE ClaimNothing(w) \/ ClaimNext(w)
  BY <1>5, ScanServes
<1>6. CASE AssignWorktree(w)
  <2>1. Fenced(w, {"CLAIMED"}) /\ session[w].phase \in LeasedPhases /\ r \in Row
    BY <1>2, <1>3, <1>6 DEF AssignWorktree, At
  <2>2. Kept(r, Recorded(r, "worktree"))
    <3>1. "worktree" \in Evidence /\ 0 \in 0..MaxReconciliations
      BY DEF Evidence, MaxReconciliations
    <3>. QED BY <2>1, <3>1, RecordedKept
  <2>. QED BY <1>3, <1>6, <2>1, <2>2, GoesOn DEF AssignWorktree, Kept
<1>7. CASE AllocationFails(w)
  <2>1. Fenced(w, {"CLAIMED"}) /\ session[w].phase \in LeasedPhases /\ r \in Row /\ t \in Tasks
    BY <1>2, <1>3, <1>7 DEF AllocationFails, At
  <2>2. Freed(r, Failed(t, r, "other")) /\ Failed(t, r, "other").gen = r.gen
    BY <2>1, FailedFreed, GivesBack, Words
  <2>. QED BY <1>3, <1>7, <2>1, <2>2, Reports DEF AllocationFails
<1>8. CASE StartRunning(w)
  <2>1. Fenced(w, {"CLAIMED"}) /\ session[w].phase \in LeasedPhases /\ r \in Row
    BY <1>2, <1>3, <1>8 DEF StartRunning, At
  <2>2. LET s == [r EXCEPT !.state = "RUNNING"]
        IN  s \in Row /\ s.owner = r.owner /\ s.gen = r.gen
    BY <2>1, Words DEF Row
  <2>. QED BY <1>3, <1>8, <2>1, <2>2, GoesOn DEF StartRunning
<1>9. CASE Spawn(w)
  <2>1. /\ "spawned" \in Phases /\ {session[w].phase, "spawned"} \subseteq LeasedPhases
        /\ Goto(w, "spawned") /\ UNCHANGED task
    BY <1>9 DEF Spawn, At, Phases, LeasedPhases
  <2>. QED BY <1>1, <2>1, MovesSession, SameRows DEF StaysOutside, Serves
<1>10. CASE RecordProcess(w)
  <2>1. session[w].phase \in LeasedPhases
    BY <1>10 DEF RecordProcess, At, LeasedPhases
  <2>2. Fenced(w, Active) /\ r \in Row /\ session[w].gen \in Nat
    BY <1>2, <1>10, <2>1 DEF RecordProcess
  <2>3. Kept(r, [r EXCEPT !.pid = session[w].gen])
    BY <2>2 DEF Kept, Row
  <2>. QED BY <1>3, <1>10, <2>1, <2>2, <2>3, GoesOn DEF RecordProcess, Kept
<1>11. CASE Heartbeat(w)
  <2>1. session[w].phase \in LeasedPhases
    BY <1>11 DEF Heartbeat, LeasedPhases
  <2>2. Fenced(w, Active) /\ r \in Row
    BY <1>2, <1>11, <2>1 DEF Heartbeat
  <2>3. Kept(r, [r EXCEPT !.ttl = LeaseTerm])
    BY <2>2, RowAssumption DEF Kept, Row
  <2>. QED BY <1>3, <1>11, <2>1, <2>2, <2>3, GoesOn DEF Heartbeat, Kept
<1>12. CASE BeginVerifying(w)
  <2>1. Fenced(w, {"RUNNING"}) /\ session[w].phase \in LeasedPhases /\ r \in Row
    BY <1>2, <1>3, <1>12 DEF BeginVerifying, Returned, At
  <2>2. LET s == [r EXCEPT !.state = "VERIFYING"]
        IN  s \in Row /\ s.owner = r.owner /\ s.gen = r.gen
    BY <2>1, Words DEF Row
  <2>. QED BY <1>3, <1>12, <2>1, <2>2, GoesOn DEF BeginVerifying
<1>13. ASSUME NEW row \in { CompletedQuota(r), Failed(t, r, "other"), CompletedSuccess(t, r),
                            CompletedUndelivered(t, r) },
              Fenced(w, Active), session[w].phase \in LeasedPhases, Finish(w, row)
       PROVE  Serves
  <2>1. t \in Tasks /\ r \in Row
    BY <1>2, <1>13
  <2>2. Freed(r, row) /\ row.gen = r.gen
    BY <1>13, <2>1, QuotaFreed, FailedFreed, SuccessFreed, UndeliveredFreed, GivesBack, Words
  <2>. QED BY <1>3, <1>13, <2>2, Reports
<1>14. CASE ReportQuota(w)
  BY <1>3, <1>13, <1>14 DEF ReportQuota, Returned, At
<1>15. CASE ReportUnsafe(w)
  BY <1>3, <1>13, <1>15 DEF ReportUnsafe, Returned, At
<1>16. CASE Deliver(w)
  BY <1>3, <1>13, <1>16 DEF Deliver, At
<1>17. CASE DeliveryFails(w)
  BY <1>3, <1>13, <1>17 DEF DeliveryFails, At
<1>18. ASSUME NEW s \in Signatures, ReportRetryable(w, s)
       PROVE  Serves
  <2>1. Fenced(w, Active) /\ session[w].phase \in LeasedPhases
    BY <1>3, <1>18 DEF ReportRetryable, Returned, At
  <2>2. t \in Tasks /\ r \in Row
    BY <1>2, <2>1
  <2>3. /\ Freed(r, CompletedRetryable(t, r, s))
        /\ CompletedRetryable(t, r, s).gen = r.gen
    BY <2>2, RetryableFreed, GivesBack, Words
  <2>. QED BY <1>3, <1>18, <2>1, <2>3, Reports DEF ReportRetryable
<1>19. ASSUME NEW e \in Evidence, RecordEvidence(w, e)
       PROVE  Serves
  <2>1. Fenced(w, {"VERIFYING"}) /\ session[w].phase \in LeasedPhases /\ r \in Row
    BY <1>2, <1>3, <1>19 DEF RecordEvidence, At
  <2>2. Kept(r, Recorded(r, e))
    <3>1. 0 \in 0..MaxReconciliations
      BY DEF MaxReconciliations
    <3>. QED BY <2>1, <3>1, RecordedKept
  <2>. QED BY <1>3, <1>19, <2>1, <2>2, GoesOn DEF RecordEvidence, Kept
<1>20. CASE BlockDelivery(w) \/ VerificationFails(w)
  <2>1. Fenced(w, {"VERIFYING"}) /\ session[w].phase \in LeasedPhases /\ r \in Row /\ t \in Tasks
    BY <1>2, <1>3, <1>20 DEF BlockDelivery, VerificationFails, At
  <2>2. \A f \in {"delivery", "other"} :
          Freed(r, DeliveryStopped(r, f)) /\ DeliveryStopped(r, f).gen = r.gen
    BY <2>1, DeliveryFreed, GivesBack, Words
  <2>. QED BY <1>3, <1>20, <2>1, <2>2, Reports DEF BlockDelivery, VerificationFails
<1>21. CASE BaseDrifts(w)
  <2>1. /\ "drifting" \in Phases /\ {session[w].phase, "drifting"} \subseteq LeasedPhases
        /\ Goto(w, "drifting") /\ UNCHANGED task
    BY <1>21 DEF BaseDrifts, At, Phases, LeasedPhases
  <2>. QED BY <1>1, <2>1, MovesSession, SameRows DEF StaysOutside, Serves
<1>. QED BY <1>4, <1>5, <1>6, <1>7, <1>8, <1>9, <1>10, <1>11, <1>12, <1>14, <1>15,
            <1>16, <1>17, <1>18, <1>19, <1>20, <1>21 DEF Progress

LEMMA StepServes ==
    ASSUME IInv, [Next]_vars
    PROVE  Serves
<1>1. ASSUME NEW w \in Workers, Progress(w) \/ Heartbeat(w)
      PROVE  Serves
  BY <1>1, ProgressServes
<1>2. ASSUME NEW a \in Actors, GiveUp(a) \/ Crash(a)
      PROVE  Serves
  <2>1. UNCHANGED task /\ Leave(a)
    BY <1>2 DEF GiveUp, Crash
  <2>. QED BY <2>1, SameRows, EndsSession DEF StaysOutside, Serves
<1>3. ASSUME NEW t \in Tasks, NEW g \in procs[t], ProcessExits(t, g)
      PROVE  Serves
  BY <1>3, SameRows DEF ProcessExits, StaysOutside, Serves
<1>4. CASE Release
  <2>1. ASSUME NEW t \in Tasks
        PROVE  Aloof(task[t], task'[t])
    <3>1. task[t] \in Row
      BY RowTyped DEF IInv
    <3>2. CASE Releasable(t)
      <4>1. task[t].owner = None
        BY <3>2, NotHeld DEF Releasable, Active
      <4>2. task'[t] = Released(task[t])
        BY <1>4, <3>2 DEF Release
      <4>3. Released(task[t]).owner = task[t].owner /\ Released(task[t]).gen = task[t].gen
        BY <3>1 DEF Released, Row
      <4>. QED BY <4>1, <4>2, <4>3 DEF Aloof
    <3>3. CASE ~Releasable(t)
      BY <1>4, <3>3 DEF Release, Aloof
    <3>. QED BY <3>2, <3>3
  <2>. QED BY <1>4, <2>1 DEF Release, StaysOutside, Serves
<1>5. CASE SetPaused \/ UNCHANGED vars
  BY <1>5, SameRows DEF SetPaused, vars, StaysOutside, Serves
<1>6. CASE Reap \/ Tick
  BY <1>6 DEF Serves
<1>7. \/ \E w \in Workers : Progress(w) \/ Heartbeat(w)
      \/ \E a \in Actors : Reconcile(a) \/ GiveUp(a) \/ Crash(a)
      \/ \E o \in Operators : Operate(o)
      \/ \E t \in Tasks : Command(t)
      \/ \E t \in Tasks : \E g \in procs[t] : ProcessExits(t, g)
      \/ SetPaused \/ Reap \/ Release \/ Tick \/ UNCHANGED vars
  BY DEF Next
<1>. QED BY <1>1, <1>2, <1>3, <1>4, <1>5, <1>6, <1>7,
            ReconcileServes, OperateServes, CommandServes

\* Time passes over the rows.
LEMMA TickRow ==
    ASSUME TypeOK, Tick, NEW t \in Tasks
    PROVE  \E n \in Nat, m \in Nat :
             /\ task'[t] = [task[t] EXCEPT !.ttl = n, !.wait = m]
             /\ task[t].ttl = 0 => n = 0
<1>. DEFINE n == IF task[t].ttl > 0 THEN task[t].ttl - 1 ELSE 0
            m == IF task[t].wait > 0 THEN task[t].wait - 1 ELSE 0
<1>1. task[t].ttl \in Nat /\ task[t].wait \in Nat
  BY RowTyped DEF Row
<1>2. n \in Nat /\ m \in Nat /\ (task[t].ttl = 0 => n = 0)
  BY <1>1
<1>3. task'[t] = [task[t] EXCEPT !.ttl = n, !.wait = m]
  BY DEF Tick
<1>. HIDE DEF n, m
<1>. QED BY <1>2, <1>3

\* The reaper takes back what expired, under a new generation.
LEMMA ReapRow ==
    ASSUME TypeOK, Reap, NEW t \in Tasks
    PROVE  IF Expired(task[t])
             THEN task'[t].owner = None /\ task'[t].gen = task[t].gen + 1
             ELSE task'[t] = task[t]
<1>. DEFINE r == task[t]
<1>1. r \in Row /\ r.gen \in Nat
  BY RowTyped
<1>2. ASSUME NEW alive \in BOOLEAN
      PROVE  Reaped(t, r, alive).owner = None /\ Reaped(t, r, alive).gen = r.gen + 1
  <2>. DEFINE u      == Unleased(r)
              fenced == [u EXCEPT !.gen = @ + 1, !.error = "other"]
  <2>1. fenced \in Row /\ fenced.owner = None /\ fenced.gen = r.gen + 1
    <3>1. u \in Row /\ u.owner = None /\ u.gen = r.gen
      BY <1>1, UnleasedRow
    <3>. HIDE DEF r, u
    <3>2. \A n \in Nat, e \in Errors :
            /\ [u EXCEPT !.gen = n, !.error = e] \in Row
            /\ [u EXCEPT !.gen = n, !.error = e].owner = u.owner
            /\ [u EXCEPT !.gen = n, !.error = e].gen = n
      BY <3>1 DEF Row
    <3>3. u.gen + 1 \in Nat /\ u.gen + 1 = r.gen + 1
      BY <1>1, <3>1
    <3>. QED BY <3>1, <3>2, <3>3, Words
  <2>2. Reaped(t, r, alive) =
          IF r.state = "DELIVERY_RECONCILING"
            THEN [fenced EXCEPT !.state = "BLOCKED", !.failure = "delivery"]
          ELSE IF alive
            THEN [fenced EXCEPT !.state = "FAILED_SAFE", !.failure = "other"]
          ELSE IF r.attempts < MaxAttempts[t]
            THEN [fenced EXCEPT !.state = "READY", !.wait = 0, !.failure = "other"]
          ELSE [fenced EXCEPT !.state = "FAILED_SAFE", !.failure = "exhausted"]
    BY DEF Reaped
  <2>. HIDE DEF fenced
  <2>. QED BY <2>1, <2>2 DEF Row
<1>3. (task[t].pid \in procs[t]) \in BOOLEAN
  OBVIOUS
<1>4. task'[t] = IF Expired(r) THEN Reaped(t, r, task[t].pid \in procs[t]) ELSE r
  BY DEF Reap
<1>. QED BY <1>2, <1>3, <1>4

-----------------------------------------------------------------------------
(* The fate of a lost lease *)

\* Once its lease was lost a process changes no leased row, and no other row but
\* that of its task by a recovery of its delivery, which needs no lease; and once
\* a lease ran out nothing but the reaper changes the row: _assert_active_lease
\* compares the expiry besides the owner and the generation, so a late heartbeat,
\* report or piece of evidence finds the lease dead before the reaper comes round.
THEOREM LostLeases == Spec => LostLeaseIsDead
<1>1. ASSUME IInv, [Next]_vars
      PROVE  StaleTouchesNoLease
  <2>1. Serves /\ TypeOK
    BY <1>1, StepServes DEF IInv
  <2>2. SUFFICES ASSUME NEW w \in Workers, session[w].phase \in LeasedPhases,
                        ~Fenced(w, Active), session'[w] # session[w]
                 PROVE  OnlyRecovers(session[w].task)
    BY DEF StaleTouchesNoLease
  <2>3. w \in Actors /\ session \in [Actors -> Sessions]
    BY <2>1, Typed DEF Actors
  <2>4. ASSUME NEW v \in Workers, WorksUnderLease(v)
        PROVE  FALSE
    <3>1. v # w
      BY <2>2, <2>4 DEF WorksUnderLease
    <3>. QED BY <2>2, <2>3, <2>4, <3>1 DEF WorksUnderLease, Goto, Leave
  <2>5. ASSUME NEW v \in Workers, NEW t \in Tasks, TakesLease(v, t)
        PROVE  FALSE
    <3>1. v # w
      BY <2>2, <2>5 DEF TakesLease, At, LeasedPhases
    <3>. QED BY <2>2, <2>3, <2>5, <3>1 DEF TakesLease
  <2>6. CASE Reap \/ Tick
    BY <2>2, <2>6 DEF Reap, Tick
  <2>7. CASE StaysOutside
    <3>1. PICK a \in Actors, s \in Sessions : ChangesSession(a, s)
      BY <2>2, <2>7 DEF StaysOutside
    <3>2. a = w
      BY <2>2, <2>3, <3>1 DEF ChangesSession
    <3>. QED BY <2>2, <3>1, <3>2 DEF ChangesSession
  <2>. QED BY <2>1, <2>4, <2>5, <2>6, <2>7 DEF Serves
<1>2. ASSUME IInv, [Next]_vars, NEW t \in Tasks
      PROVE  OnlyReaperEnds(t)
  <2>. DEFINE r == task[t]
              s == task'[t]
  <2>1. /\ Serves /\ TypeOK /\ r \in Row /\ r.gen \in Nat /\ r.ttl \in Nat
        /\ task \in [Tasks -> Row]
    BY <1>2, StepServes, RowTyped DEF IInv, Row, TypeOK
  <2>2. SUFFICES ASSUME Expired(r)
                 PROVE  \/ s = r
                        \/ s.owner = None /\ s.gen > r.gen
                        \/ s = [r EXCEPT !.wait = s.wait]
    BY DEF OnlyReaperEnds
  <2>3. r.owner # None /\ r.ttl = 0
    BY <2>2 DEF Expired
  <2>4. ASSUME NEW w \in Workers, WorksUnderLease(w)
        PROVE  s = r
    <3>1. session[w].task # t
      BY <2>3, <2>4 DEF WorksUnderLease, Fenced, LeaseHeld, Row0
    <3>. QED BY <2>1, <2>4, <3>1 DEF WorksUnderLease, Write
  <2>5. ASSUME NEW w \in Workers, NEW u \in Tasks, TakesLease(w, u)
        PROVE  s = r
    BY <2>3, <2>5 DEF TakesLease, Aloof
  <2>6. CASE Reap
    BY <2>1, <2>2, <2>6, ReapRow
  <2>7. CASE Tick
    <3>1. PICK m \in Nat : s = [r EXCEPT !.ttl = 0, !.wait = m]
      BY <2>1, <2>3, <2>7, TickRow
    <3>2. s = [r EXCEPT !.wait = m]
      <4>. HIDE DEF r, s
      <4>. QED BY <2>1, <2>3, <3>1 DEF Row
    <3>3. s.wait = m
      <4>. HIDE DEF r, s
      <4>. QED BY <2>1, <3>2 DEF Row
    <3>. QED BY <3>2, <3>3
  <2>8. CASE StaysOutside
    BY <2>3, <2>8 DEF StaysOutside, Aloof
  <2>. QED BY <2>1, <2>4, <2>5, <2>6, <2>7, <2>8 DEF Serves
<1>3. IInv /\ [Next]_vars =>
        [StaleTouchesNoLease /\ \A t \in Tasks : OnlyReaperEnds(t)]_vars
  BY <1>1, <1>2
<1>. QED BY <1>3, Invariance, PTL DEF Spec, LostLeaseIsDead


-----------------------------------------------------------------------------
(* The refinement *)

\* What the service sees of a row and of a session.
Content(r) == [r EXCEPT !.owner = None, !.gen = 0, !.ttl = 0, !.wait = 0]

ClaimOf(s) ==
    IF s.phase \in LeasedPhases THEN [item |-> s.task, gen |-> s.gen]
                                ELSE [item |-> None, gen |-> 0]

\* The mapping of the variables, one item and one client at a time.
holderBar     == [t \in Tasks |-> task[t].owner]
generationBar == [t \in Tasks |-> task[t].gen]
contentBar    == [t \in Tasks |-> Content(task[t])]
claimsBar     == [w \in Workers |-> ClaimOf(session[w])]

\* Time is no content.
LEMMA ContentIsTimeless ==
    ASSUME NEW r \in Row, NEW n \in Nat, NEW m \in Nat
    PROVE  Content([r EXCEPT !.ttl = n, !.wait = m]) = Content(r)
BY DEF Content, Row

\* An action of the service, from what happens to the items and the clients.
LEMMA ServiceOutside ==
    ASSUME \A t \in Tasks : /\ task'[t].owner = task[t].owner
                            /\ task'[t].gen = task[t].gen
                            /\ task[t].owner # None => Content(task'[t]) = Content(task[t]),
           \/ \A w \in Workers : ClaimOf(session'[w]) = ClaimOf(session[w])
           \/ \E w \in Workers :
                /\ ClaimOf(session'[w]) = [item |-> None, gen |-> 0]
                /\ \A v \in Workers \ {w} : ClaimOf(session'[v]) = ClaimOf(session[v])
    PROVE  Service!Outside
<1>1. UNCHANGED <<holderBar, generationBar>>
  BY DEF holderBar, generationBar
<1>2. \/ UNCHANGED claimsBar
      \/ \E w \in Workers : claimsBar' = [claimsBar EXCEPT ![w] = Service!NoClaim]
  BY DEF claimsBar, Service!NoClaim
<1>3. Service!Protects(Service!Held)
  BY DEF Service!Protects, Service!Held, Content
<1>. QED BY <1>1, <1>2, <1>3
         DEF Service!Outside, holderBar, generationBar, claimsBar, ClaimOf


\* The other rows and the held ones.
LEMMA ServiceGrant ==
    ASSUME NEW w \in Workers, NEW t \in Tasks,
           task[t].owner = None,
           task'[t].owner = WorkerBuilder[w],
           task'[t].gen = task[t].gen + 1,
           \A u \in Tasks \ {t} : Aloof(task[u], task'[u]),
           ClaimOf(session'[w]) = [item |-> t, gen |-> task[t].gen + 1],
           \A v \in Workers \ {w} : ClaimOf(session'[v]) = ClaimOf(session[v])
    PROVE  Service!Grant(w, t)
<1>1. t \notin Service!Held
  BY DEF Service!Held
<1>2. holderBar' = [holderBar EXCEPT ![t] = WorkerBuilder[w]]
  BY DEF holderBar, Aloof
<1>3. generationBar' = [generationBar EXCEPT ![t] = @ + 1]
  BY DEF generationBar, Aloof
<1>4. claimsBar' = [claimsBar EXCEPT ![w] = [item |-> t, gen |-> generationBar'[t]]]
  BY DEF claimsBar, generationBar
<1>5. Service!Protects(Service!Held)
  BY DEF Service!Protects, Service!Held, Aloof
<1>. QED BY <1>1, <1>2, <1>3, <1>4, <1>5
         DEF Service!Grant, holderBar, generationBar, claimsBar, ClaimOf

LEMMA ServiceUse ==
    ASSUME NEW w \in Workers, NEW t \in Tasks, t # None, None \notin Builders,
           WorkerBuilder[w] \in Builders,
           ClaimOf(session[w]) = [item |-> t, gen |-> task[t].gen],
           task[t].owner = WorkerBuilder[w],
           task'[t].gen = task[t].gen,
           \A u \in Tasks \ {t} : task'[u] = task[u],
           \A v \in Workers \ {w} : ClaimOf(session'[v]) = ClaimOf(session[v]),
           \/ /\ task'[t].owner = task[t].owner
              /\ ClaimOf(session'[w]) = ClaimOf(session[w])
           \/ /\ task'[t].owner = None
              /\ ClaimOf(session'[w]) = [item |-> None, gen |-> 0]
    PROVE  Service!Use(w)
<1>1. claimsBar[w].item = t /\ claimsBar[w].gen = task[t].gen
  BY DEF claimsBar
<1>2. Service!Current(w)
  BY <1>1 DEF Service!Current, Service!Held, claimsBar, ClaimOf
<1>3. UNCHANGED generationBar
  BY DEF generationBar
<1>4. \/ UNCHANGED <<holderBar, claimsBar>>
      \/ /\ holderBar' = [holderBar EXCEPT ![t] = None]
         /\ claimsBar' = [claimsBar EXCEPT ![w] = Service!NoClaim]
  <2>1. CASE /\ task'[t].owner = task[t].owner
             /\ ClaimOf(session'[w]) = ClaimOf(session[w])
    BY <2>1 DEF holderBar, claimsBar
  <2>2. CASE /\ task'[t].owner = None
             /\ ClaimOf(session'[w]) = [item |-> None, gen |-> 0]
    BY <2>2 DEF holderBar, claimsBar, Service!NoClaim
  <2>. QED BY <2>1, <2>2
<1>5. Service!Protects(Tasks \ {claimsBar[w].item})
  BY <1>1 DEF Service!Protects
<1>6. \/ UNCHANGED <<holderBar, claimsBar>>
      \/ /\ holderBar' = [holderBar EXCEPT ![claimsBar[w].item] = None]
         /\ claimsBar' = [claimsBar EXCEPT ![w] = Service!NoClaim]
  BY <1>1, <1>4
<1>. QED BY <1>2, <1>3, <1>5, <1>6, Zenon
         DEF Service!Use, holderBar, generationBar, claimsBar, ClaimOf

LEMMA ServiceExpire ==
    ASSUME \A t \in Tasks :
             IF Expired(task[t])
               THEN task'[t].owner = None /\ task'[t].gen = task[t].gen + 1
               ELSE task'[t] = task[t],
           \A w \in Workers : ClaimOf(session'[w]) = ClaimOf(session[w])
    PROVE  \E S \in SUBSET Service!Held : Service!Expire(S)
<1>1. PICK S \in SUBSET Service!Held : \A t \in Tasks : t \in S <=> Expired(task[t])
  <2>. DEFINE T == {t \in Tasks : Expired(task[t])}
  <2>1. T \in SUBSET Service!Held /\ \A t \in Tasks : t \in T <=> Expired(task[t])
    BY DEF Service!Held, Expired
  <2>. QED BY <2>1
<1>2. holderBar' = [t \in Tasks |-> IF t \in S THEN None ELSE holderBar[t]]
  BY <1>1 DEF holderBar
<1>3. generationBar' = [t \in Tasks |-> IF t \in S THEN generationBar[t] + 1 ELSE generationBar[t]]
  BY <1>1 DEF generationBar
<1>4. UNCHANGED claimsBar
  BY DEF claimsBar
<1>5. Service!Protects(Tasks \ S)
  BY <1>1 DEF Service!Protects
<1>6. Service!Expire(S)
  <2>1. S \subseteq Service!Held /\ Service!Protects(Tasks \ S)
    BY <1>1, <1>5
  <2>. QED BY <2>1, <1>2, <1>3, <1>4, Zenon
           DEF Service!Expire, holderBar, generationBar, claimsBar, ClaimOf
<1>. QED BY <1>1, <1>6

LEMMA ServiceStep ==
    ASSUME IInv, [Next]_vars
    PROVE  Service!ServiceNext
<1>1. /\ Serves /\ TypeOK /\ session \in [Actors -> Sessions]
      /\ \A t \in Tasks : task[t] \in Row
      /\ task \in [Tasks -> Row]
      /\ \A w \in Workers : w \in Actors
  BY StepServes, Typed, RowTyped DEF IInv, Actors
<1>2. ASSUME NEW w \in Workers, WorksUnderLease(w)
      PROVE  Service!Use(w)
  <2>. DEFINE t == session[w].task
  <2>1. /\ t \in Tasks /\ Row0(w) = task[t] /\ Row0(w).owner = WorkerBuilder[w]
        /\ Row0(w).gen = session[w].gen
    BY <1>2, FencedRow DEF WorksUnderLease, Row0, Fenced, LeaseHeld
  <2>2. t # None /\ None \notin Builders /\ WorkerBuilder[w] \in Builders
    BY <2>1, QueueAssumption, RowAssumption
  <2>3. PICK row \in Row :
          /\ Write(t, row)
          /\ row.gen = task[t].gen
          /\ \/ row.owner = task[t].owner /\ \E p \in LeasedPhases : Goto(w, p)
             \/ row.owner = None /\ Leave(w)
    BY <1>2, <2>1 DEF WorksUnderLease
  <2>4. task'[t] = row /\ \A u \in Tasks \ {t} : task'[u] = task[u]
    BY <1>1, <2>1, <2>3 DEF Write
  <2>5. ClaimOf(session[w]) = [item |-> t, gen |-> task[t].gen]
    BY <1>2, <2>1 DEF WorksUnderLease, ClaimOf
  <2>6. \A v \in Workers \ {w} : session'[v] = session[v]
    BY <1>1, <2>3 DEF Goto, Leave
  <2>7. ASSUME NEW p \in LeasedPhases, Goto(w, p)
        PROVE  ClaimOf(session'[w]) = ClaimOf(session[w])
    <3>1. session'[w] = [session[w] EXCEPT !.phase = p] /\ session[w] \in Sessions
      BY <1>1, <2>7 DEF Goto
    <3>2. /\ session'[w].phase = p /\ session'[w].task = session[w].task
          /\ session'[w].gen = session[w].gen
      BY <3>1 DEF Sessions
    <3>. QED BY <1>2, <3>2 DEF WorksUnderLease, ClaimOf
  <2>8. ASSUME Leave(w)
        PROVE  ClaimOf(session'[w]) = [item |-> None, gen |-> 0]
    BY <1>1, <2>8 DEF Leave, Idle, ClaimOf, LeasedPhases
  <2>. HIDE DEF t
  <2>. QED BY <2>1, <2>2, <2>3, <2>4, <2>5, <2>6, <2>7, <2>8, ServiceUse
<1>3. ASSUME NEW w \in Workers, NEW t \in Tasks, TakesLease(w, t)
      PROVE  Service!Grant(w, t)
  <2>1. /\ session'[w] = [phase |-> "claimed", task |-> t, gen |-> task[t].gen + 1]
        /\ \A v \in Workers \ {w} : session'[v] = session[v]
    BY <1>1, <1>3 DEF TakesLease
  <2>2. ClaimOf(session'[w]) = [item |-> t, gen |-> task[t].gen + 1]
    BY <2>1 DEF ClaimOf, LeasedPhases
  <2>. QED BY <1>3, <2>1, <2>2, ServiceGrant DEF TakesLease
<1>4. CASE Reap
  <2>1. UNCHANGED session
    BY <1>4 DEF Reap
  <2>. QED BY <1>1, <1>4, <2>1, ReapRow, ServiceExpire DEF Service!ServiceNext
<1>5. CASE Tick
  <2>1. \A t \in Tasks : /\ task'[t].owner = task[t].owner
                         /\ task'[t].gen = task[t].gen
                         /\ Content(task'[t]) = Content(task[t])
    <3>1. SUFFICES ASSUME NEW t \in Tasks
                   PROVE  /\ task'[t].owner = task[t].owner
                          /\ task'[t].gen = task[t].gen
                          /\ Content(task'[t]) = Content(task[t])
      OBVIOUS
    <3>2. PICK n \in Nat, m \in Nat : task'[t] = [task[t] EXCEPT !.ttl = n, !.wait = m]
      BY <1>1, <1>5, TickRow
    <3>3. task[t] \in Row
      BY <1>1
    <3>. DEFINE r == task[t]
                s == task'[t]
    <3>4. s = [r EXCEPT !.ttl = n, !.wait = m] /\ r \in Row
      BY <3>2, <3>3
    <3>. HIDE DEF r, s
    <3>5. Content(s) = Content(r)
      BY <3>4, ContentIsTimeless
    <3>6. s.owner = r.owner /\ s.gen = r.gen
      BY <3>4 DEF Row
    <3>. QED BY <3>5, <3>6 DEF r, s
  <2>2. UNCHANGED session
    BY <1>5 DEF Tick
  <2>. QED BY <2>1, <2>2, ServiceOutside DEF Service!ServiceNext
<1>6. CASE StaysOutside
  <2>1. \A t \in Tasks : /\ task'[t].owner = task[t].owner
                         /\ task'[t].gen = task[t].gen
                         /\ task[t].owner # None => Content(task'[t]) = Content(task[t])
    BY <1>6 DEF StaysOutside, Aloof
  <2>2. CASE UNCHANGED session
    BY <2>1, <2>2, ServiceOutside DEF Service!ServiceNext
  <2>3. ASSUME NEW a \in Actors, NEW s \in Sessions, ChangesSession(a, s)
        PROVE  \/ \A w \in Workers : ClaimOf(session'[w]) = ClaimOf(session[w])
               \/ \E w \in Workers :
                    /\ ClaimOf(session'[w]) = [item |-> None, gen |-> 0]
                    /\ \A v \in Workers \ {w} : ClaimOf(session'[v]) = ClaimOf(session[v])
    <3>1. session'[a] = s /\ \A v \in Workers \ {a} : session'[v] = session[v]
      BY <1>1, <2>3 DEF ChangesSession
    <3>2. CASE a \notin Workers
      BY <3>1, <3>2
    <3>3. CASE a \in Workers /\ s.phase \notin LeasedPhases
      <4>1. ClaimOf(session'[a]) = [item |-> None, gen |-> 0]
        BY <3>1, <3>3 DEF ClaimOf
      <4>. QED BY <3>1, <3>3, <4>1
    <3>4. CASE a \in Workers /\ s.phase \in LeasedPhases
      <4>1. ClaimOf(session'[a]) = ClaimOf(session[a])
        BY <2>3, <3>1, <3>4 DEF ChangesSession, ClaimOf
      <4>. QED BY <3>1, <4>1
    <3>. QED BY <3>2, <3>3, <3>4
  <2>. QED BY <1>6, <2>1, <2>2, <2>3, ServiceOutside DEF StaysOutside, Service!ServiceNext
<1>. QED BY <1>1, <1>2, <1>3, <1>4, <1>5, <1>6 DEF Serves, Service!ServiceNext

\* Every behaviour of the queue is one of the fenced lease service: whatever
\* process takes a step, a leased row is changed only by a process that remembers
\* its generation, or by its expiry.
THEOREM ServiceImplemented == Spec => ImplementsLeaseService
<1>1. Init => Service!ServiceInit
  BY DEF Init, Service!ServiceInit, NewRow, Idle, LeasedPhases, Service!NoClaim, Actors
<1>2. IInv /\ [Next]_vars => [Service!ServiceNext]_(Service!serviceVars)
  BY ServiceStep
<1>. QED BY <1>1, <1>2, Invariance, PTL DEF Spec, Service!ServiceSpec, ImplementsLeaseService

=============================================================================
