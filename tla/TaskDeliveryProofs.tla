------------------------- MODULE TaskDeliveryProofs -------------------------
(***************************************************************************)
(* Theorems about the delivery of a task for every set of workers and      *)
(* operators, every number of attempts and any number of moves of the base *)
(* branch.                                                                 *)
(*                                                                         *)
(* A step changes the session of one process, and then perhaps the row and *)
(* what Git has.  The first part states what the rows, the sessions and    *)
(* the worktrees are like, and that the other sessions do not notice; each *)
(* action then is a case of one of three lemmas.                           *)
(***************************************************************************)
EXTENDS TaskDeliveryProperties, TLAPS

Sessions == [phase : Phases, attempt : 0..MaxReconciliations, work : Work,
             own : SUBSET DOMAIN Nothing]

\* A worktree that is being worked in, and a commit that is being delivered.
TreePhases == {"assigning", "executing", "scoping", "committing", "committed",
               "verifying", "verified", "heading", "pushing", "applying"}
CommitPhases == {"committed", "verifying", "verified", "heading", "pushing", "pushed",
                 "checking", "opening", "binding", "bound", "finishing"}
RecoveryPhases == {"noting", "refreshing", "rereading", "applying", "failing"}
\* The phases in which a process has not looked at the row yet, or not again.
OuterPhases == {"idle", "drifting", "entering"}

\* What is known of a delivery is there, in worktrees T.
Exists(k, T) ==
    /\ k.tree # None => T[k.tree] # None
    /\ k.commit # None => T[k.commit[1]] # None /\ T[k.commit[1]].head >= k.commit[2]

-----------------------------------------------------------------------------
(* The inductive invariant: types *)

RowOK(row, T) ==
    /\ row \in Rows
    /\ Exists(row.work, T) /\ Exists(row.rec, T)
    /\ row.work.branch # None
    /\ row.work.tree # None => row.work.base # None
    /\ row.state = "DELIVERY_RECONCILING" => row.attempts >= 1 /\ row.rec.base # None

SessionOK(s, T, P) ==
    /\ s \in Sessions
    /\ Exists(s.work, T)
    /\ s.phase \in TreePhases => s.work.tree # None
    /\ s.phase \in CommitPhases => s.work.commit # None
    /\ \/ s.phase = "pushing"
       \/ s.phase \in {"verifying", "verified"} /\ s.attempt # 0
       => s.work.tree # None /\ s.work.commit[1] = s.work.tree
    /\ s.phase = "pushed" => s.work.remote # None
    /\ s.phase \in {"executing", "committed"} => s.attempt = 0
    /\ \/ s.work.tree # None
       \/ s.attempt # 0
       \/ s.phase \in CommitPhases \cup {"drifting"}
       => s.work.base # None
    /\ s.phase \notin OuterPhases => s.work.branch # None
    /\ s.phase = "binding" => P[s.work.branch] # None
    /\ s.phase \in RecoveryPhases => s.attempt # 0

WorldOK ==
    /\ trees \in [Trees -> [branch : Trees, base : Nat, head : Nat, dirty : BOOLEAN]
                           \cup {None}]
    /\ remote \in [Trees -> Commits \cup {None}]
    /\ pulls \in [Trees -> [commit : Commits, base : Nat, opened : Nat] \cup {None}]
    /\ base \in Nat
    /\ evidence \subseteq Commits
    /\ late \in Nat /\ overlaps \in Nat

-----------------------------------------------------------------------------
(* The inductive invariant: the first recovery *)

\* A row that is offered for review rests; before that its branch is the task's.
\* What a first recovery writes is its own worktree, branch and commit.
FirstRow(row, P) ==
    /\ row.state = "PR_READY" => row.owner = None
    /\ row.work.branch # 0 => row.state = "PR_READY"
    /\ row.attempts = 0 =>
         /\ row.rec.branch = None /\ row.rec.tree = None /\ row.rec.commit = None
         /\ ~row.rec.pr
    /\ row.attempts = 1 =>
         /\ row.rec.branch \in {None, 1} /\ row.rec.tree \in {None, 1}
         /\ row.rec.commit # None => row.rec.commit[1] = 1
         /\ row.rec.pr => P[1] # None
         /\ row.work.branch # 0 =>
              /\ row.work.branch = 1 /\ P[1] # None
              /\ row.work.commit # None /\ row.work.commit[1] = 1
              /\ row.work.base = row.rec.base

\* Worktree and branch 1 are made by a first recovery, on the base in the row.
FirstTree(row, T, P) ==
    /\ row.attempts = 0 => T[1] = None /\ P[1] = None
    /\ row.attempts = 1 =>
         /\ T[1] # None => T[1].base = row.rec.base
         /\ P[1] # None => P[1].base = row.rec.base

\* A process works for no attempt the row does not count, and one that works on
\* the first keeps to it until the base moves.
FirstSession(s, row, P) ==
    /\ s.attempt <= row.attempts
    /\ s.phase \notin OuterPhases =>
         /\ s.attempt = 0 => s.work.branch = 0
         /\ s.attempt # 0 /\ row.attempts = 1 =>
              /\ s.work.base = row.rec.base /\ s.work.branch = 1
              /\ s.work.tree \in {None, 1}
              /\ s.work.commit # None => s.work.commit[1] = 1
              /\ s.work.pr => P[1] # None
              /\ s.phase \in {"bound", "finishing"} => s.work.pr

IInv ==
    /\ WorldOK
    /\ RowOK(task, trees)
    /\ FirstRow(task, pulls)
    /\ FirstTree(task, trees, pulls)
    /\ session \in [Processes -> Sessions]
    /\ \A p \in Processes : /\ SessionOK(session[p], trees, pulls)
                            /\ FirstSession(session[p], task, pulls)

-----------------------------------------------------------------------------
(* Steps *)

\* Worktrees and pull requests stay, heads move on.
Grows ==
    /\ \A t \in Trees : trees[t] # None =>
         /\ trees'[t] # None
         /\ trees'[t].head >= trees[t].head
         /\ trees'[t].base = trees[t].base
    /\ \A b \in Trees : pulls[b] # None => pulls'[b] = pulls[b]

\* What a transaction may make of the row.
RowMoves(row) ==
    /\ RowOK(row, trees)
    /\ FirstRow(row, pulls)
    /\ row.attempts >= task.attempts
    /\ row.attempts = 1 /\ task.attempts = 1 => row.rec.base = task.rec.base

Becomes(p, s) == session' = [session EXCEPT ![p] = s]

LEMMA ExistsStill ==
    ASSUME NEW k \in Work, Exists(k, trees), WorldOK, WorldOK', Grows
    PROVE  Exists(k, trees')
<1>1. CASE k.commit = None
  BY <1>1 DEF Exists, Grows, Work
<1>2. CASE k.commit # None
  <2>1. k.commit[1] \in Trees /\ k.commit[2] \in Nat
    BY <1>2 DEF Work, Commits
  <2>2. trees[k.commit[1]] # None /\ trees[k.commit[1]].head >= k.commit[2]
    BY <1>2 DEF Exists
  <2>3. /\ trees'[k.commit[1]] # None
        /\ trees'[k.commit[1]].head >= trees[k.commit[1]].head
    BY <2>1, <2>2 DEF Grows
  <2>4. trees[k.commit[1]].head \in Nat /\ trees'[k.commit[1]].head \in Nat
    BY <2>1, <2>2, <2>3 DEF WorldOK
  <2>5. trees'[k.commit[1]].head >= k.commit[2]
    BY <2>1, <2>2, <2>3, <2>4
  <2>. QED BY <2>3, <2>5 DEF Exists, Grows, Work
<1>. QED BY <1>1, <1>2

LEMMA RowStill ==
    ASSUME NEW row, RowOK(row, trees), FirstRow(row, pulls), WorldOK, WorldOK', Grows
    PROVE  RowOK(row, trees') /\ FirstRow(row, pulls')
<1>1. row.work \in Work /\ row.rec \in Work
  BY DEF RowOK, Rows
<1>2. Exists(row.work, trees') /\ Exists(row.rec, trees')
  BY <1>1, ExistsStill DEF RowOK
<1>3. 1 \in Trees
  BY DEF Trees, MaxReconciliations
<1>4. pulls[1] # None => pulls'[1] # None
  BY <1>3 DEF Grows
<1>. QED BY <1>2, <1>4 DEF RowOK, FirstRow

LEMMA SessionStill ==
    ASSUME NEW s, SessionOK(s, trees, pulls), FirstSession(s, task, pulls),
           WorldOK, WorldOK', Grows, RowMoves(task'), task.attempts \in Nat
    PROVE  SessionOK(s, trees', pulls') /\ FirstSession(s, task', pulls')
<1>1. s \in Sessions /\ s.work \in Work /\ s.attempt \in Nat
  BY DEF SessionOK, Sessions, MaxReconciliations
<1>2. Exists(s.work, trees')
  BY <1>1, ExistsStill DEF SessionOK
<1>3. 1 \in Trees
  BY DEF Trees, MaxReconciliations
<1>4. pulls[1] # None => pulls'[1] # None
  BY <1>3 DEF Grows
<1>5. s.phase = "binding" => pulls'[s.work.branch] # None
  <2>1. s.phase = "binding" => s.work.branch \in Trees
    BY <1>1 DEF SessionOK, OuterPhases, Work
  <2>. QED BY <2>1 DEF SessionOK, Grows
<1>6. SessionOK(s, trees', pulls')
  BY <1>2, <1>5 DEF SessionOK
<1>7. task'.attempts \in Nat
  BY DEF RowMoves, RowOK, Rows, MaxReconciliations
<1>8. FirstSession(s, task', pulls')
  BY <1>1, <1>4, <1>7 DEF FirstSession, RowMoves
<1>. QED BY <1>6, <1>8

\* A step of one process.
LEMMA StepOf ==
    ASSUME IInv, NEW p \in Processes, NEW s, Becomes(p, s),
           WorldOK', Grows, RowMoves(task'), FirstTree(task', trees', pulls'),
           SessionOK(s, trees', pulls'), FirstSession(s, task', pulls')
    PROVE  IInv'
<1>1. RowOK(task', trees') /\ FirstRow(task', pulls')
  BY RowStill DEF RowMoves, IInv
<1>2. session' \in [Processes -> Sessions]
  BY DEF IInv, Becomes, SessionOK
<1>3. ASSUME NEW q \in Processes
      PROVE  SessionOK(session'[q], trees', pulls') /\ FirstSession(session'[q], task', pulls')
  <2>1. CASE q = p
    BY <2>1 DEF IInv, Becomes
  <2>2. CASE q # p
    <3>1. session'[q] = session[q]
      BY <2>2 DEF IInv, Becomes
    <3>2. task.attempts \in Nat
      BY DEF IInv, RowOK, Rows, MaxReconciliations
    <3>. QED BY <3>1, <3>2, SessionStill DEF IInv
  <2>. QED BY <2>1, <2>2
<1>. QED BY <1>1, <1>2, <1>3 DEF IInv

\* A step that leaves worktrees and pull requests alone.
LEMMA GitRests ==
    ASSUME IInv, UNCHANGED <<trees, pulls>>
    PROVE  Grows
<1>1. \A t \in Trees : trees[t] # None => trees[t].head \in Nat
  BY DEF IInv, WorldOK
<1>. QED BY <1>1 DEF Grows

LEMMA QuietTree ==
    ASSUME IInv, UNCHANGED <<trees, pulls>>, RowMoves(task')
    PROVE  FirstTree(task', trees', pulls')
<1>1. task.attempts \in Nat /\ task'.attempts \in Nat
  BY DEF IInv, RowMoves, RowOK, Rows, MaxReconciliations
<1>. QED BY <1>1 DEF IInv, RowMoves, FirstTree

LEMMA QuietStep ==
    ASSUME IInv, NEW p \in Processes, NEW s, Becomes(p, s), UNCHANGED <<trees, pulls>>,
           WorldOK', RowMoves(task'),
           SessionOK(s, trees, pulls), FirstSession(s, task', pulls)
    PROVE  IInv'
BY GitRests, QuietTree, StepOf

\* The row as it is.
LEMMA RowRests ==
    ASSUME IInv
    PROVE  RowMoves(task)
<1>1. task.attempts \in Nat
  BY DEF IInv, RowOK, Rows, MaxReconciliations
<1>. QED BY <1>1 DEF IInv, RowMoves

-----------------------------------------------------------------------------
(* The row *)

\* The invariant, one session at a time.
LEMMA Session ==
    ASSUME IInv, NEW p \in Processes
    PROVE  /\ session[p] \in Sessions
           /\ session[p].phase \in Phases
           /\ session[p].attempt \in 0..MaxReconciliations
           /\ session[p].own \in SUBSET DOMAIN Nothing
           /\ Mine(p) \in Work
           /\ SessionOK(session[p], trees, pulls)
           /\ FirstSession(session[p], task, pulls)
<1>1. session[p] \in Sessions /\ SessionOK(session[p], trees, pulls)
      /\ FirstSession(session[p], task, pulls)
  BY DEF IInv
<1>. QED BY <1>1 DEF Sessions, Mine

LEMMA RowTyped ==
    ASSUME IInv
    PROVE  /\ task \in Rows /\ task.work \in Work /\ task.rec \in Work
           /\ task.state \in States
           /\ task.attempts \in 0..MaxReconciliations /\ task.attempts \in Nat
           /\ task.claims \in 0..MaxAttempts /\ MaxAttempts \in Nat
BY TaskDeliveryAssumptions DEF IInv, RowOK, Rows, MaxReconciliations

\* The fence is never open on a row that is offered for review.
LEMMA Unfinished ==
    ASSUME IInv, NEW p \in Processes, MayWrite(p)
    PROVE  task.state # "PR_READY" /\ task.work.branch = 0
<1>1. p # None
  BY TaskDeliveryAssumptions
<1>2. task.state # "PR_READY"
  BY <1>1 DEF IInv, FirstRow, MayWrite
<1>. QED BY <1>2 DEF IInv, FirstRow

LEMMA UnleasedMoves ==
    ASSUME IInv, task.state # "PR_READY",
           NEW st \in States \ {"DELIVERY_RECONCILING"},
           NEW f \in {"none", "delivery", "other"}
    PROVE  RowMoves(Unleased(st, f))
<1>. DEFINE r == task
            row == [r EXCEPT !.state = st, !.owner = None, !.failure = f]
<1>1. /\ r \in Rows /\ RowOK(r, trees) /\ FirstRow(r, pulls) /\ r.attempts \in Nat
      /\ r.work.branch = 0
  BY RowTyped DEF IInv, FirstRow
<1>. HIDE DEF r
<1>2. /\ row \in Rows /\ row.state = st /\ row.owner = None
      /\ row.work = r.work /\ row.rec = r.rec /\ row.attempts = r.attempts
  BY <1>1 DEF Rows
<1>. HIDE DEF row
<1>3. RowOK(row, trees) /\ FirstRow(row, pulls)
  BY <1>1, <1>2 DEF RowOK, FirstRow
<1>4. row.attempts >= r.attempts /\ (row.attempts = 1 /\ r.attempts = 1 => row.rec.base = r.rec.base)
  BY <1>1, <1>2
<1>5. RowMoves(row)
  BY <1>3, <1>4 DEF RowMoves, r
<1>. QED BY <1>5 DEF Unleased, row, r

\* A change of state and claims, under the lease.
LEMMA LeasedMoves ==
    ASSUME IInv, task.state # "PR_READY", NEW o \in Workers \cup {None},
           NEW st \in {"CLAIMED", "VERIFYING"},
           NEW n \in 0..MaxAttempts, NEW f \in {"none", "delivery", "other"}
    PROVE  /\ RowMoves([task EXCEPT !.state = st, !.owner = o, !.claims = n, !.failure = f])
           /\ RowMoves([task EXCEPT !.state = st])
<1>. DEFINE r == task
            row == [r EXCEPT !.state = st, !.owner = o, !.claims = n, !.failure = f]
            row2 == [r EXCEPT !.state = st]
<1>1. /\ r \in Rows /\ RowOK(r, trees) /\ FirstRow(r, pulls) /\ r.attempts \in Nat
      /\ r.work.branch = 0
  BY RowTyped DEF IInv, FirstRow
<1>2. st \in States
  BY DEF States
<1>. HIDE DEF r
<1>3. /\ row \in Rows /\ row.state = st
      /\ row.work = r.work /\ row.rec = r.rec /\ row.attempts = r.attempts
  BY <1>1, <1>2 DEF Rows
<1>4. /\ row2 \in Rows /\ row2.state = st
      /\ row2.work = r.work /\ row2.rec = r.rec /\ row2.attempts = r.attempts
  BY <1>1, <1>2 DEF Rows
<1>. HIDE DEF row, row2
<1>5. RowOK(row, trees) /\ FirstRow(row, pulls)
  BY <1>1, <1>3 DEF RowOK, FirstRow
<1>6. RowOK(row2, trees) /\ FirstRow(row2, pulls)
  BY <1>1, <1>4 DEF RowOK, FirstRow
<1>7. RowMoves(row) /\ RowMoves(row2)
  BY <1>1, <1>3, <1>4, <1>5, <1>6 DEF RowMoves, r
<1>. QED BY <1>7 DEF row, row2, r

\* What a process learned of its recovery, over what the row has of it.
LEMMA Merge ==
    ASSUME NEW k \in Work, NEW m \in Work, NEW own
    PROVE  LET n == [f \in DOMAIN k |-> IF f \in own THEN m[f] ELSE k[f]]
           IN  /\ n \in Work
               /\ n.base \in {m.base, k.base}
               /\ n.branch \in {m.branch, k.branch}
               /\ n.tree \in {m.tree, k.tree}
               /\ n.commit \in {m.commit, k.commit}
               /\ n.pr \in {m.pr, k.pr}
<1>. DEFINE n == [f \in DOMAIN k |-> IF f \in own THEN m[f] ELSE k[f]]
<1>1. DOMAIN k = {"base", "branch", "tree", "commit", "remote", "pr"}
  BY DEF Work
<1>2. /\ n.base \in {m.base, k.base}
      /\ n.branch \in {m.branch, k.branch}
      /\ n.tree \in {m.tree, k.tree}
      /\ n.commit \in {m.commit, k.commit}
      /\ n.remote \in {m.remote, k.remote}
      /\ n.pr \in {m.pr, k.pr}
  BY <1>1
<1>3. n = [base |-> n.base, branch |-> n.branch, tree |-> n.tree, commit |-> n.commit,
           remote |-> n.remote, pr |-> n.pr]
  BY <1>1
<1>. HIDE DEF n
<1>4. n \in Work
  BY <1>2, <1>3 DEF Work
<1>. QED BY <1>2, <1>4 DEF n

LEMMA SavedMoves ==
    ASSUME IInv, NEW p \in Processes, MayWrite(p), session[p].phase \notin OuterPhases
    PROVE  RowMoves(Saved(p))
<1>. DEFINE r == task
            s == session[p]
            m == Mine(p)
<1>1. /\ r \in Rows /\ RowOK(r, trees) /\ FirstRow(r, pulls) /\ r.attempts \in Nat
      /\ r.work.branch = 0 /\ r.state # "PR_READY"
      /\ r.work \in Work /\ r.rec \in Work
  BY RowTyped, Unfinished DEF IInv
<1>2. /\ SessionOK(s, trees, pulls) /\ FirstSession(s, r, pulls)
      /\ s.work = m /\ m \in Work /\ s.attempt \in Nat /\ s.phase \notin OuterPhases
  BY Session DEF Mine, MaxReconciliations
<1>3. (s.attempt = 0) <=> Delivering(p)
  BY DEF Delivering
<1>4. CASE s.attempt = 0
  <2>. DEFINE row == [r EXCEPT !.work = m]
  <2>1. Saved(p) = row
    BY <1>3, <1>4 DEF Saved
  <2>. HIDE DEF r, s, m
  <2>2. /\ row \in Rows /\ row.state = r.state /\ row.owner = r.owner
        /\ row.work = m /\ row.rec = r.rec /\ row.attempts = r.attempts
    BY <1>1, <1>2 DEF Rows
  <2>. HIDE DEF row
  <2>3. RowOK(row, trees) /\ FirstRow(row, pulls)
    BY <1>1, <1>2, <1>4, <2>2 DEF RowOK, FirstRow, SessionOK, FirstSession
  <2>4. row.attempts >= r.attempts /\ row.rec = r.rec
    BY <1>1, <2>2
  <2>. QED BY <2>1, <2>3, <2>4 DEF RowMoves, r
<1>5. CASE s.attempt # 0
  <2>. DEFINE k   == r.rec
              n   == [f \in DOMAIN k |-> IF f \in s.own THEN m[f] ELSE k[f]]
              row == [r EXCEPT !.rec = n]
  <2>1. Saved(p) = row
    BY <1>3, <1>5 DEF Saved
  <2>2. /\ n \in Work
        /\ n.base \in {m.base, k.base}
        /\ n.branch \in {m.branch, k.branch}
        /\ n.tree \in {m.tree, k.tree}
        /\ n.commit \in {m.commit, k.commit}
        /\ n.pr \in {m.pr, k.pr}
    <3>1. k \in Work /\ m \in Work
      BY <1>1, <1>2
    <3>. HIDE DEF r, s, m, k
    <3>. QED BY <3>1, Merge
  <2>. HIDE DEF r, s, m, n
  <2>3. /\ row \in Rows /\ row.state = r.state /\ row.owner = r.owner
        /\ row.work = r.work /\ row.rec = n /\ row.attempts = r.attempts
    BY <1>1, <2>2 DEF Rows
  <2>. HIDE DEF row
  <2>4. Exists(n, trees)
    BY <1>1, <1>2, <2>2 DEF RowOK, SessionOK, Exists
  <2>5. RowOK(row, trees)
    BY <1>1, <1>2, <1>5, <2>2, <2>3, <2>4 DEF RowOK, SessionOK
  <2>6. r.attempts # 0
    BY <1>1, <1>2, <1>5 DEF FirstSession
  <2>7. FirstRow(row, pulls)
    BY <1>1, <1>2, <1>5, <2>2, <2>3, <2>6 DEF FirstRow, FirstSession
  <2>8. row.attempts >= r.attempts /\ (r.attempts = 1 => row.rec.base = r.rec.base)
    BY <1>1, <1>2, <1>5, <2>2, <2>3 DEF FirstSession
  <2>. QED BY <2>1, <2>3, <2>5, <2>7, <2>8 DEF RowMoves, r
<1>. QED BY <1>4, <1>5

\* The start of a recovery, and of its second attempt.
LEMMA StartedMoves ==
    ASSUME IInv, NEW p \in Processes, In(p, "drifting"), Delivering(p), Startable(p),
           task.attempts < MaxReconciliations
    PROVE  RowMoves(Started(p))
<1>. DEFINE r == task
            b == Mine(p).base
            n == r.attempts + 1
            k == [r.rec EXCEPT !.base = b]
            row == [r EXCEPT !.state = "DELIVERY_RECONCILING", !.attempts = n,
                             !.source = r.state, !.rec = k]
<1>1. /\ r \in Rows /\ RowOK(r, trees) /\ FirstRow(r, pulls) /\ r.attempts \in Nat
      /\ r.work.branch = 0 /\ r.rec \in Work
      /\ r.state \in {"VERIFYING", "BLOCKED", "FAILED_SAFE"}
      /\ n \in 1..MaxReconciliations
  BY RowTyped DEF IInv, FirstRow, Startable, MaxReconciliations
<1>2. b \in Nat
  BY Session DEF SessionOK, In, Mine, Work
<1>3. "DELIVERY_RECONCILING" \in States
  BY DEF States
<1>4. Started(p) = row
  BY <1>1 DEF Started, Rows
<1>. HIDE DEF r, b
<1>5. k \in Work /\ k.base = b /\ k.branch = r.rec.branch /\ k.tree = r.rec.tree
      /\ k.commit = r.rec.commit /\ k.pr = r.rec.pr
  BY <1>1, <1>2 DEF Work
<1>. HIDE DEF k
<1>6. n \in 0..MaxReconciliations /\ n >= 1 /\ n > r.attempts
  BY <1>1 DEF MaxReconciliations
<1>. HIDE DEF n
<1>7. /\ row \in Rows /\ row.state = "DELIVERY_RECONCILING" /\ row.work = r.work
      /\ row.rec = k /\ row.attempts = n
  BY <1>1, <1>3, <1>5, <1>6 DEF Rows
<1>. HIDE DEF row
<1>8. RowOK(row, trees)
  <2>1. b # None
    BY <1>2, TaskDeliveryAssumptions
  <2>. QED BY <2>1, <1>1, <1>5, <1>6, <1>7 DEF RowOK, Exists
<1>9. FirstRow(row, pulls)
  <2>1. n = 1 => r.attempts = 0
    BY <1>1 DEF n
  <2>. QED BY <2>1, <1>1, <1>5, <1>6, <1>7 DEF FirstRow
<1>. QED BY <1>1, <1>4, <1>6, <1>7, <1>8, <1>9 DEF RowMoves, r, n

LEMMA RetriedMoves ==
    ASSUME IInv, NEW p \in Processes, In(p, "drifting"), ~Delivering(p), MayWrite(p),
           task.attempts < MaxReconciliations
    PROVE  RowMoves([task EXCEPT !.attempts = @ + 1, !.rec.base = Mine(p).base])
<1>. DEFINE r == task
            b == Mine(p).base
            n == r.attempts + 1
            k == [r.rec EXCEPT !.base = b]
            row == [r EXCEPT !.attempts = n, !.rec = k]
<1>1. /\ r \in Rows /\ RowOK(r, trees) /\ FirstRow(r, pulls) /\ r.attempts \in Nat
      /\ r.work.branch = 0 /\ r.rec \in Work
      /\ r.state = "DELIVERY_RECONCILING"
  BY RowTyped, Unfinished DEF IInv, MayWrite
<1>2. b \in Nat
  BY Session DEF SessionOK, In, Mine, Work
<1>3. r.attempts >= 1
  BY <1>1 DEF RowOK
<1>4. [task EXCEPT !.attempts = @ + 1, !.rec.base = Mine(p).base] = row
  BY <1>1 DEF Rows
<1>5. n = 2
  BY <1>1, <1>3 DEF MaxReconciliations
<1>. HIDE DEF r, b
<1>6. k \in Work /\ k.base = b /\ k.branch = r.rec.branch /\ k.tree = r.rec.tree
      /\ k.commit = r.rec.commit /\ k.pr = r.rec.pr
  BY <1>1, <1>2 DEF Work
<1>. HIDE DEF k
<1>7. n \in 0..MaxReconciliations
  BY <1>5 DEF MaxReconciliations
<1>8. n > r.attempts
  BY <1>1
<1>. HIDE DEF n
<1>9. /\ row \in Rows /\ row.state = "DELIVERY_RECONCILING" /\ row.work = r.work
      /\ row.rec = k /\ row.attempts = n
  BY <1>1, <1>6, <1>7 DEF Rows
<1>. HIDE DEF row
<1>10. RowOK(row, trees)
  <2>1. b # None
    BY <1>2, TaskDeliveryAssumptions
  <2>. QED BY <2>1, <1>1, <1>5, <1>6, <1>9 DEF RowOK, Exists
<1>11. FirstRow(row, pulls)
  BY <1>1, <1>5, <1>9 DEF FirstRow
<1>. QED BY <1>1, <1>4, <1>5, <1>8, <1>9, <1>10, <1>11 DEF RowMoves, r

\* The end of a successful recovery: branch, commit and base of the recovery
\* become the task's, the worktree stays.
LEMMA FinishedMoves ==
    ASSUME IInv, NEW p \in Processes, In(p, "finishing"), MayWrite(p), ~Delivering(p)
    PROVE  RowMoves([Unleased("PR_READY", "none") EXCEPT
                       !.work = [Mine(p) EXCEPT !.tree = task.work.tree], !.rec = Mine(p)])
<1>. DEFINE r == task
            s == session[p]
            m == Mine(p)
            tr == r.work.tree
            k == [m EXCEPT !.tree = tr]
            row == [r EXCEPT !.state = "PR_READY", !.owner = None, !.failure = "none",
                             !.work = k, !.rec = m]
<1>1. /\ r \in Rows /\ RowOK(r, trees) /\ FirstRow(r, pulls) /\ r.attempts \in Nat
      /\ r.work \in Work
  BY RowTyped DEF IInv
<1>2. /\ SessionOK(s, trees, pulls) /\ FirstSession(s, r, pulls)
      /\ s.work = m /\ m \in Work /\ s.attempt \in Nat /\ s.attempt # 0
      /\ s.phase = "finishing"
  BY Session DEF Mine, MaxReconciliations, In, Delivering
<1>3. "PR_READY" \in States
  BY DEF States
<1>4. [Unleased("PR_READY", "none") EXCEPT !.work = k, !.rec = m] = row
  BY <1>1 DEF Unleased, Rows
<1>5. tr \in Trees \cup {None} /\ (tr # None => trees[tr] # None)
  BY <1>1 DEF Work, RowOK, Exists
<1>. HIDE DEF r, s, m, tr
<1>6. k \in Work /\ k.base = m.base /\ k.branch = m.branch /\ k.tree = tr
      /\ k.commit = m.commit /\ k.pr = m.pr
  BY <1>2, <1>5 DEF Work
<1>. HIDE DEF k
<1>7. /\ row \in Rows /\ row.state = "PR_READY" /\ row.work = k /\ row.owner = None
      /\ row.rec = m /\ row.attempts = r.attempts
  BY <1>1, <1>2, <1>3, <1>6 DEF Rows
<1>. HIDE DEF row
<1>8. /\ m.branch # None /\ m.base # None /\ m.commit # None
      /\ Exists(m, trees)
  BY <1>2 DEF SessionOK, OuterPhases, CommitPhases
<1>9. Exists(k, trees)
  BY <1>5, <1>6, <1>8 DEF Exists
<1>10. RowOK(row, trees)
  BY <1>6, <1>7, <1>8, <1>9 DEF RowOK
<1>11. r.attempts # 0
  BY <1>1, <1>2 DEF FirstSession
<1>12. FirstRow(row, pulls)
  BY <1>1, <1>2, <1>6, <1>7, <1>8, <1>11 DEF FirstRow, FirstSession, OuterPhases
<1>13. r.attempts = 1 => m.base = r.rec.base
  BY <1>2 DEF FirstSession, OuterPhases
<1>14. RowMoves(row)
  BY <1>1, <1>7, <1>10, <1>12, <1>13 DEF RowMoves, r
<1>15. Mine(p) = m /\ k = [Mine(p) EXCEPT !.tree = task.work.tree]
  BY DEF k, m, tr, r
<1>. QED BY <1>4, <1>14, <1>15

-----------------------------------------------------------------------------
(* The session of the process *)

\* What the phase a process goes to asks of what it knows.
Suits(p, ph) ==
    /\ ph \in Phases
    /\ ph \in OuterPhases \/ session[p].phase \notin OuterPhases
    /\ ph \in TreePhases => Mine(p).tree # None
    /\ ph \in CommitPhases => Mine(p).commit # None
    /\ \/ ph = "pushing"
       \/ ph \in {"verifying", "verified"} /\ ~Delivering(p)
       => Mine(p).tree # None /\ Mine(p).commit[1] = Mine(p).tree
    /\ ph = "pushed" => Mine(p).remote # None
    /\ ph \in {"executing", "committed"} => Delivering(p)
    /\ ph \in CommitPhases \cup {"drifting"} => Mine(p).base # None
    /\ ph = "binding" => pulls'[Mine(p).branch] # None
    /\ ph \in RecoveryPhases => ~Delivering(p)
    /\ ph \in {"bound", "finishing"} /\ ~Delivering(p) => Mine(p).pr

LEMMA GoesStep ==
    ASSUME IInv, NEW p \in Processes, NEW ph, Goes(p, ph), Suits(p, ph),
           WorldOK', Grows, RowMoves(task'), FirstTree(task', trees', pulls')
    PROVE  IInv'
<1>. DEFINE o == session[p]
            s == [o EXCEPT !.phase = ph]
<1>1. /\ o \in Sessions /\ o.work = Mine(p)
      /\ SessionOK(o, trees, pulls) /\ FirstSession(o, task, pulls)
  BY Session DEF Mine
<1>2. SessionOK(o, trees', pulls') /\ FirstSession(o, task', pulls')
  BY <1>1, SessionStill, RowTyped DEF IInv
<1>3. Becomes(p, s)
  BY DEF Goes, Becomes
<1>4. Delivering(p) <=> o.attempt = 0
  BY DEF Delivering
<1>5. Suits(p, ph) /\ o = session[p]
  OBVIOUS
<1>. HIDE DEF o
<1>6. s \in Sessions /\ s.phase = ph /\ s.attempt = o.attempt /\ s.work = o.work
  BY <1>1, <1>5 DEF Sessions, Suits
<1>. HIDE DEF s
<1>7. SessionOK(s, trees', pulls')
  BY <1>1, <1>2, <1>4, <1>5, <1>6 DEF SessionOK, Suits
<1>8. FirstSession(s, task', pulls')
  BY <1>1, <1>2, <1>4, <1>5, <1>6 DEF FirstSession, Suits
<1>. QED BY <1>3, <1>7, <1>8, StepOf

LEMMA IdleTyped ==
    /\ Nothing \in Work /\ Nothing.tree = None /\ Nothing.commit = None
    /\ Idle \in Sessions /\ Idle.phase = "idle" /\ Idle.attempt = 0
    /\ Idle.work = Nothing
<1>1. Nothing \in Work /\ Nothing.tree = None /\ Nothing.commit = None
  BY DEF Nothing, Work
<1>. QED BY <1>1 DEF Idle, Sessions, Phases, MaxReconciliations

LEMMA EndsStep ==
    ASSUME IInv, NEW p \in Processes, Ends(p),
           WorldOK', Grows, RowMoves(task'), FirstTree(task', trees', pulls')
    PROVE  IInv'
<1>3. Exists(Nothing, trees')
  BY IdleTyped DEF Exists
<1>4. SessionOK(Idle, trees', pulls')
  BY IdleTyped, <1>3
  DEF SessionOK, TreePhases, CommitPhases, RecoveryPhases, OuterPhases
<1>5. task'.attempts \in Nat
  BY DEF RowMoves, RowOK, Rows, MaxReconciliations
<1>6. FirstSession(Idle, task', pulls')
  BY IdleTyped, <1>5 DEF FirstSession, OuterPhases
<1>. QED BY <1>4, <1>6, StepOf DEF Ends, Becomes

\* The same, when worktrees and pull requests stay.
LEMMA GoesQuiet ==
    ASSUME IInv, NEW p \in Processes, NEW ph, Goes(p, ph), Suits(p, ph),
           UNCHANGED <<trees, pulls>>, WorldOK', RowMoves(task')
    PROVE  IInv'
BY GitRests, QuietTree, GoesStep

LEMMA EndsQuiet ==
    ASSUME IInv, NEW p \in Processes, Ends(p),
           UNCHANGED <<trees, pulls>>, WorldOK', RowMoves(task')
    PROVE  IInv'
BY GitRests, QuietTree, EndsStep

LEMMA WorldRests ==
    ASSUME IInv, UNCHANGED <<git, base, evidence, faults>>
    PROVE  WorldOK' /\ UNCHANGED <<trees, pulls>>
BY DEF IInv, WorldOK, git, faults

LEMMA RowUnchanged ==
    ASSUME IInv, UNCHANGED task
    PROVE  RowMoves(task')
BY RowRests

LEMMA RestStep ==
    ASSUME IInv, UNCHANGED <<trees, pulls, session>>, WorldOK', RowMoves(task')
    PROVE  IInv'
<1>1. Grows /\ FirstTree(task', trees', pulls')
  BY GitRests, QuietTree
<1>2. RowOK(task', trees') /\ FirstRow(task', pulls')
  BY <1>1, RowStill DEF RowMoves, IInv
<1>3. ASSUME NEW q \in Processes
      PROVE  SessionOK(session[q], trees', pulls') /\ FirstSession(session[q], task', pulls')
  BY <1>1, RowTyped, SessionStill DEF IInv
<1>. QED BY <1>1, <1>2, <1>3 DEF IInv

\* The row is settled, whatever happened to worktrees and pull requests.
LEMMA SettlesStep ==
    ASSUME IInv, NEW p \in Processes, NEW st \in States \ {"DELIVERY_RECONCILING"},
           NEW f \in {"none", "delivery", "other"}, Settles(p, st, f),
           WorldOK', Grows, FirstTree(task, trees', pulls')
    PROVE  IInv'
<1>1. CASE MayWrite(p)
  <2>1. task' = Unleased(st, f) /\ Ends(p)
    BY <1>1 DEF Settles, Stores
  <2>2. RowMoves(task')
    BY <1>1, <2>1, Unfinished, UnleasedMoves
  <2>3. task'.attempts = task.attempts /\ task'.rec = task.rec
    BY <2>1, RowTyped DEF Unleased, Rows
  <2>4. FirstTree(task', trees', pulls')
    BY <2>3 DEF FirstTree
  <2>. QED BY <2>1, <2>2, <2>4, EndsStep
<1>2. CASE ~MayWrite(p)
  <2>1. UNCHANGED task /\ Ends(p)
    BY <1>2 DEF Settles, Stores
  <2>. QED BY <2>1, RowUnchanged, EndsStep
<1>. QED BY <1>1, <1>2

LEMMA BlocksStep ==
    ASSUME IInv, NEW p \in Processes, NEW f \in {"none", "delivery", "other"}, Blocks(p, f),
           WorldOK', Grows, FirstTree(task, trees', pulls')
    PROVE  IInv'
<1>1. {"PR_READY", "BLOCKED"} \subseteq States \ {"DELIVERY_RECONCILING"}
  BY DEF States
<1>. DEFINE st == IF task.work.pr THEN "PR_READY" ELSE "BLOCKED"
<1>2. st \in States \ {"DELIVERY_RECONCILING"} /\ Settles(p, st, f)
  BY <1>1 DEF Blocks
<1>. HIDE DEF st
<1>. QED BY <1>2, SettlesStep

LEMMA ErrsStep ==
    ASSUME IInv, NEW p \in Processes, Errs(p),
           WorldOK', Grows, FirstTree(task, trees', pulls')
    PROVE  IInv'
<1>1. CASE Delivering(p)
  <2>. DEFINE st == IF task.work.commit # None /\ task.work.remote # None
                    THEN "BLOCKED" ELSE "FAILED_SAFE"
  <2>1. st \in States \ {"DELIVERY_RECONCILING"} /\ Settles(p, st, "delivery")
    BY <1>1 DEF Errs, States
  <2>. HIDE DEF st
  <2>. QED BY <2>1, SettlesStep
<1>2. CASE ~Delivering(p)
  <2>1. UNCHANGED task /\ Ends(p)
    BY <1>2 DEF Errs
  <2>. QED BY <2>1, RowUnchanged, EndsStep
<1>. QED BY <1>1, <1>2

\* The same, when worktrees and pull requests stay.
LEMMA QuietErrors ==
    ASSUME IInv, NEW p \in Processes, UNCHANGED <<trees, pulls>>, WorldOK',
           \/ Errs(p)
           \/ Blocks(p, "other")
           \/ Blocks(p, "delivery")
           \/ Ends(p) /\ UNCHANGED task
    PROVE  IInv'
<1>1. Grows
  BY GitRests
<1>2. FirstTree(task, trees', pulls')
  BY DEF IInv
<1>. QED BY <1>1, <1>2, ErrsStep, BlocksStep, RowUnchanged, EndsQuiet

-----------------------------------------------------------------------------
(* Actions on the row *)

LEMMA ReapStep ==
    ASSUME IInv, Reap
    PROVE  IInv'
<1>1. task.state # "PR_READY"
  BY DEF Reap, IInv, FirstRow
<1>2. {"BLOCKED", "READY", "FAILED_SAFE"} \subseteq States \ {"DELIVERY_RECONCILING"}
  BY DEF States
<1>3. RowMoves(Unleased("BLOCKED", "delivery"))
  BY <1>1, <1>2, UnleasedMoves
<1>4. RowMoves(Unleased("READY", "other")) /\ RowMoves(Unleased("FAILED_SAFE", "other"))
  BY <1>1, <1>2, UnleasedMoves
<1>5. RowMoves(task')
  BY <1>3, <1>4 DEF Reap
<1>6. UNCHANGED <<git, base, evidence, faults, session>>
  BY DEF Reap
<1>. QED BY <1>5, <1>6, WorldRests, RestStep DEF git

LEMMA ReapAliveStep ==
    ASSUME IInv, ReapAlive
    PROVE  IInv'
<1>1. task.state # "PR_READY"
  BY DEF ReapAlive, IInv, FirstRow
<1>2. "FAILED_SAFE" \in States \ {"DELIVERY_RECONCILING"}
  BY DEF States
<1>3. RowMoves(task')
  BY <1>1, <1>2, UnleasedMoves DEF ReapAlive
<1>6. UNCHANGED <<git, base, evidence, faults, session>>
  BY DEF ReapAlive
<1>. QED BY <1>3, <1>6, WorldRests, RestStep DEF git

LEMMA MoveBaseStep ==
    ASSUME IInv, MoveBase
    PROVE  IInv'
<1>1. WorldOK'
  BY DEF IInv, WorldOK, MoveBase, git, faults
<1>2. UNCHANGED <<task, trees, pulls, session>>
  BY DEF MoveBase, git
<1>. QED BY <1>1, <1>2, RowUnchanged, RestStep

LEMMA CrashStep ==
    ASSUME IInv, NEW p \in Processes, Crash(p)
    PROVE  IInv'
<1>1. UNCHANGED <<task, git, base, evidence, faults>> /\ Ends(p)
  BY DEF Crash
<1>. QED BY <1>1, WorldRests, RowUnchanged, EndsQuiet

LEMMA ClaimStep ==
    ASSUME IInv, NEW p \in Workers, Claim(p)
    PROVE  IInv'
<1>. DEFINE ph == IF task.work.tree = None THEN "allocating" ELSE "executing"
            s == [Idle EXCEPT !.phase = ph, !.work = task.work]
            r == task
            w == task.work
<1>1. p \in Processes /\ Becomes(p, s) /\ WorldOK' /\ UNCHANGED <<trees, pulls>>
  BY WorldRests DEF Claim, Processes, Becomes
<1>2. /\ r \in Rows /\ w \in Work /\ RowOK(r, trees) /\ FirstRow(r, pulls)
      /\ r.state = "READY" /\ r.work = w /\ r.attempts \in Nat
  BY RowTyped DEF IInv, Claim
<1>3. RowMoves(task')
  <2>1. task.claims + 1 \in 0..MaxAttempts
    BY RowTyped DEF Claim
  <2>2. task' = [task EXCEPT !.state = "CLAIMED", !.owner = p, !.claims = task.claims + 1,
                             !.failure = "none"]
    BY DEF Claim
  <2>. QED BY <1>2, <2>1, <2>2, LeasedMoves
<1>4. task'.attempts = r.attempts
  BY <1>2 DEF Claim, Rows
<1>6. ph \in {"allocating", "executing"} /\ (ph = "executing" => w.tree # None)
  OBVIOUS
<1>. HIDE DEF r, w, ph
<1>5. ph \in Phases /\ w = task.work
  BY <1>6 DEF Phases, w
<1>7. s \in Sessions /\ s.phase = ph /\ s.attempt = 0 /\ s.work = w
  BY <1>2, <1>5, IdleTyped DEF Sessions
<1>. HIDE DEF s
<1>8. w.branch = 0 /\ 0 # None
  BY <1>2, TaskDeliveryAssumptions DEF FirstRow
<1>9. SessionOK(s, trees, pulls)
  BY <1>2, <1>6, <1>7, <1>8
  DEF SessionOK, RowOK, TreePhases, CommitPhases, RecoveryPhases, OuterPhases
<1>10. FirstSession(s, task', pulls)
  BY <1>2, <1>4, <1>7, <1>8 DEF FirstSession
<1>. QED BY <1>1, <1>3, <1>9, <1>10, QuietStep

\* What a worktree is asked for when it is named.
LEMMA Named ==
    ASSUME IInv, NEW p \in Processes, session[p].phase \in TreePhases
    PROVE  /\ Mine(p).tree \in Trees /\ Tree(p) # None
           /\ Tree(p) \in [branch : Trees, base : Nat, head : Nat, dirty : BOOLEAN]
<1>1. /\ SessionOK(session[p], trees, pulls) /\ Mine(p) \in Work
      /\ session[p].work = Mine(p)
  BY Session DEF Mine
<1>2. Mine(p).tree \in Trees /\ Tree(p) # None
  BY <1>1 DEF SessionOK, Exists, Work, Tree
<1>. QED BY <1>2 DEF Tree, IInv, WorldOK

LEMMA SaveStep ==
    ASSUME IInv, NEW p \in Processes, Save(p)
    PROVE  IInv'
<1>1. WorldOK' /\ UNCHANGED <<trees, pulls>>
  BY WorldRests DEF Save
<1>2. CASE ~MayWrite(p)
  <2>1. Ends(p) /\ UNCHANGED task
    BY <1>2 DEF Save, Stores
  <2>. QED BY <1>1, <2>1, RowUnchanged, EndsQuiet
<1>3. CASE MayWrite(p)
  <2>. DEFINE o == session[p]
              m == Mine(p)
              ph == After(p)
              kn == Known(p)
              s == [o EXCEPT !.phase = ph, !.work.pr = kn]
              k == [m EXCEPT !.pr = kn]
  <2>1. /\ session[p].phase \in {"assigning", "committed", "verified", "pushed", "bound"}
        /\ session[p].phase \notin OuterPhases
    BY DEF Save, OuterPhases
  <2>2. RowMoves(task') /\ Becomes(p, s)
    BY <1>3, <2>1, SavedMoves DEF Save, Stores, Becomes
  <2>3. /\ o \in Sessions /\ o.work = m /\ m \in Work
        /\ SessionOK(o, trees, pulls) /\ FirstSession(o, task, pulls)
        /\ o.phase \in {"assigning", "committed", "verified", "pushed", "bound"}
    BY <2>1, Session DEF Mine
  <2>4. FirstSession(o, task', pulls)
    BY <1>1, <2>2, <2>3, SessionStill, GitRests, RowTyped DEF IInv
  <2>5. /\ o.phase = "assigning" => ph = IF o.attempt = 0 THEN "executing" ELSE "applying"
        /\ o.phase = "committed" => ph = "verifying"
        /\ o.phase = "verified" => ph = IF o.attempt = 0 THEN "heading" ELSE "pushing"
        /\ o.phase = "pushed" => ph = IF o.attempt = 0 THEN "checking" ELSE Onward(k)
        /\ o.phase = "bound" => ph = "finishing"
    BY <2>3 DEF After, In, Delivering
  <2>6. kn \in BOOLEAN /\ (m.pr => kn) /\ (o.attempt = 0 \/ task.rec.pr \/ m.pr \/ ~kn)
    BY <2>3, RowTyped DEF Known, Delivering, Work
  <2>7. task'.attempts = 1 /\ o.attempt # 0 /\ task.rec.pr => pulls[1] # None
    <3>1. /\ task.attempts \in Nat /\ task'.attempts \in Nat /\ task'.attempts >= task.attempts
          /\ o.attempt \in Nat /\ o.attempt <= task.attempts
      BY <2>2, <2>3, RowTyped
      DEF RowMoves, RowOK, Rows, MaxReconciliations, FirstSession, Sessions
    <3>. QED BY <3>1 DEF IInv, FirstRow
  <2>. HIDE DEF o, m, ph, kn
  <2>8. /\ k \in Work /\ k.base = m.base /\ k.branch = m.branch /\ k.tree = m.tree
        /\ k.commit = m.commit /\ k.remote = m.remote /\ k.pr = kn
    BY <2>3, <2>6 DEF Work
  <2>. HIDE DEF k
  <2>9. Onward(k) \in {"pushing", "finishing", "opening"}
        /\ (m.remote # None => Onward(k) # "pushing")
        /\ (Onward(k) = "finishing" => kn)
    BY <2>8 DEF Onward
  <2>10. s = [o EXCEPT !.phase = ph, !.work = k]
    BY <2>3 DEF k, Sessions
  <2>11. ph \in {"executing", "applying", "verifying", "heading", "pushing", "checking",
                 "finishing", "opening"}
    BY <2>3, <2>5, <2>9
  <2>. HIDE DEF s
  <2>12. s \in Sessions /\ s.phase = ph /\ s.attempt = o.attempt /\ s.work = k
    BY <2>3, <2>8, <2>10, <2>11 DEF Sessions, Phases
  <2>13. Exists(k, trees)
    BY <2>3, <2>8 DEF SessionOK, Exists
  <2>14. SessionOK(s, trees, pulls)
    <3>1. o.phase \in TreePhases \cup CommitPhases /\ o.phase \notin OuterPhases
      BY <2>3 DEF TreePhases, CommitPhases, OuterPhases
    <3>2. /\ ph \in TreePhases => m.tree # None
          /\ ph \in CommitPhases => m.commit # None
          /\ ph \in CommitPhases \/ m.tree # None \/ o.attempt # 0 => m.base # None
      BY <2>3, <2>5, <2>9 DEF SessionOK, TreePhases, CommitPhases
    <3>3. /\ \/ ph = "pushing"
             \/ ph \in {"verifying", "verified"} /\ o.attempt # 0
             => m.tree # None /\ m.commit[1] = m.tree
      BY <2>3, <2>5, <2>9 DEF SessionOK, TreePhases, CommitPhases
    <3>. QED BY <2>3, <2>5, <2>8, <2>9, <2>11, <2>12, <2>13, <3>1, <3>2, <3>3
         DEF SessionOK, OuterPhases, RecoveryPhases
  <2>15. FirstSession(s, task', pulls)
    BY <2>3, <2>4, <2>5, <2>6, <2>7, <2>8, <2>9, <2>12 DEF FirstSession, OuterPhases
  <2>. QED BY <1>1, <2>2, <2>14, <2>15, QuietStep
<1>. QED BY <1>2, <1>3

LEMMA FinishStep ==
    ASSUME IInv, NEW p \in Processes, Finish(p)
    PROVE  IInv'
<1>1. WorldOK' /\ UNCHANGED <<trees, pulls>>
  BY WorldRests DEF Finish
<1>2. CASE ~MayWrite(p)
  <2>1. Ends(p) /\ UNCHANGED task
    BY <1>2 DEF Finish, Stores
  <2>. QED BY <1>1, <2>1, RowUnchanged, EndsQuiet
<1>3. CASE MayWrite(p)
  <2>1. RowMoves(Unleased("PR_READY", "none"))
    <3>1. "PR_READY" \in States \ {"DELIVERY_RECONCILING"}
      BY DEF States
    <3>. QED BY <1>3, <3>1, Unfinished, UnleasedMoves
  <2>2. RowMoves(task') /\ Ends(p)
    BY <1>3, <2>1, FinishedMoves DEF Finish, Stores
  <2>. QED BY <1>1, <2>2, EndsQuiet
<1>. QED BY <1>2, <1>3

LEMMA UnrecoveredMoves ==
    ASSUME IInv, task.state # "PR_READY"
    PROVE  RowMoves(Unrecovered)
<1>. DEFINE st == IF task.source = "FAILED_SAFE" THEN "FAILED_SAFE" ELSE "BLOCKED"
<1>1. st \in States \ {"DELIVERY_RECONCILING"}
  BY DEF States
<1>2. Unrecovered = Unleased(st, "delivery")
  BY DEF Unrecovered
<1>. HIDE DEF st
<1>. QED BY <1>1, <1>2, UnleasedMoves

LEMMA FailStep ==
    ASSUME IInv, NEW p \in Processes, Fail(p)
    PROVE  IInv'
<1>1. WorldOK' /\ UNCHANGED <<trees, pulls>> /\ Ends(p)
  BY WorldRests DEF Fail, Stores
<1>2. RowMoves(task')
  <2>1. CASE MayWrite(p)
    BY <2>1, Unfinished, UnrecoveredMoves DEF Fail, Stores
  <2>2. CASE ~MayWrite(p)
    BY <2>2, RowUnchanged DEF Fail, Stores
  <2>. QED BY <2>1, <2>2
<1>. QED BY <1>1, <1>2, EndsQuiet

LEMMA CommandStep ==
    ASSUME IInv, NEW o \in Operators, Command(o)
    PROVE  IInv'
<1>. DEFINE b == base
            s == [Idle EXCEPT !.phase = "drifting", !.work.base = b]
            k == [Nothing EXCEPT !.base = b]
<1>1. o \in Processes /\ WorldOK' /\ UNCHANGED <<trees, pulls>> /\ UNCHANGED task
  BY WorldRests DEF Command, Processes
<1>3. Becomes(o, s)
  BY DEF Command, Becomes
<1>4. b \in Nat /\ b # None
  BY TaskDeliveryAssumptions DEF IInv, WorldOK
<1>. HIDE DEF b
<1>5. k \in Work /\ k.base = b /\ k.tree = None /\ k.commit = None
  BY <1>4 DEF Nothing, Work
<1>. HIDE DEF k
<1>6. s = [Idle EXCEPT !.phase = "drifting", !.work = k]
  BY IdleTyped DEF k, Sessions
<1>7. s \in Sessions /\ s.phase = "drifting" /\ s.attempt = 0 /\ s.work = k
  BY <1>5, <1>6, IdleTyped DEF Sessions, Phases
<1>. HIDE DEF s
<1>8. SessionOK(s, trees, pulls)
  BY <1>4, <1>5, <1>7
  DEF SessionOK, Exists, TreePhases, CommitPhases, RecoveryPhases, OuterPhases
<1>9. FirstSession(s, task', pulls)
  BY <1>1, <1>7, RowTyped DEF FirstSession, OuterPhases
<1>. QED BY <1>1, <1>3, <1>8, <1>9, RowUnchanged, QuietStep

\* A process that drifts enters with what it knows.
LEMMA Entering ==
    ASSUME IInv, NEW p \in Processes
    PROVE  Suits(p, "entering")
BY DEF Suits, Phases, OuterPhases, TreePhases, CommitPhases, RecoveryPhases

LEMMA StartStep ==
    ASSUME IInv, NEW p \in Processes, Start(p)
    PROVE  IInv'
<1>1. WorldOK' /\ UNCHANGED <<trees, pulls>>
  BY WorldRests DEF Start
<1>2. RowMoves(task')
  BY StartedMoves, RowUnchanged DEF Start
<1>3. Goes(p, "entering") \/ Ends(p)
  BY DEF Start
<1>. QED BY <1>1, <1>2, <1>3, Entering, GoesQuiet, EndsQuiet

LEMMA RetryStep ==
    ASSUME IInv, NEW p \in Processes, Retry(p)
    PROVE  IInv'
<1>1. WorldOK' /\ UNCHANGED <<trees, pulls>>
  BY WorldRests DEF Retry
<1>2. RowMoves(task')
  <2>1. CASE MayWrite(p) /\ task.attempts < MaxReconciliations
    BY <2>1, RetriedMoves DEF Retry, Stores
  <2>2. CASE MayWrite(p) /\ ~(task.attempts < MaxReconciliations)
    BY <2>2, Unfinished, UnrecoveredMoves DEF Retry, Stores
  <2>3. CASE ~MayWrite(p)
    BY <2>3, RowUnchanged DEF Retry, Stores
  <2>. QED BY <2>1, <2>2, <2>3
<1>3. Goes(p, "entering") \/ Ends(p)
  BY DEF Retry, Stores
<1>. QED BY <1>1, <1>2, <1>3, Entering, GoesQuiet, EndsQuiet

LEMMA NoteStep ==
    ASSUME IInv, NEW p \in Processes, Note(p)
    PROVE  IInv'
<1>1. WorldOK' /\ UNCHANGED <<trees, pulls>>
  BY WorldRests DEF Note
<1>2. session[p].phase = "noting" /\ session[p].phase \notin OuterPhases
  BY DEF Note, In, OuterPhases
<1>3. RowMoves(task')
  BY <1>2, SavedMoves, RowUnchanged DEF Note, Stores
<1>4. ~Delivering(p)
  BY <1>2, Session DEF SessionOK, RecoveryPhases, Delivering
<1>5. Suits(p, "refreshing")
  BY <1>2, <1>4 DEF Suits, Phases, OuterPhases, TreePhases, CommitPhases, RecoveryPhases
<1>6. Goes(p, "refreshing") \/ Ends(p)
  BY DEF Note, Stores
<1>. QED BY <1>1, <1>3, <1>5, <1>6, GoesQuiet, EndsQuiet

LEMMA EnterStep ==
    ASSUME IInv, NEW p \in Processes, Enter(p)
    PROVE  IInv'
<1>1. UNCHANGED <<task, git, base, evidence, late>>
  BY DEF Enter
<1>2. CASE task.state # "DELIVERY_RECONCILING"
  <2>1. UNCHANGED overlaps /\ Ends(p)
    BY <1>2 DEF Enter
  <2>. QED BY <1>1, <2>1, WorldRests, RowUnchanged, EndsQuiet DEF faults
<1>3. CASE task.state = "DELIVERY_RECONCILING"
  <2>. DEFINE ph == IF task.work.commit = None THEN "failing" ELSE "noting"
              n  == task.attempts
              b  == task.rec.base
              br == IF task.rec.branch = None THEN task.attempts ELSE task.rec.branch
              k  == [Nothing EXCEPT !.base = b, !.branch = br]
              s  == [phase |-> ph, attempt |-> n, work |-> k, own |-> {"base", "branch"}]
  <2>1. Becomes(p, s)
    BY <1>3 DEF Enter, Becomes
  <2>2. WorldOK' /\ UNCHANGED <<trees, pulls>>
    <3>1. overlaps' \in Nat
      BY <1>3 DEF Enter, IInv, WorldOK
    <3>. QED BY <1>1, <3>1 DEF IInv, WorldOK, git
  <2>3. n \in Nat /\ n \in 1..MaxReconciliations /\ b \in Nat /\ b # None
    BY <1>3, RowTyped, TaskDeliveryAssumptions DEF IInv, RowOK, Work, MaxReconciliations
  <2>4. br \in Trees /\ br # None /\ (n = 1 => br = 1)
    BY <2>3, RowTyped, TaskDeliveryAssumptions DEF IInv, FirstRow, Work, Trees, MaxReconciliations
  <2>5. ph \in {"failing", "noting"}
    OBVIOUS
  <2>6. task'.attempts = n /\ task'.rec.base = b
    BY <1>1
  <2>. HIDE DEF n, b, br, ph
  <2>7. k \in Work /\ k.base = b /\ k.branch = br /\ k.tree = None /\ k.commit = None /\ ~k.pr
    BY <2>3, <2>4 DEF Nothing, Work
  <2>. HIDE DEF k
  <2>8. s \in Sessions
    <3>1. {"base", "branch"} \in SUBSET DOMAIN Nothing
      BY DEF Nothing
    <3>. QED BY <2>3, <2>5, <2>7, <3>1 DEF Sessions, Phases, MaxReconciliations
  <2>9. SessionOK(s, trees, pulls)
    BY <2>3, <2>4, <2>5, <2>7, <2>8
    DEF SessionOK, Exists, TreePhases, CommitPhases, RecoveryPhases, OuterPhases
  <2>10. FirstSession(s, task', pulls)
    BY <2>3, <2>4, <2>5, <2>6, <2>7 DEF FirstSession, OuterPhases
  <2>. QED BY <1>1, <2>1, <2>2, <2>9, <2>10, RowUnchanged, QuietStep
<1>. QED BY <1>2, <1>3

-----------------------------------------------------------------------------
(* Commands in a worktree and on GitHub *)

Worktrees == [branch : Trees, base : Nat, head : Nat, dirty : BOOLEAN]

LEMMA LateTyped ==
    ASSUME IInv, NEW p \in Processes, Unfenced(p) \/ UNCHANGED late
    PROVE  late' \in Nat
BY DEF IInv, WorldOK, Unfenced

\* A worktree that changes keeps its base, and its head moves on.
LEMMA TreeMoves ==
    ASSUME IInv, NEW t \in Trees, trees[t] # None,
           NEW x \in Worktrees, x.head >= trees[t].head, x.base = trees[t].base,
           trees' = [trees EXCEPT ![t] = x], UNCHANGED pulls
    PROVE  /\ Grows
           /\ FirstTree(task, trees', pulls')
           /\ trees' \in [Trees -> Worktrees \cup {None}]
<1>1. trees \in [Trees -> Worktrees \cup {None}]
  BY DEF IInv, WorldOK, Worktrees
<1>2. x # None
  <2>1. Trees \subseteq Nat
    BY DEF Trees
  <2>. QED BY TaskDeliveryAssumptions DEF Worktrees
<1>3. \A u \in Trees : trees[u] # None => trees[u].head \in Nat
  BY <1>1 DEF Worktrees
<1>4. \A u \in Trees : trees'[u] = IF u = t THEN x ELSE trees[u]
  BY <1>1
<1>5. Grows
  BY <1>2, <1>3, <1>4 DEF Grows
<1>6. 1 \in Trees
  BY DEF Trees, MaxReconciliations
<1>7. FirstTree(task, trees', pulls')
  BY <1>4, <1>6 DEF IInv, FirstTree
<1>. QED BY <1>1, <1>5, <1>7

LEMMA Reworked ==
    ASSUME NEW w \in Worktrees, NEW h \in Nat, h >= w.head, NEW d \in BOOLEAN
    PROVE  /\ [w EXCEPT !.dirty = d] \in Worktrees
           /\ [w EXCEPT !.dirty = d].head >= w.head
           /\ [w EXCEPT !.dirty = d].base = w.base
           /\ [w EXCEPT !.head = h, !.dirty = d] \in Worktrees
           /\ [w EXCEPT !.head = h, !.dirty = d].head = h
           /\ [w EXCEPT !.head = h, !.dirty = d].base = w.base
<1>. DEFINE x == [w EXCEPT !.dirty = d]
            y == [w EXCEPT !.head = h, !.dirty = d]
<1>1. x \in Worktrees
  BY DEF Worktrees
<1>2. x.head = w.head /\ x.base = w.base /\ w.head >= w.head
  BY DEF Worktrees
<1>3. y \in Worktrees
  BY DEF Worktrees
<1>4. y.head = h /\ y.base = w.base
  BY DEF Worktrees
<1>. QED BY <1>1, <1>2, <1>3, <1>4

LEMMA ExecuteStep ==
    ASSUME IInv, NEW p \in Processes, Execute(p)
    PROVE  IInv'
<1>. DEFINE t == Mine(p).tree
            w == trees[t]
            ph == IF Mine(p).commit = None THEN "scoping" ELSE "verifying"
<1>1. /\ In(p, "executing") /\ Unfenced(p)
      /\ UNCHANGED <<remote, pulls, base, evidence, overlaps>>
  BY DEF Execute
<1>2. session[p].phase = "executing" /\ session[p].phase \in TreePhases
      /\ session[p].phase \notin OuterPhases
  BY <1>1 DEF In, TreePhases, OuterPhases
<1>3. t \in Trees /\ w # None /\ w \in Worktrees
  BY <1>2, Named DEF Tree, Worktrees
<1>4. PICK d \in BOOLEAN : trees' = [trees EXCEPT ![t] = [w EXCEPT !.dirty = d]]
  BY <1>3 DEF Execute, IInv, WorldOK
<1>. DEFINE x == [w EXCEPT !.dirty = d]
<1>5. /\ Grows /\ FirstTree(task, trees', pulls')
      /\ trees' \in [Trees -> Worktrees \cup {None}]
  <2>1. x \in Worktrees /\ x.head >= w.head /\ x.base = w.base
    <3>1. w.head \in Nat /\ w.head >= w.head
      BY <1>3 DEF Worktrees
    <3>. HIDE DEF w
    <3>. QED BY <1>3, <3>1, Reworked
  <2>. HIDE DEF x, t
  <2>. QED BY <1>1, <1>3, <1>4, <2>1, TreeMoves DEF x
<1>6. WorldOK'
  <2>1. late' \in Nat
    BY <1>1, LateTyped
  <2>. QED BY <1>1, <1>5, <2>1 DEF IInv, WorldOK, Worktrees
<1>7. CASE Stores(p, [task EXCEPT !.state = "VERIFYING"], Goes(p, ph))
  <2>1. CASE ~MayWrite(p)
    <3>1. Ends(p) /\ UNCHANGED task
      BY <1>7, <2>1 DEF Stores
    <3>. QED BY <1>5, <1>6, <3>1, RowUnchanged, EndsStep
  <2>2. CASE MayWrite(p)
    <3>1. task' = [task EXCEPT !.state = "VERIFYING"] /\ Goes(p, ph)
      BY <1>7, <2>2 DEF Stores
    <3>2. RowMoves(task')
      BY <2>2, <3>1, Unfinished, LeasedMoves, RowTyped
    <3>3. task'.attempts = task.attempts /\ task'.rec = task.rec
      BY <3>1, RowTyped DEF Rows
    <3>4. FirstTree(task', trees', pulls')
      BY <1>5, <3>3 DEF FirstTree
    <3>5. Suits(p, ph)
      <4>1. /\ SessionOK(session[p], trees, pulls) /\ session[p].work = Mine(p)
            /\ session[p].attempt = 0
        BY <1>2, Session DEF Mine, SessionOK
      <4>2. Mine(p).tree # None /\ Mine(p).base # None
        BY <1>2, <4>1 DEF SessionOK
      <4>3. ph \in {"scoping", "verifying"} /\ (ph = "verifying" => Mine(p).commit # None)
        OBVIOUS
      <4>. HIDE DEF ph
      <4>. QED BY <1>2, <4>1, <4>2, <4>3
           DEF Suits, Delivering, Phases, OuterPhases, CommitPhases, RecoveryPhases
    <3>. HIDE DEF ph
    <3>. QED BY <1>5, <1>6, <3>1, <3>2, <3>4, <3>5, GoesStep
  <2>. QED BY <2>1, <2>2
<1>8. CASE Settles(p, IF task.claims < MaxAttempts THEN "READY" ELSE "FAILED_SAFE", "other")
  <2>. DEFINE st == IF task.claims < MaxAttempts THEN "READY" ELSE "FAILED_SAFE"
  <2>1. st \in States \ {"DELIVERY_RECONCILING"} /\ Settles(p, st, "other")
    BY <1>8 DEF States
  <2>. HIDE DEF st
  <2>. QED BY <1>5, <1>6, <2>1, SettlesStep
<1>. QED BY <1>7, <1>8 DEF Execute

LEMMA ScopeStep ==
    ASSUME IInv, NEW p \in Processes, Scope(p)
    PROVE  IInv'
<1>1. WorldOK' /\ UNCHANGED <<trees, pulls>>
  BY WorldRests DEF Scope
<1>2. session[p].phase = "scoping" /\ session[p].phase \in TreePhases
      /\ session[p].phase \notin OuterPhases
  BY DEF Scope, In, TreePhases, OuterPhases
<1>3. Suits(p, "committing")
  <2>1. SessionOK(session[p], trees, pulls) /\ session[p].work = Mine(p)
    BY Session DEF Mine
  <2>2. Mine(p).tree # None
    BY <1>2, <2>1 DEF SessionOK
  <2>. QED BY <1>2, <2>2 DEF Suits, Phases, OuterPhases, CommitPhases, RecoveryPhases
<1>4. \/ Goes(p, "committing") /\ UNCHANGED task
      \/ Blocks(p, "other")
      \/ Errs(p)
  BY DEF Scope
<1>. QED BY <1>1, <1>3, <1>4, QuietErrors, RowUnchanged, GoesQuiet

LEMMA ApplyStep ==
    ASSUME IInv, NEW p \in Processes, Apply(p)
    PROVE  IInv'
<1>. DEFINE t == Mine(p).tree
            w == trees[t]
            x == [w EXCEPT !.dirty = TRUE]
<1>1. /\ In(p, "applying")
      /\ UNCHANGED <<task, remote, pulls, base, evidence, overlaps>>
  BY DEF Apply
<1>2. session[p].phase = "applying" /\ session[p].phase \in TreePhases
      /\ session[p].phase \notin OuterPhases
  BY <1>1 DEF In, TreePhases, OuterPhases
<1>3. t \in Trees /\ w # None /\ w \in Worktrees
  BY <1>2, Named DEF Tree, Worktrees
<1>4. Mine(p).tree # None /\ ~Delivering(p)
  <2>1. SessionOK(session[p], trees, pulls) /\ session[p].work = Mine(p)
    BY Session DEF Mine
  <2>. QED BY <1>2, <2>1 DEF SessionOK, RecoveryPhases, Delivering
<1>5. CASE trees' = [trees EXCEPT ![t].dirty = TRUE] /\ Goes(p, "committing") /\ Unfenced(p)
  <2>1. /\ Grows /\ FirstTree(task, trees', pulls')
        /\ trees' \in [Trees -> Worktrees \cup {None}]
    <3>1. trees' = [trees EXCEPT ![t] = x]
      BY <1>3, <1>5 DEF IInv, WorldOK
    <3>2. x \in Worktrees /\ x.head >= w.head /\ x.base = w.base
      <4>1. w.head \in Nat /\ w.head >= w.head /\ TRUE \in BOOLEAN
        BY <1>3 DEF Worktrees
      <4>. HIDE DEF w
      <4>. QED BY <1>3, <4>1, Reworked
    <3>. HIDE DEF x, t
    <3>. QED BY <1>1, <1>3, <3>1, <3>2, TreeMoves
  <2>2. WorldOK'
    <3>1. late' \in Nat
      BY <1>5, LateTyped
    <3>. QED BY <1>1, <2>1, <3>1 DEF IInv, WorldOK, Worktrees
  <2>3. Suits(p, "committing")
    BY <1>2, <1>4 DEF Suits, Phases, OuterPhases, CommitPhases, RecoveryPhases
  <2>4. FirstTree(task', trees', pulls') /\ RowMoves(task')
    BY <1>1, <2>1, RowUnchanged DEF FirstTree
  <2>. QED BY <1>5, <2>1, <2>2, <2>3, <2>4, GoesStep
<1>6. CASE Goes(p, "failing") /\ UNCHANGED <<trees, late>>
  <2>1. WorldOK' /\ UNCHANGED <<trees, pulls>> /\ UNCHANGED task
    BY <1>1, <1>6, WorldRests DEF git, faults
  <2>2. Suits(p, "failing")
    BY <1>2, <1>4 DEF Suits, Phases, OuterPhases, TreePhases, CommitPhases, RecoveryPhases
  <2>. QED BY <1>6, <2>1, <2>2, RowUnchanged, GoesQuiet
<1>. QED BY <1>5, <1>6 DEF Apply

\* What a process learned, and the phase it goes to with it.
LEMMA Learned ==
    ASSUME IInv, NEW p \in Processes, NEW f \in DOMAIN Nothing, NEW v, NEW ph \in Phases,
           Learns(p, f, v, ph), [Mine(p) EXCEPT ![f] = v] \in Work
    PROVE  \E s \in Sessions :
              /\ Becomes(p, s) /\ s.phase = ph /\ s.attempt = session[p].attempt
              /\ s.work = [Mine(p) EXCEPT ![f] = v]
<1>. DEFINE o == session[p]
            k == [Mine(p) EXCEPT ![f] = v]
            n == o.own \cup {f}
            s == [o EXCEPT !.phase = ph, !.work = k, !.own = n]
<1>1. o \in Sessions /\ o.work = Mine(p) /\ n \in SUBSET DOMAIN Nothing /\ k \in Work
  BY Session DEF Mine
<1>2. [session EXCEPT ![p] = s]
      = [session EXCEPT ![p].phase = ph, ![p].work[f] = v, ![p].own = @ \cup {f}]
  BY <1>1 DEF IInv, Sessions
<1>3. Becomes(p, s)
  BY <1>2 DEF Becomes, Learns
<1>. HIDE DEF o, k, n
<1>4. s \in Sessions /\ s.phase = ph /\ s.attempt = o.attempt /\ s.work = k
  BY <1>1 DEF Sessions
<1>. QED BY <1>3, <1>4 DEF o, k

LEMMA DriftsStep ==
    ASSUME IInv, NEW p \in Processes, NEW to \in Nat, Drifts(p, to),
           UNCHANGED <<task, trees, pulls>>, WorldOK'
    PROVE  IInv'
<1>. DEFINE o == session[p]
            k == [Mine(p) EXCEPT !.base = to]
            s == [o EXCEPT !.phase = "drifting", !.work = k]
<1>1. /\ o \in Sessions /\ o.work = Mine(p) /\ Mine(p) \in Work
      /\ SessionOK(o, trees, pulls) /\ FirstSession(o, task, pulls)
  BY Session DEF Mine
<1>2. [session EXCEPT ![p] = s]
      = [session EXCEPT ![p].phase = "drifting", ![p].work.base = to]
  BY <1>1 DEF IInv, Sessions
<1>3. Becomes(p, s)
  BY <1>2 DEF Becomes, Drifts
<1>4. k \in Work /\ k.base = to /\ k.tree = Mine(p).tree /\ k.commit = Mine(p).commit
      /\ to # None
  BY <1>1, TaskDeliveryAssumptions DEF Work
<1>. HIDE DEF o, k
<1>5. s \in Sessions /\ s.phase = "drifting" /\ s.attempt = o.attempt /\ s.work = k
  BY <1>1, <1>4 DEF Sessions, Phases
<1>. HIDE DEF s
<1>6. Exists(k, trees)
  BY <1>1, <1>4 DEF SessionOK, Exists
<1>7. SessionOK(s, trees, pulls)
  BY <1>4, <1>5, <1>6 DEF SessionOK, TreePhases, CommitPhases, RecoveryPhases, OuterPhases
<1>8. FirstSession(s, task', pulls)
  BY <1>1, <1>5 DEF FirstSession, OuterPhases
<1>. QED BY <1>3, <1>7, <1>8, RowUnchanged, QuietStep

LEMMA CheckBaseStep ==
    ASSUME IInv, NEW p \in Processes, CheckBase(p)
    PROVE  IInv'
<1>1. WorldOK' /\ UNCHANGED <<task, trees, pulls>> /\ base \in Nat
  BY WorldRests DEF CheckBase, IInv, WorldOK
<1>2. session[p].phase = "checking"
  BY DEF CheckBase, In
<1>3. Suits(p, "opening")
  <2>1. SessionOK(session[p], trees, pulls) /\ session[p].work = Mine(p)
    BY Session DEF Mine
  <2>2. Mine(p).commit # None /\ Mine(p).base # None
    BY <1>2, <2>1 DEF SessionOK, CommitPhases
  <2>. QED BY <1>2, <2>2 DEF Suits, Phases, OuterPhases, TreePhases, RecoveryPhases
<1>4. Goes(p, "opening") \/ Drifts(p, base)
  BY DEF CheckBase
<1>. QED BY <1>1, <1>3, <1>4, RowUnchanged, GoesQuiet, DriftsStep

LEMMA RefreshStep ==
    ASSUME IInv, NEW p \in Processes, Refresh(p)
    PROVE  IInv'
<1>1. WorldOK' /\ UNCHANGED <<task, trees, pulls>> /\ base \in Nat
  BY WorldRests DEF Refresh, IInv, WorldOK
<1>2. session[p].phase = "refreshing"
  BY DEF Refresh, In
<1>3. Suits(p, "rereading")
  <2>1. SessionOK(session[p], trees, pulls)
    BY Session
  <2>2. ~Delivering(p)
    BY <1>2, <2>1 DEF SessionOK, RecoveryPhases, Delivering
  <2>. QED BY <1>2, <2>2 DEF Suits, Phases, OuterPhases, TreePhases, CommitPhases
<1>4. Goes(p, "rereading") \/ Drifts(p, base) \/ Ends(p)
  BY DEF Refresh
<1>. QED BY <1>1, <1>3, <1>4, RowUnchanged, GoesQuiet, EndsQuiet, DriftsStep

LEMMA VerifyStep ==
    ASSUME IInv, NEW p \in Processes, Verify(p)
    PROVE  IInv'
<1>1. In(p, "verifying") /\ UNCHANGED <<git, base, faults>>
  BY DEF Verify
<1>2. session[p].phase = "verifying" /\ session[p].phase \in TreePhases
      /\ session[p].phase \in CommitPhases /\ session[p].phase \notin OuterPhases
  BY <1>1 DEF In, TreePhases, CommitPhases, OuterPhases
<1>3. /\ SessionOK(session[p], trees, pulls) /\ session[p].work = Mine(p) /\ Mine(p) \in Work
      /\ (Delivering(p) <=> session[p].attempt = 0)
  BY Session DEF Mine, Delivering
<1>4. Mine(p).commit # None /\ Mine(p).base # None /\ Mine(p).tree # None
      /\ (~Delivering(p) => Mine(p).commit[1] = Mine(p).tree)
  BY <1>2, <1>3 DEF SessionOK
<1>5. evidence' \subseteq Commits
  BY <1>3, <1>4 DEF Verify, IInv, WorldOK, Work
<1>6. WorldOK' /\ UNCHANGED <<trees, pulls>>
  BY <1>1, <1>5 DEF IInv, WorldOK, git, faults
<1>7. Suits(p, "verified")
  BY <1>2, <1>4 DEF Suits, Phases, OuterPhases, RecoveryPhases
<1>8. ~Delivering(p) => Suits(p, "failing")
  BY <1>2 DEF Suits, Phases, OuterPhases, TreePhases, CommitPhases
<1>9. \/ Goes(p, "verified") /\ UNCHANGED task
      \/ Blocks(p, "other")
      \/ ~Delivering(p) /\ Goes(p, "failing") /\ UNCHANGED task
  BY DEF Verify
<1>. QED BY <1>6, <1>7, <1>8, <1>9, RowUnchanged, QuietErrors, GoesQuiet

LEMMA RequireHeadStep ==
    ASSUME IInv, NEW p \in Processes, RequireHead(p)
    PROVE  IInv'
<1>. DEFINE ph == IF Delivering(p) THEN "pushing" ELSE Onward(Mine(p))
<1>1. WorldOK' /\ UNCHANGED <<trees, pulls>>
  BY WorldRests DEF RequireHead
<1>2. session[p].phase = "heading" /\ session[p].phase \in TreePhases
      /\ session[p].phase \in CommitPhases /\ session[p].phase \notin OuterPhases
  BY DEF RequireHead, In, TreePhases, CommitPhases, OuterPhases
<1>3. /\ SessionOK(session[p], trees, pulls) /\ session[p].work = Mine(p) /\ Mine(p) \in Work
      /\ (Delivering(p) <=> session[p].attempt = 0)
  BY Session DEF Mine, Delivering
<1>4. Mine(p).commit # None /\ Mine(p).base # None /\ Mine(p).tree # None
  BY <1>2, <1>3 DEF SessionOK
<1>5. CASE Goes(p, ph) /\ UNCHANGED task /\ Head(p) = Mine(p).commit
  <2>1. Mine(p).commit[1] = Mine(p).tree
    BY <1>5 DEF Head
  <2>2. ph \in {"pushing", "finishing", "opening"}
        /\ (ph = "finishing" => Mine(p).pr)
    BY DEF Onward
  <2>. HIDE DEF ph
  <2>3. Suits(p, ph)
    BY <1>2, <1>4, <2>1, <2>2 DEF Suits, Phases, OuterPhases, RecoveryPhases
  <2>. QED BY <1>1, <1>5, <2>3, RowUnchanged, GoesQuiet
<1>6. CASE Errs(p)
  BY <1>1, <1>6, QuietErrors
<1>. QED BY <1>5, <1>6 DEF RequireHead

LEMMA PushStep ==
    ASSUME IInv, NEW p \in Processes, Push(p)
    PROVE  IInv'
<1>. DEFINE h == Head(p)
            b == Mine(p).branch
            o == session[p]
            m == Mine(p)
<1>1. /\ In(p, "pushing") /\ Unfenced(p)
      /\ UNCHANGED <<trees, pulls, base, evidence, overlaps>>
  BY DEF Push
<1>2. session[p].phase = "pushing" /\ session[p].phase \in TreePhases
      /\ session[p].phase \in CommitPhases /\ session[p].phase \notin OuterPhases
  BY <1>1 DEF In, TreePhases, CommitPhases, OuterPhases
<1>3. /\ SessionOK(o, trees, pulls) /\ FirstSession(o, task, pulls)
      /\ o \in Sessions /\ o.work = m /\ m \in Work
  BY Session DEF Mine
<1>4. /\ m.commit # None /\ m.base # None /\ m.tree # None /\ m.branch # None
      /\ m.commit[1] = m.tree
  BY <1>2, <1>3 DEF SessionOK
<1>5. h \in Commits
  <2>1. m.tree \in Trees /\ Tree(p) \in Worktrees
    BY <1>2, Named DEF Worktrees
  <2>2. m.commit \in Commits /\ Tree(p).head >= m.commit[2]
    BY <1>3, <1>4 DEF SessionOK, Exists, Work, Tree
  <2>3. m.commit[2] \in Nat \ {0} /\ Tree(p).head \in Nat
    BY <2>1, <2>2 DEF Commits, Worktrees
  <2>4. Tree(p).head \in Nat \ {0}
    BY <2>2, <2>3
  <2>. QED BY <2>1, <2>4 DEF Head, Commits
<1>6. b \in Trees
  BY <1>3, <1>4 DEF Work
<1>7. remote' \in [Trees -> Commits \cup {None}]
  <2>1. remote' \in {remote, [remote EXCEPT ![b] = h]}
    BY DEF Push
  <2>. HIDE DEF h, b
  <2>. QED BY <1>5, <1>6, <2>1 DEF IInv, WorldOK
<1>8. WorldOK' /\ UNCHANGED <<trees, pulls>>
  <2>1. late' \in Nat
    BY <1>1, LateTyped
  <2>. QED BY <1>1, <1>7, <2>1 DEF IInv, WorldOK
<1>9. CASE Learns(p, "remote", h, "pushed") /\ UNCHANGED task
  <2>. DEFINE k == [m EXCEPT !["remote"] = h]
  <2>1. "remote" \in DOMAIN Nothing /\ "pushed" \in Phases
    BY DEF Nothing, Phases
  <2>2. h # None
    <3>1. Commits \subseteq Trees \X Nat
      BY DEF Commits
    <3>. QED BY <1>5, <3>1, TaskDeliveryAssumptions
  <2>. HIDE DEF h, m
  <2>3. /\ k \in Work /\ k.base = m.base /\ k.branch = m.branch /\ k.tree = m.tree
        /\ k.commit = m.commit /\ k.remote = h /\ k.pr = m.pr
    BY <1>3, <1>5 DEF Work
  <2>4. PICK s \in Sessions : /\ Becomes(p, s) /\ s.phase = "pushed"
                              /\ s.attempt = o.attempt /\ s.work = k
    BY <1>9, <2>1, <2>3, Learned DEF m
  <2>. HIDE DEF k, o
  <2>5. SessionOK(s, trees, pulls)
    BY <1>3, <1>4, <2>2, <2>3, <2>4
    DEF SessionOK, Exists, TreePhases, CommitPhases, RecoveryPhases, OuterPhases
  <2>6. FirstSession(s, task', pulls)
    BY <1>2, <1>3, <1>9, <2>3, <2>4 DEF FirstSession, OuterPhases, o
  <2>. QED BY <1>8, <1>9, <2>4, <2>5, <2>6, RowUnchanged, QuietStep
<1>10. CASE CommandFails(p)
  BY <1>8, <1>10, QuietErrors DEF CommandFails
<1>. QED BY <1>9, <1>10 DEF Push

LEMMA RereadStep ==
    ASSUME IInv, NEW p \in Processes, Reread(p)
    PROVE  IInv'
<1>1. WorldOK' /\ UNCHANGED <<trees, pulls>>
  BY WorldRests DEF Reread
<1>2. session[p].phase = "rereading" /\ session[p].phase \notin OuterPhases
  BY DEF Reread, In, OuterPhases
<1>3. CASE ~MayWrite(p)
  <2>1. Ends(p) /\ UNCHANGED task
    BY <1>3 DEF Reread, Stores
  <2>. QED BY <1>1, <2>1, RowUnchanged, EndsQuiet
<1>4. CASE MayWrite(p)
  <2>. DEFINE o == session[p]
              m == Mine(p)
              r == Saved(p)
              c == r.rec
              ph == IF c.tree = None THEN "allocating"
                    ELSE IF c.commit # None THEN "heading" ELSE "applying"
              k == [c EXCEPT !.base = m.base, !.branch = m.branch]
              s == [o EXCEPT !.phase = ph, !.work = k]
  <2>1. task' = r /\ Becomes(p, s) /\ RowMoves(r)
    BY <1>2, <1>4, SavedMoves DEF Reread, Stores, Becomes
  <2>2. /\ SessionOK(o, trees, pulls) /\ FirstSession(o, task, pulls)
        /\ o \in Sessions /\ o.work = m /\ m \in Work
    BY Session DEF Mine
  <2>3. RowOK(r, trees) /\ FirstRow(r, pulls) /\ c \in Work /\ r.attempts \in Nat
    BY <2>1 DEF RowMoves, RowOK, Rows, MaxReconciliations
  <2>4. FirstSession(o, r, pulls)
    BY <1>1, <2>1, <2>2, SessionStill, GitRests, RowTyped DEF IInv
  <2>5. m.base # None /\ m.branch # None /\ o.attempt # 0 /\ o.phase = "rereading"
        /\ o.attempt \in Nat /\ o.phase \notin OuterPhases
    BY <1>2, <2>2 DEF SessionOK, RecoveryPhases, Sessions, MaxReconciliations
  <2>6. /\ ph \in {"allocating", "heading", "applying"}
        /\ ph \in {"heading", "applying"} => c.tree # None
        /\ ph = "heading" => c.commit # None
    OBVIOUS
  <2>. HIDE DEF ph, c, r, m
  <2>7. k \in Work /\ k.base = m.base /\ k.branch = m.branch /\ k.tree = c.tree
        /\ k.commit = c.commit /\ k.pr = c.pr
    BY <2>2, <2>3 DEF Work
  <2>. HIDE DEF k, o
  <2>8. s \in Sessions /\ s.phase = ph /\ s.attempt = o.attempt /\ s.work = k
    BY <2>2, <2>6, <2>7 DEF Sessions, Phases
  <2>. HIDE DEF s
  <2>9. Exists(k, trees)
    BY <2>3, <2>7 DEF RowOK, Exists, c
  <2>10. SessionOK(s, trees, pulls)
    BY <2>5, <2>6, <2>7, <2>8, <2>9
    DEF SessionOK, TreePhases, CommitPhases, RecoveryPhases, OuterPhases
  <2>11. r.attempts # 0
    BY <2>3, <2>4, <2>5 DEF FirstSession
  <2>12. FirstSession(s, r, pulls)
    <3>1. o.attempt <= r.attempts
      BY <2>4 DEF FirstSession
    <3>2. r.attempts = 1 => m.base = r.rec.base /\ m.branch = 1
      BY <2>2, <2>4, <2>5 DEF FirstSession
    <3>3. r.attempts = 1 =>
            /\ c.tree \in {None, 1}
            /\ c.commit # None => c.commit[1] = 1
            /\ c.pr => pulls[1] # None
      BY <2>3 DEF FirstRow, c
    <3>4. s.phase \notin {"bound", "finishing"}
      BY <2>6, <2>8
    <3>. QED BY <2>5, <2>7, <2>8, <3>1, <3>2, <3>3, <3>4 DEF FirstSession
  <2>. QED BY <1>1, <2>1, <2>10, <2>12, QuietStep
<1>. QED BY <1>3, <1>4

LEMMA CommitStep ==
    ASSUME IInv, NEW p \in Processes, Commit(p)
    PROVE  IInv'
<1>. DEFINE t == Mine(p).tree
            w == trees[t]
            n == w.head + 1
            x == [w EXCEPT !.head = n, !.dirty = FALSE]
            made == <<t, n>>
            o == session[p]
            m == Mine(p)
            ph == IF Delivering(p) THEN "committed" ELSE "verifying"
<1>1. /\ In(p, "committing")
      /\ UNCHANGED <<remote, pulls, base, evidence, overlaps>>
  BY DEF Commit
<1>2. session[p].phase = "committing" /\ session[p].phase \in TreePhases
      /\ session[p].phase \notin OuterPhases
  BY <1>1 DEF In, TreePhases, OuterPhases
<1>3. t \in Trees /\ w # None /\ w \in Worktrees
  BY <1>2, Named DEF Tree, Worktrees
<1>4. /\ SessionOK(o, trees, pulls) /\ FirstSession(o, task, pulls)
      /\ o \in Sessions /\ o.work = m /\ m \in Work
      /\ (Delivering(p) <=> o.attempt = 0)
  BY Session DEF Mine, Delivering
<1>5. /\ m.base # None /\ m.tree # None /\ m.branch # None
  BY <1>2, <1>4 DEF SessionOK
<1>6. CASE /\ trees' = [trees EXCEPT ![t].head = @ + 1, ![t].dirty = FALSE]
           /\ Learns(p, "commit", made, ph) /\ Unfenced(p) /\ UNCHANGED task
  <2>1. n \in Nat /\ n >= w.head /\ n # 0 /\ FALSE \in BOOLEAN
    BY <1>3 DEF Worktrees
  <2>2. x \in Worktrees /\ x.head = n /\ x.base = w.base
    <3>. HIDE DEF w, n
    <3>. QED BY <1>3, <2>1, Reworked
  <2>3. trees' = [trees EXCEPT ![t] = x]
    BY <1>3, <1>6 DEF IInv, WorldOK
  <2>4. trees'[t] = x
    BY <1>3, <2>3 DEF IInv, WorldOK
  <2>. HIDE DEF x, w, n
  <2>5. /\ Grows /\ FirstTree(task, trees', pulls')
        /\ trees' \in [Trees -> Worktrees \cup {None}]
    BY <1>1, <1>3, <2>1, <2>2, <2>3, TreeMoves DEF w
  <2>6. WorldOK'
    <3>1. late' \in Nat
      BY <1>6, LateTyped
    <3>. QED BY <1>1, <2>5, <3>1 DEF IInv, WorldOK, Worktrees
  <2>7. made \in Commits /\ made[1] = t /\ made[2] = n /\ made # None
    <3>1. made \in Commits
      BY <1>3, <2>1 DEF Commits
    <3>2. Commits \subseteq Trees \X Nat
      BY DEF Commits
    <3>. QED BY <3>1, <3>2, TaskDeliveryAssumptions
  <2>8. x # None
    BY <1>3, <2>2, TaskDeliveryAssumptions DEF Worktrees
  <2>9. SessionOK(o, trees', pulls') /\ FirstSession(o, task', pulls')
    BY <1>4, <1>6, <2>5, <2>6, SessionStill, RowUnchanged, RowTyped DEF IInv
  <2>. DEFINE k == [m EXCEPT !["commit"] = made]
  <2>10. "commit" \in DOMAIN Nothing /\ ph \in Phases
    BY DEF Nothing, Phases
  <2>11. /\ ph \in {"committed", "verifying"} /\ (ph = "committed" <=> o.attempt = 0)
    BY <1>4
  <2>. HIDE DEF made, m, ph
  <2>12. /\ k \in Work /\ k.base = m.base /\ k.branch = m.branch /\ k.tree = m.tree
         /\ k.commit = made /\ k.pr = m.pr
    BY <1>4, <2>7 DEF Work
  <2>13. PICK s \in Sessions : /\ Becomes(p, s) /\ s.phase = ph
                               /\ s.attempt = o.attempt /\ s.work = k
    BY <1>6, <2>10, <2>12, Learned DEF m
  <2>. HIDE DEF k, o
  <2>14. m.tree = t
    BY DEF m
  <2>. HIDE DEF t
  <2>15. Exists(k, trees')
    <3>1. x.head >= n
      BY <2>1, <2>2
    <3>. QED BY <2>4, <2>7, <2>8, <2>12, <2>14, <3>1 DEF Exists
  <2>16. SessionOK(s, trees', pulls')
    BY <1>5, <2>7, <2>11, <2>12, <2>13, <2>14, <2>15
    DEF SessionOK, TreePhases, CommitPhases, RecoveryPhases, OuterPhases
  <2>17. o.phase = "committing"
    BY <1>2 DEF o
  <2>18. FirstSession(s, task', pulls')
    BY <1>4, <1>5, <2>7, <2>9, <2>11, <2>12, <2>13, <2>14, <2>17
    DEF FirstSession, OuterPhases
  <2>19. FirstTree(task', trees', pulls') /\ RowMoves(task')
    BY <1>6, <2>5, RowUnchanged DEF FirstTree
  <2>. QED BY <2>5, <2>6, <2>13, <2>16, <2>18, <2>19, StepOf
<1>7. CASE CommandFails(p) /\ UNCHANGED <<trees, late>>
  <2>1. WorldOK' /\ UNCHANGED <<trees, pulls>>
    BY <1>1, <1>7 DEF IInv, WorldOK
  <2>. QED BY <1>7, <2>1, QuietErrors DEF CommandFails
<1>. QED BY <1>6, <1>7 DEF Commit, Tree

LEMMA AllocateStep ==
    ASSUME IInv, NEW p \in Processes, Allocate(p)
    PROVE  IInv'
<1>. DEFINE o == session[p]
            t == o.attempt
            m == Mine(p)
            x == Built(p)
            b == base
<1>1. /\ In(p, "allocating")
      /\ UNCHANGED <<remote, pulls, base, evidence, overlaps>>
  BY DEF Allocate
<1>2. o.phase = "allocating" /\ o.phase \notin OuterPhases
  BY <1>1 DEF In, OuterPhases
<1>3. /\ SessionOK(o, trees, pulls) /\ FirstSession(o, task, pulls)
      /\ o \in Sessions /\ o.work = m /\ m \in Work
      /\ t \in Trees /\ t \in Nat /\ t # None
      /\ task.attempts \in Nat
  BY Session, RowTyped, TaskDeliveryAssumptions DEF Mine, MaxReconciliations, Trees
<1>4. m.branch # None /\ m.branch \in Trees /\ b \in Nat /\ b # None
  BY <1>2, <1>3, TaskDeliveryAssumptions DEF SessionOK, Work, IInv, WorldOK
<1>5. CASE /\ Free(t, m.branch) /\ (t = 0 \/ m.base = base)
           /\ trees' = [trees EXCEPT ![t] = x]
           /\ session' = [session EXCEPT ![p].phase = "assigning",
                ![p].work.tree = t, ![p].work.base = base, ![p].own = @ \cup {"tree"}]
           /\ Unfenced(p) /\ UNCHANGED task
  <2>. DEFINE k == [m EXCEPT !.tree = t, !.base = b]
              n == o.own \cup {"tree"}
              s == [o EXCEPT !.phase = "assigning", !.work = k, !.own = n]
  <2>1. trees[t] = None
    BY <1>5 DEF Free
  <2>2. x \in Worktrees /\ x.base = b /\ x # None
    <3>1. x = [branch |-> m.branch, base |-> b, head |-> 0, dirty |-> FALSE]
      BY DEF Built
    <3>. HIDE DEF m, b, x
    <3>2. x \in Worktrees /\ x.base = b
      BY <1>4, <3>1 DEF Worktrees
    <3>. QED BY <3>2, TaskDeliveryAssumptions DEF Worktrees
  <2>3. Becomes(p, s)
    <3>1. [session EXCEPT ![p] = s]
          = [session EXCEPT ![p].phase = "assigning", ![p].work.tree = t,
                            ![p].work.base = b, ![p].own = @ \cup {"tree"}]
      BY <1>3 DEF IInv, Sessions
    <3>. QED BY <1>5, <3>1 DEF Becomes
  <2>4. n \in SUBSET DOMAIN Nothing
    BY <1>3 DEF Sessions, Nothing
  <2>5. /\ k \in Work /\ k.base = b /\ k.branch = m.branch /\ k.tree = t
        /\ k.commit = m.commit /\ k.pr = m.pr
    <3>. HIDE DEF m, b, o
    <3>. QED BY <1>3, <1>4 DEF Work
  <2>6. trees \in [Trees -> Worktrees \cup {None}]
    BY DEF IInv, WorldOK, Worktrees
  <2>. HIDE DEF x, b, k, n, m
  <2>7. /\ trees' \in [Trees -> Worktrees \cup {None}]
        /\ \A u \in Trees : trees'[u] = IF u = t THEN x ELSE trees[u]
    BY <1>3, <1>5, <2>2, <2>6
  <2>8. Grows
    <3>1. \A u \in Trees : trees[u] # None => trees[u].head \in Nat
      BY <2>6 DEF Worktrees
    <3>. QED BY <1>1, <2>1, <2>7, <3>1 DEF Grows
  <2>9. WorldOK'
    <3>1. late' \in Nat
      BY <1>5, LateTyped
    <3>. QED BY <1>1, <2>7, <3>1 DEF IInv, WorldOK, Worktrees
  <2>10. FirstTree(task', trees', pulls')
    <3>1. t <= task.attempts /\ (t = 1 /\ task.attempts = 1 => m.base = task.rec.base)
      BY <1>2, <1>3 DEF FirstSession
    <3>2. FirstTree(task, trees, pulls)
      BY DEF IInv
    <3>3. 1 \in Trees
      BY DEF Trees, MaxReconciliations
    <3>4. task.attempts = 0 => trees'[1] = None
      BY <1>3, <2>7, <3>1, <3>2, <3>3 DEF FirstTree
    <3>5. t = 1 => b = m.base
      BY <1>5 DEF b
    <3>6. task.attempts = 1 /\ trees'[1] # None => trees'[1].base = task.rec.base
      BY <1>3, <2>2, <2>7, <3>1, <3>2, <3>3, <3>5 DEF FirstTree
    <3>. QED BY <1>1, <1>5, <3>2, <3>4, <3>6 DEF FirstTree
  <2>. HIDE DEF o
  <2>11. s \in Sessions /\ s.phase = "assigning" /\ s.attempt = o.attempt /\ s.work = k
    BY <1>3, <2>4, <2>5 DEF Sessions, Phases
  <2>. HIDE DEF s
  <2>12. SessionOK(o, trees', pulls') /\ FirstSession(o, task', pulls')
    BY <1>3, <1>5, <2>8, <2>9, SessionStill, RowUnchanged DEF IInv
  <2>13. SessionOK(s, trees', pulls')
    <3>1. Exists(k, trees')
      BY <1>3, <2>2, <2>5, <2>7, <2>12 DEF SessionOK, Exists
    <3>. QED BY <1>3, <1>4, <2>5, <2>11, <3>1
         DEF SessionOK, TreePhases, CommitPhases, RecoveryPhases, OuterPhases
  <2>14. FirstSession(s, task', pulls')
    <3>1. t # 0 => b = m.base
      BY <1>5 DEF b
    <3>2. t \in Nat /\ o.attempt = t /\ t <= task'.attempts
      BY <1>3, <2>12 DEF FirstSession
    <3>. QED BY <1>2, <1>5, <2>5, <2>11, <2>12, <3>1, <3>2, <1>3
         DEF FirstSession, OuterPhases
  <2>15. RowMoves(task')
    BY <1>5, RowUnchanged
  <2>. QED BY <2>3, <2>8, <2>9, <2>10, <2>13, <2>14, <2>15, StepOf
<1>6. CASE /\ IF Delivering(p) THEN Settles(p, "FAILED_SAFE", "other")
              ELSE Ends(p) /\ UNCHANGED task
           /\ UNCHANGED <<trees, late>>
  <2>1. WorldOK' /\ UNCHANGED <<trees, pulls>>
    BY <1>1, <1>6 DEF IInv, WorldOK
  <2>2. "FAILED_SAFE" \in States \ {"DELIVERY_RECONCILING"}
    BY DEF States
  <2>3. Grows /\ FirstTree(task, trees', pulls')
    BY <2>1, GitRests DEF IInv
  <2>. QED BY <1>6, <2>1, <2>2, <2>3, SettlesStep, QuietErrors
<1>. QED BY <1>5, <1>6 DEF Allocate

LEMMA OpenStep ==
    ASSUME IInv, NEW p \in Processes, Open(p)
    PROVE  IInv'
<1>. DEFINE o == session[p]
            m == Mine(p)
            b == m.branch
            y == [commit |-> m.commit, base |-> m.base, opened |-> base]
            Pulls == [commit : Commits, base : Nat, opened : Nat]
<1>1. /\ In(p, "opening")
      /\ UNCHANGED <<trees, remote, base, evidence, overlaps>>
  BY DEF Open
<1>2. o.phase = "opening" /\ o.phase \in CommitPhases /\ o.phase \notin OuterPhases
  BY <1>1 DEF In, CommitPhases, OuterPhases
<1>3. /\ SessionOK(o, trees, pulls) /\ FirstSession(o, task, pulls)
      /\ o \in Sessions /\ o.work = m /\ m \in Work
      /\ o.attempt \in Nat /\ task.attempts \in Nat
  BY Session, RowTyped DEF Mine, MaxReconciliations
<1>4. m.commit # None /\ m.base # None /\ b # None /\ b \in Trees
  BY <1>2, <1>3 DEF SessionOK, Work
<1>5. y \in Pulls /\ y.base = m.base /\ y # None
  <2>1. m.commit \in Commits /\ m.base \in Nat /\ base \in Nat
    BY <1>3, <1>4 DEF Work, IInv, WorldOK
  <2>2. y \in Pulls
    <3>. HIDE DEF m
    <3>. QED BY <2>1
  <2>3. Commits \subseteq Trees \X Nat
    BY DEF Commits
  <2>. QED BY <2>2, <2>3, TaskDeliveryAssumptions
<1>6. pulls \in [Trees -> Pulls \cup {None}] /\ FirstTree(task, trees, pulls) /\ 1 \in Trees
  BY DEF IInv, WorldOK, Trees, MaxReconciliations
<1>7. Opened(p) = [pulls EXCEPT ![b] = IF pulls[b] # None THEN pulls[b] ELSE y]
  BY DEF Opened
<1>8. /\ b = 1 /\ task.attempts = 0 => FALSE
      /\ b = 1 /\ task.attempts = 1 => m.base = task.rec.base
  BY <1>2, <1>3 DEF FirstSession
<1>. HIDE DEF y, Pulls, b
<1>9. ASSUME pulls' \in {pulls, Opened(p)}, Unfenced(p) \/ UNCHANGED late
      PROVE  WorldOK' /\ Grows /\ FirstTree(task, trees', pulls')
             /\ (pulls' = Opened(p) => pulls'[b] # None)
  <2>1. /\ pulls' \in [Trees -> Pulls \cup {None}]
        /\ \A u \in Trees : pulls[u] # None => pulls'[u] = pulls[u]
        /\ \A u \in Trees : pulls[u] = None /\ pulls'[u] # None => u = b /\ pulls'[u] = y
        /\ pulls' = Opened(p) => pulls'[b] # None
    BY <1>4, <1>5, <1>6, <1>7, <1>9
  <2>2. late' \in Nat
    BY <1>9, LateTyped
  <2>3. WorldOK'
    BY <1>1, <2>1, <2>2 DEF IInv, WorldOK, Pulls
  <2>4. Grows
    <3>1. \A t \in Trees : trees[t] # None => trees[t].head \in Nat
      BY DEF IInv, WorldOK
    <3>. QED BY <1>1, <2>1, <3>1 DEF Grows
  <2>5. FirstTree(task, trees', pulls')
    <3>1. task.attempts = 0 => pulls'[1] = None
      BY <1>6, <1>8, <2>1 DEF FirstTree
    <3>2. task.attempts = 1 /\ pulls'[1] # None => pulls'[1].base = task.rec.base
      BY <1>5, <1>6, <1>8, <2>1 DEF FirstTree
    <3>. QED BY <1>1, <1>6, <3>1, <3>2 DEF FirstTree
  <2>. QED BY <2>1, <2>3, <2>4, <2>5
<1>10. CASE pulls' = Opened(p) /\ Goes(p, "binding") /\ Unfenced(p) /\ UNCHANGED task
  <2>1. WorldOK' /\ Grows /\ FirstTree(task, trees', pulls') /\ pulls'[b] # None
    BY <1>9, <1>10
  <2>2. Suits(p, "binding")
    BY <1>2, <1>4, <2>1
    DEF Suits, Phases, OuterPhases, TreePhases, RecoveryPhases, b
  <2>3. FirstTree(task', trees', pulls') /\ RowMoves(task')
    BY <1>10, <2>1, RowUnchanged DEF FirstTree
  <2>. QED BY <1>10, <2>1, <2>2, <2>3, GoesStep
<1>11. CASE pulls' \in {pulls, Opened(p)} /\ CommandFails(p) /\ Unfenced(p)
  BY <1>9, <1>11, ErrsStep, BlocksStep DEF CommandFails
<1>12. CASE /\ IF Delivering(p) THEN Blocks(p, "delivery") ELSE Ends(p) /\ UNCHANGED task
            /\ UNCHANGED <<pulls, late>>
  BY <1>1, <1>9, <1>12, QuietErrors
<1>. QED BY <1>10, <1>11, <1>12 DEF Open

LEMMA BindStep ==
    ASSUME IInv, NEW p \in Processes, Bind(p)
    PROVE  IInv'
<1>. DEFINE o == session[p]
            m == Mine(p)
            pull == pulls[m.branch]
<1>1. WorldOK' /\ UNCHANGED <<trees, pulls>>
  BY WorldRests DEF Bind
<1>2. o.phase = "binding" /\ o.phase \in CommitPhases /\ o.phase \notin OuterPhases
  BY DEF Bind, In, CommitPhases, OuterPhases
<1>3. /\ SessionOK(o, trees, pulls) /\ FirstSession(o, task, pulls)
      /\ o \in Sessions /\ o.work = m /\ m \in Work
  BY Session DEF Mine
<1>4. m.commit # None /\ m.base # None /\ m.branch # None /\ m.branch \in Trees
      /\ pull # None
  BY <1>2, <1>3 DEF SessionOK, Work
<1>5. pull.opened \in Nat /\ base \in Nat
  BY <1>4 DEF IInv, WorldOK
<1>6. CASE Errs(p)
  BY <1>1, <1>6, QuietErrors
<1>7. CASE /\ \E oid \in {pull.opened, base} :
                IF oid = m.base THEN Learns(p, "pr", TRUE, "bound") ELSE Drifts(p, oid)
           /\ UNCHANGED task
  <2>1. PICK oid \in Nat :
               IF oid = m.base THEN Learns(p, "pr", TRUE, "bound") ELSE Drifts(p, oid)
    BY <1>5, <1>7
  <2>2. CASE Drifts(p, oid)
    BY <1>1, <1>7, <2>2, DriftsStep
  <2>3. CASE Learns(p, "pr", TRUE, "bound")
    <3>. DEFINE v == TRUE
                k == [m EXCEPT !["pr"] = v]
    <3>1. "pr" \in DOMAIN Nothing /\ "bound" \in Phases
      BY DEF Nothing, Phases
    <3>2. m.branch = 1 => pulls[1] # None
      BY <1>4
    <3>. HIDE DEF m
    <3>3. /\ k \in Work /\ k.base = m.base /\ k.branch = m.branch /\ k.tree = m.tree
          /\ k.commit = m.commit /\ k.pr
      BY <1>3 DEF Work
    <3>7. Learns(p, "pr", v, "bound")
      BY <2>3
    <3>. HIDE DEF v
    <3>4. PICK s \in Sessions : /\ Becomes(p, s) /\ s.phase = "bound"
                                /\ s.attempt = o.attempt /\ s.work = k
      BY <3>7, <3>1, <3>3, Learned DEF m
    <3>. HIDE DEF k, o
    <3>5. SessionOK(s, trees, pulls)
      BY <1>3, <1>4, <3>3, <3>4
      DEF SessionOK, Exists, TreePhases, CommitPhases, RecoveryPhases, OuterPhases
    <3>6. FirstSession(s, task', pulls)
      BY <1>2, <1>3, <1>7, <3>2, <3>3, <3>4 DEF FirstSession, OuterPhases
    <3>. QED BY <1>1, <1>7, <3>4, <3>5, <3>6, RowUnchanged, QuietStep
  <2>. QED BY <2>1, <2>2, <2>3
<1>. QED BY <1>6, <1>7 DEF Bind

-----------------------------------------------------------------------------
(* The theorems *)

LEMMA InitInvariant ==
    ASSUME Init
    PROVE  IInv
<1>1. /\ Nothing \in Work /\ Nothing.branch = None /\ Nothing.tree = None
      /\ Nothing.commit = None /\ ~Nothing.pr
  BY DEF Nothing, Work
<1>. DEFINE k == [Nothing EXCEPT !.branch = 0]
<1>2. 0 \in Trees /\ 1 \in Trees /\ 0 # None
  BY TaskDeliveryAssumptions DEF Trees, MaxReconciliations
<1>3. k \in Work /\ k.branch = 0 /\ k.tree = None /\ k.commit = None
  BY <1>1, <1>2 DEF Work
<1>4. task = [state |-> "READY", owner |-> None, claims |-> 0, failure |-> "none",
              work |-> k, attempts |-> 0, source |-> "none", rec |-> Nothing]
  BY DEF Init
<1>. HIDE DEF k
<1>5. task \in Rows
  BY <1>1, <1>3, <1>4, TaskDeliveryAssumptions DEF Rows, States, MaxReconciliations
<1>6. WorldOK
  BY DEF Init, WorldOK
<1>7. RowOK(task, trees)
  BY <1>1, <1>2, <1>3, <1>4, <1>5 DEF RowOK, Exists
<1>8. FirstRow(task, pulls) /\ FirstTree(task, trees, pulls)
  BY <1>1, <1>2, <1>3, <1>4 DEF FirstRow, FirstTree, Init
<1>9. session \in [Processes -> Sessions] /\ \A p \in Processes : session[p] = Idle
  BY IdleTyped DEF Init
<1>10. SessionOK(Idle, trees, pulls) /\ FirstSession(Idle, task, pulls)
  BY IdleTyped, <1>4
  DEF SessionOK, FirstSession, Exists, TreePhases, CommitPhases, RecoveryPhases, OuterPhases
<1>. QED BY <1>6, <1>7, <1>8, <1>9, <1>10 DEF IInv

LEMMA StepPreserves ==
    ASSUME IInv, [Next]_vars
    PROVE  IInv'
<1>1. ASSUME NEW p \in Workers, Claim(p) PROVE IInv'
  BY <1>1, ClaimStep
<1>2. ASSUME NEW o \in Operators, Command(o) PROVE IInv'
  BY <1>2, CommandStep
<1>3. ASSUME NEW p \in Processes, Step(p) PROVE IInv'
  BY <1>3, SaveStep, AllocateStep, ExecuteStep, ScopeStep, CommitStep, VerifyStep,
     RequireHeadStep, PushStep, CheckBaseStep, OpenStep, BindStep, FinishStep, StartStep,
     RetryStep, FailStep, EnterStep, NoteStep, RefreshStep, RereadStep, ApplyStep DEF Step
<1>4. ASSUME NEW p \in Processes, Crash(p) PROVE IInv'
  BY <1>4, CrashStep
<1>5. CASE Reap \/ ReapAlive \/ MoveBase
  BY <1>5, ReapStep, ReapAliveStep, MoveBaseStep
<1>6. CASE UNCHANGED vars
  <2>1. UNCHANGED <<trees, pulls, session>> /\ WorldOK' /\ UNCHANGED task
    BY <1>6 DEF vars, git, faults, IInv, WorldOK
  <2>. QED BY <2>1, RowUnchanged, RestStep
<1>. QED BY <1>1, <1>2, <1>3, <1>4, <1>5, <1>6 DEF Next

\* The invariant the other theorems follow from: what rows, sessions, worktrees
\* and pull requests are like, and what the first recovery keeps to.
THEOREM RecoveryInvariance == Spec => []IInv
<1>1. Init => IInv
  BY InitInvariant
<1>2. IInv /\ [Next]_vars => IInv'
  BY StepPreserves
<1>. QED BY <1>1, <1>2, PTL DEF Spec

\* The variables have their types; no delivery is recovered more than twice; the
\* worktree and the commit that the row or a process names exist.
THEOREM RecoveryTyping == Spec => []TypeOK
<1>1. IInv => TypeOK
  <2>. SUFFICES ASSUME IInv PROVE TypeOK
    OBVIOUS
  <2>1. task \in Rows /\ Exists(task.work, trees) /\ Exists(task.rec, trees)
    BY DEF IInv, RowOK
  <2>2. \A p \in Processes : /\ Exists(Mine(p), trees)
                             /\ session[p].phase \in TreePhases => Mine(p).tree # None
    BY DEF IInv, SessionOK, Mine
  <2>3. \A known \in {task.work, task.rec} \cup {Mine(p) : p \in Processes} :
          Exists(known, trees)
    BY <2>1, <2>2
  <2>4. \A p \in Processes :
          session[p].phase \in {"executing", "scoping", "committing", "verifying",
                                "heading", "pushing", "applying"} => Mine(p).tree # None
    BY <2>2 DEF TreePhases
  <2>5. {late, overlaps} \subseteq Nat
    BY DEF IInv, WorldOK
  <2>. QED BY <2>1, <2>3, <2>4, <2>5 DEF TypeOK, IInv, WorldOK, Sessions, Exists
<1>. QED BY <1>1, RecoveryInvariance, PTL

\* A task recovered in its first attempt was rebuilt on the base its row records,
\* and its pull request says so: for any number of workers, of operators who
\* join the recovery and of moves of the base, and whoever dies when.
THEOREM RecoveryBase == Spec => []RecoveryIsOnBase
<1>1. IInv => RecoveryIsOnBase
  <2>. SUFFICES ASSUME IInv, task.work.branch # 0, task.attempts = 1
                PROVE  /\ trees[task.work.commit[1]].base = task.work.base
                       /\ pulls[task.work.branch].base = task.work.base
    BY DEF RecoveryIsOnBase
  <2>1. /\ task.work.branch = 1 /\ pulls[1] # None
        /\ task.work.commit # None /\ task.work.commit[1] = 1
        /\ task.work.base = task.rec.base
    BY DEF IInv, FirstRow
  <2>2. trees[1] # None
    BY <2>1 DEF IInv, RowOK, Exists
  <2>. QED BY <2>1, <2>2 DEF IInv, FirstTree
<1>. QED BY <1>1, RecoveryInvariance, PTL
=============================================================================
