---------------------------- MODULE TaskDelivery ----------------------------
(***************************************************************************)
(* The delivery of one code-changing Night Shift task: its commit travels  *)
(* from a worktree to a pushed branch and a pull request, and, when the    *)
(* base branch moved meanwhile, over a recovery worktree to a second one.  *)
(* TaskQueue has the row's life cycle with leases and attempts; here it is *)
(* kept short and the Git side is added.                                   *)
(*                                                                         *)
(*   task              the row, changed by transactions of the store only  *)
(*   trees             worktrees: 0 the task's, n that of recovery n; the  *)
(*                     branch of a worktree is created with it             *)
(*   remote, pulls     branches on origin and their open pull requests     *)
(*   base              origin's base branch, counted in moves              *)
(*   evidence          commits with a passing verification on record       *)
(*                                                                         *)
(* A process alternates Git and GitHub commands, which nothing fences,     *)
(* with transactions of the store, which are refused to a worker that lost *)
(* the lease.  A commit is the n-th one made in a worktree.  Paths, patch  *)
(* contents and messages are left out; so are read-only tasks, approval    *)
(* and review.                                                             *)
(***************************************************************************)
EXTENDS Naturals

CONSTANTS
    Workers,        \* worker processes, each claims under its own id
    Operators,      \* processes of `reconcile_preserved_delivery`
    MaxAttempts,    \* max_attempts of the task
    None

Processes == Workers \cup Operators
MaxReconciliations == 2
Trees == 0..MaxReconciliations

ASSUME TaskDeliveryAssumptions ==
    /\ Workers \cap Operators = {}
    /\ MaxAttempts \in 1..10
    /\ None \notin Processes \cup Nat \cup (Trees \X Nat)
    /\ None \notin [branch : Trees, base : Nat, head : Nat, dirty : BOOLEAN]
    /\ None \notin [commit : Trees \X Nat, base : Nat, opened : Nat]

VARIABLES
    task, trees, remote, pulls, base, evidence,
    late,           \* commands in a worktree or on GitHub after the lease was lost
    overlaps,       \* recoveries entered while another process was in one
    session         \* what every process is doing, lost when it dies

git == <<trees, remote, pulls>>
faults == <<late, overlaps>>
vars == <<task, trees, remote, pulls, base, evidence, late, overlaps, session>>

\* What is known of a delivery: as columns of the row, in its
\* reconciliation_json and in the memory of a process.
Nothing == [base |-> None, branch |-> None, tree |-> None, commit |-> None,
            remote |-> None, pr |-> FALSE]

\* attempt is the recovery a process works on, 0 for the task's own delivery;
\* own are the fields of its recovery it learned itself and writes back.
Idle == [phase |-> "idle", attempt |-> 0, work |-> Nothing, own |-> {}]

Init ==
    /\ task = [state |-> "READY", owner |-> None, claims |-> 0, failure |-> "none",
               work |-> [Nothing EXCEPT !.branch = 0],
               attempts |-> 0, source |-> "none", rec |-> Nothing]
    /\ trees = [t \in Trees |-> None]
    /\ remote = [b \in Trees |-> None]
    /\ pulls = [b \in Trees |-> None]
    /\ base = 0
    /\ evidence = {}
    /\ late = 0
    /\ overlaps = 0
    /\ session = [p \in Processes |-> Idle]

In(p, phase) == session[p].phase = phase
Mine(p) == session[p].work
Delivering(p) == session[p].attempt = 0
Goes(p, phase) == session' = [session EXCEPT ![p].phase = phase]
Ends(p) == session' = [session EXCEPT ![p] = Idle]
Learns(p, field, value, phase) ==
    session' = [session EXCEPT ![p].phase = phase, ![p].work[field] = value,
                               ![p].own = @ \cup {field}]
Drifts(p, to) ==
    session' = [session EXCEPT ![p].phase = "drifting", ![p].work.base = to]

-----------------------------------------------------------------------------
(* Transactions of the store *)

\* The fence: the lease, or for a recovery without one the state alone.
MayWrite(p) ==
    IF Delivering(p) THEN task.owner = p
    ELSE task.state = "DELIVERY_RECONCILING" /\ task.owner \in {None, p}

\* A refused transaction is an error that ends what the process was doing.
Stores(p, row, next) ==
    IF MayWrite(p) THEN task' = row /\ next ELSE UNCHANGED task /\ Ends(p)

Unleased(state, failure) ==
    [task EXCEPT !.state = state, !.owner = None, !.failure = failure]
Settles(p, state, failure) == Stores(p, Unleased(state, failure), Ends(p))

\* block_delivery: a task that has a pull request stays reviewable.
Blocks(p, failure) ==
    Settles(p, IF task.work.pr THEN "PR_READY" ELSE "BLOCKED", failure)

\* A DeliveryError in the pipeline's own words: complete keeps what reached the
\* remote; a recovery lets the error escape and leaves the row as it is.
Errs(p) ==
    IF ~Delivering(p) THEN Ends(p) /\ UNCHANGED task
    ELSE Settles(p, IF task.work.commit # None /\ task.work.remote # None
                      THEN "BLOCKED" ELSE "FAILED_SAFE", "delivery")

\* One in the words of git or gh: where they hold VERIFICATION or REGRESSION, as a
\* branch name may, a delivery takes it for a failed verification.
CommandFails(p) == Errs(p) \/ (Delivering(p) /\ Blocks(p, "other"))

\* A delivery writes the columns, a recovery the fields it learned.
Saved(p) ==
    IF Delivering(p) THEN [task EXCEPT !.work = Mine(p)]
    ELSE [task EXCEPT !.rec = [f \in DOMAIN @ |->
            IF f \in session[p].own THEN Mine(p)[f] ELSE @[f]]]

\* What is not pushed yet is pushed, what has no pull request gets one.
Onward(work) ==
    IF work.remote = None THEN "pushing" ELSE IF work.pr THEN "finishing" ELSE "opening"

\* A recovery reads its pull request again once it has pushed.
Known(p) == Mine(p).pr \/ (~Delivering(p) /\ task.rec.pr)

\* Fault: the verifier is left to the reviewer's CI.
AfterUnverified(p) ==
    CASE In(p, "assigning") -> IF Delivering(p) THEN "executing" ELSE "applying"
      [] In(p, "committed") -> "heading"
      [] In(p, "verified") -> IF Delivering(p) THEN "heading" ELSE "pushing"
      [] In(p, "pushed") -> IF Delivering(p) THEN "checking"
                            ELSE Onward([Mine(p) EXCEPT !.pr = Known(p)])
      [] In(p, "bound") -> "finishing"

After(p) ==
    CASE In(p, "assigning") -> IF Delivering(p) THEN "executing" ELSE "applying"
      [] In(p, "committed") -> "verifying"
      [] In(p, "verified") -> IF Delivering(p) THEN "heading" ELSE "pushing"
      [] In(p, "pushed") -> IF Delivering(p) THEN "checking"
                            ELSE Onward([Mine(p) EXCEPT !.pr = Known(p)])
      [] In(p, "bound") -> "finishing"

\* assign_worktree, record_commit, record_verification, record_push, record_pr
\* and the update_delivery_reconciliation after each step of a recovery.
Save(p) ==
    /\ session[p].phase \in {"assigning", "committed", "verified", "pushed", "bound"}
    /\ Stores(p, Saved(p), session' = [session EXCEPT ![p].phase = After(p),
                                                      ![p].work.pr = Known(p)])
    /\ UNCHANGED <<git, base, evidence, faults>>

\* recover_expired; a process that still runs fails the task.
Reap ==
    /\ task.owner # None
    /\ task' = IF task.state = "DELIVERY_RECONCILING" THEN Unleased("BLOCKED", "delivery")
               ELSE IF task.claims < MaxAttempts THEN Unleased("READY", "other")
               ELSE Unleased("FAILED_SAFE", "other")
    /\ UNCHANGED <<git, base, evidence, faults, session>>

ReapAlive ==
    /\ task.owner # None
    /\ task.state # "DELIVERY_RECONCILING"
    /\ task' = Unleased("FAILED_SAFE", "other")
    /\ UNCHANGED <<git, base, evidence, faults, session>>

-----------------------------------------------------------------------------
(* A worker: claim, worktree, execution *)

\* Commands in a worktree or on GitHub: what the lease guard before them saw
\* may have changed when they run.
Unfenced(p) == late' = IF MayWrite(p) THEN late ELSE late + 1

Claim(p) ==
    /\ p \in Workers
    /\ In(p, "idle")
    /\ task.state = "READY"
    /\ task.claims < MaxAttempts
    /\ task' = [task EXCEPT !.state = "CLAIMED", !.owner = p, !.claims = @ + 1,
                            !.failure = "none"]
    /\ session' = [session EXCEPT ![p] = [Idle EXCEPT
         !.phase = IF task.work.tree = None THEN "allocating" ELSE "executing",
         !.work = task.work]]
    /\ UNCHANGED <<git, base, evidence, faults>>

\* Neither the path nor the branch of a new worktree may exist.
Free(t, branch) ==
    /\ trees[t] = None
    /\ \A u \in Trees : trees[u] # None => trees[u].branch # branch

Built(p) == [branch |-> Mine(p).branch, base |-> base, head |-> 0, dirty |-> FALSE]

\* A recovery expects the base it was started for.
Allocate(p) ==
    LET t == session[p].attempt IN
    /\ In(p, "allocating")
    /\ IF Free(t, Mine(p).branch) /\ (t = 0 \/ Mine(p).base = base)
         THEN /\ trees' = [trees EXCEPT ![t] = Built(p)]
              /\ session' = [session EXCEPT ![p].phase = "assigning",
                   ![p].work.tree = t, ![p].work.base = base,
                   ![p].own = @ \cup {"tree"}]
              /\ Unfenced(p)
              /\ UNCHANGED task
         ELSE /\ IF Delivering(p) THEN Settles(p, "FAILED_SAFE", "other")
                 ELSE Ends(p) /\ UNCHANGED task
              /\ UNCHANGED <<trees, late>>
    /\ UNCHANGED <<remote, pulls, base, evidence, overlaps>>

\* The worker's adapter leaves changes in the worktree or takes some back; it
\* succeeds, or fails and is retried while there are attempts.
Execute(p) ==
    /\ In(p, "executing")
    /\ \E dirty \in BOOLEAN : trees' = [trees EXCEPT ![Mine(p).tree].dirty = dirty]
    /\ Unfenced(p)
    /\ \/ Stores(p, [task EXCEPT !.state = "VERIFYING"],
                 Goes(p, IF Mine(p).commit = None THEN "scoping" ELSE "verifying"))
       \/ Settles(p, IF task.claims < MaxAttempts THEN "READY" ELSE "FAILED_SAFE", "other")
    /\ UNCHANGED <<remote, pulls, base, evidence, overlaps>>

-----------------------------------------------------------------------------
(* The pipeline, shared by a delivery and its recoveries *)

Tree(p) == trees[Mine(p).tree]
Head(p) == <<Mine(p).tree, Tree(p).head>>

\* verify_scope and the verification that must precede a commit.
Scope(p) ==
    /\ In(p, "scoping")
    /\ IF Tree(p).dirty
         THEN \/ Goes(p, "committing") /\ UNCHANGED task
              \/ Blocks(p, "other")
         ELSE Errs(p)
    /\ UNCHANGED <<git, base, evidence, faults>>

Commit(p) ==
    LET t == Mine(p).tree
        made == <<t, Tree(p).head + 1>>
    IN
    /\ In(p, "committing")
    /\ \/ /\ Tree(p).dirty
          /\ trees' = [trees EXCEPT ![t].head = @ + 1, ![t].dirty = FALSE]
          /\ Learns(p, "commit", made, IF Delivering(p) THEN "committed" ELSE "verifying")
          /\ Unfenced(p)
          /\ UNCHANGED task
       \/ CommandFails(p) /\ UNCHANGED <<trees, late>>
    /\ UNCHANGED <<remote, pulls, base, evidence, overlaps>>

\* A delivery reuses evidence that is on record for the commit; a failure is
\* told from other delivery errors by its text.
Verify(p) ==
    /\ In(p, "verifying")
    /\ \/ /\ evidence' = evidence \cup {Mine(p).commit}
          /\ Goes(p, "verified")
          /\ UNCHANGED task
       \/ /\ ~(Delivering(p) /\ Mine(p).commit \in evidence)
          /\ IF Delivering(p) THEN Blocks(p, "other") ELSE Goes(p, "failing") /\ UNCHANGED task
          /\ UNCHANGED evidence
    /\ UNCHANGED <<git, base, faults>>

\* _require_head: the right branch, the recorded commit, nothing uncommitted.
RequireHead(p) ==
    /\ In(p, "heading")
    /\ IF /\ Tree(p).branch = Mine(p).branch
          /\ Head(p) = Mine(p).commit
          /\ ~Tree(p).dirty
         THEN Goes(p, IF Delivering(p) THEN "pushing" ELSE Onward(Mine(p))) /\ UNCHANGED task
         ELSE Errs(p)
    /\ UNCHANGED <<git, base, evidence, faults>>

\* git push without force sends the HEAD of the worktree; a push that reports
\* an error may have arrived.
Push(p) ==
    /\ In(p, "pushing")
    /\ \/ /\ remote' = [remote EXCEPT ![Mine(p).branch] = Head(p)]
          /\ Learns(p, "remote", Head(p), "pushed")
          /\ UNCHANGED task
       \/ /\ remote' \in {remote, [remote EXCEPT ![Mine(p).branch] = Head(p)]}
          /\ CommandFails(p)
    /\ Unfenced(p)
    /\ UNCHANGED <<trees, pulls, base, evidence, overlaps>>

\* The last look at the base before a delivery's pull request.
CheckBase(p) ==
    /\ In(p, "checking")
    /\ IF base = Mine(p).base THEN Goes(p, "opening") ELSE Drifts(p, base)
    /\ UNCHANGED <<task, git, base, evidence, faults>>

\* find_or_create: GitHub has at most one open pull request for a branch.  The
\* body names commit and base; opened is the base GitHub saw.
Opened(p) == [pulls EXCEPT ![Mine(p).branch] =
    IF @ # None THEN @
    ELSE [commit |-> Mine(p).commit, base |-> Mine(p).base, opened |-> base]]

Open(p) ==
    /\ In(p, "opening")
    /\ \/ pulls' = Opened(p) /\ Goes(p, "binding") /\ Unfenced(p) /\ UNCHANGED task
       \/ pulls' \in {pulls, Opened(p)} /\ CommandFails(p) /\ Unfenced(p)
       \* gh is not authenticated
       \/ /\ IF Delivering(p) THEN Blocks(p, "delivery") ELSE Ends(p) /\ UNCHANGED task
          /\ UNCHANGED <<pulls, late>>
    /\ UNCHANGED <<trees, remote, base, evidence, overlaps>>

\* _validate_binding; GitHub answers with the base it saw or sees.
Bind(p) ==
    LET pull == pulls[Mine(p).branch] IN
    /\ In(p, "binding")
    /\ IF /\ pull.commit = Mine(p).commit
          /\ pull.base = Mine(p).base
          /\ remote[Mine(p).branch] = Mine(p).commit
         THEN /\ \E oid \in {pull.opened, base} :
                   IF oid = Mine(p).base THEN Learns(p, "pr", TRUE, "bound") ELSE Drifts(p, oid)
              /\ UNCHANGED task
         ELSE Errs(p)
    /\ UNCHANGED <<git, base, evidence, faults>>

\* Fault: a recovery leaves the branch column alone.
FinishOldBranch(p) ==
    /\ In(p, "finishing")
    /\ Stores(p, IF Delivering(p) THEN Unleased("PR_READY", "none")
                 ELSE [Unleased("PR_READY", "none") EXCEPT
                        !.work = [Mine(p) EXCEPT !.tree = task.work.tree,
                                                 !.branch = task.work.branch],
                        !.rec = Mine(p)],
              Ends(p))
    /\ UNCHANGED <<git, base, evidence, faults>>

\* complete, or finish_delivery_reconciliation with success.
Finish(p) ==
    /\ In(p, "finishing")
    /\ Stores(p, IF Delivering(p) THEN Unleased("PR_READY", "none")
                 ELSE [Unleased("PR_READY", "none") EXCEPT
                        !.work = [Mine(p) EXCEPT !.tree = task.work.tree],
                        !.rec = Mine(p)],
              Ends(p))
    /\ UNCHANGED <<git, base, evidence, faults>>

-----------------------------------------------------------------------------
(* Recoveries *)

\* reconcile_preserved_delivery reads the row and the base.
Command(o) ==
    /\ o \in Operators
    /\ In(o, "idle")
    /\ task.state \in {"BLOCKED", "FAILED_SAFE"}
    /\ task.failure = "delivery"
    /\ session' = [session EXCEPT ![o] =
         [Idle EXCEPT !.phase = "drifting", !.work.base = base]]
    /\ UNCHANGED <<task, git, base, evidence, faults>>

\* start_delivery_reconciliation: a recovery under way is joined.
Startable(p) ==
    \/ task.state = "VERIFYING" /\ task.owner = p
    \/ task.state = "BLOCKED"
    \/ task.state = "FAILED_SAFE" /\ task.failure = "delivery"

Started(p) ==
    [task EXCEPT !.state = "DELIVERY_RECONCILING", !.attempts = @ + 1,
                 !.source = task.state, !.rec.base = Mine(p).base]

\* Fault: only the automatic retries are counted.
StartAgain(p) ==
    /\ In(p, "drifting")
    /\ Delivering(p)
    /\ IF task.state = "DELIVERY_RECONCILING" THEN Goes(p, "entering") /\ UNCHANGED task
       ELSE IF Startable(p) THEN Goes(p, "entering") /\ task' = Started(p)
       ELSE Ends(p) /\ UNCHANGED task
    /\ UNCHANGED <<git, base, evidence, faults>>

\* Fault: a restart after the first attempt is the same attempt.
StartSameAttempt(p) ==
    /\ In(p, "drifting")
    /\ Delivering(p)
    /\ IF task.state = "DELIVERY_RECONCILING" THEN Goes(p, "entering") /\ UNCHANGED task
       ELSE IF Startable(p)
         THEN Goes(p, "entering") /\ task' = [Started(p) EXCEPT !.attempts = 1]
       ELSE Ends(p) /\ UNCHANGED task
    /\ UNCHANGED <<git, base, evidence, faults>>

Start(p) ==
    /\ In(p, "drifting")
    /\ Delivering(p)
    /\ IF task.state = "DELIVERY_RECONCILING" THEN Goes(p, "entering") /\ UNCHANGED task
       ELSE IF Startable(p) /\ task.attempts < MaxReconciliations
         THEN Goes(p, "entering") /\ task' = Started(p)
       ELSE Ends(p) /\ UNCHANGED task
    /\ UNCHANGED <<git, base, evidence, faults>>

\* finish_delivery_reconciliation without success.
Unrecovered == Unleased(IF task.source = "FAILED_SAFE" THEN "FAILED_SAFE" ELSE "BLOCKED",
                        "delivery")

\* The base moved again: one more attempt, if there is one.
Retry(p) ==
    /\ In(p, "drifting")
    /\ ~Delivering(p)
    /\ IF task.attempts < MaxReconciliations
         THEN Stores(p, [task EXCEPT !.attempts = @ + 1, !.rec.base = Mine(p).base],
                     Goes(p, "entering"))
         ELSE Stores(p, Unrecovered, Ends(p))
    /\ UNCHANGED <<git, base, evidence, faults>>

Fail(p) ==
    /\ In(p, "failing")
    /\ Stores(p, Unrecovered, Ends(p))
    /\ UNCHANGED <<git, base, evidence, faults>>

\* reconcile reads the row: which attempt it is, for which base, on which
\* branch.  Without a commit of the task there is nothing to recover.
Enter(p) ==
    /\ In(p, "entering")
    /\ IF task.state # "DELIVERY_RECONCILING" THEN Ends(p) /\ UNCHANGED overlaps
       ELSE /\ overlaps' = IF \E q \in Processes \ {p} : ~Delivering(q)
                             THEN overlaps + 1 ELSE overlaps
            /\ session' = [session EXCEPT ![p] =
                 [phase |-> IF task.work.commit = None THEN "failing" ELSE "noting",
                  attempt |-> task.attempts,
                  work |-> [Nothing EXCEPT !.base = task.rec.base,
                            !.branch = IF task.rec.branch = None THEN task.attempts
                                       ELSE task.rec.branch],
                  own |-> {"base", "branch"}]]
    /\ UNCHANGED <<task, git, base, evidence, late>>

Note(p) ==
    /\ In(p, "noting")
    /\ Stores(p, Saved(p), Goes(p, "refreshing"))
    /\ UNCHANGED <<git, base, evidence, faults>>

\* The base again, and a fetch of the task's branch, which must be on origin.
Refresh(p) ==
    /\ In(p, "refreshing")
    /\ IF base # Mine(p).base THEN Drifts(p, base)
       ELSE IF remote[task.work.branch] = None THEN Ends(p)
       ELSE Goes(p, "rereading")
    /\ UNCHANGED <<task, git, base, evidence, faults>>

\* The second update; what an earlier attempt left in the row is taken over.
Reread(p) ==
    LET row == Saved(p) IN
    /\ In(p, "rereading")
    /\ Stores(p, row, session' = [session EXCEPT
         ![p].phase = IF row.rec.tree = None THEN "allocating"
                      ELSE IF row.rec.commit # None THEN "heading" ELSE "applying",
         ![p].work = [row.rec EXCEPT !.base = Mine(p).base, !.branch = Mine(p).branch]])
    /\ UNCHANGED <<git, base, evidence, faults>>

\* git apply of the task's delta: it may conflict, and leaves nothing to commit
\* where it was committed before.
Apply(p) ==
    /\ In(p, "applying")
    /\ \/ /\ Tree(p).head = 0 \/ Tree(p).dirty
          /\ trees' = [trees EXCEPT ![Mine(p).tree].dirty = TRUE]
          /\ Goes(p, "committing")
          /\ Unfenced(p)
       \/ Goes(p, "failing") /\ UNCHANGED <<trees, late>>
    /\ UNCHANGED <<task, remote, pulls, base, evidence, overlaps>>

-----------------------------------------------------------------------------

MoveBase ==
    /\ base' = base + 1
    /\ UNCHANGED <<task, git, evidence, faults, session>>

Crash(p) ==
    /\ session[p] # Idle
    /\ Ends(p)
    /\ UNCHANGED <<task, git, base, evidence, faults>>

Step(p) ==
    \/ Save(p) \/ Allocate(p) \/ Execute(p) \/ Scope(p) \/ Commit(p) \/ Verify(p)
    \/ RequireHead(p) \/ Push(p) \/ CheckBase(p) \/ Open(p) \/ Bind(p) \/ Finish(p)
    \/ Start(p) \/ Retry(p) \/ Fail(p) \/ Enter(p) \/ Note(p) \/ Refresh(p)
    \/ Reread(p) \/ Apply(p)

Next ==
    \/ \E p \in Workers : Claim(p)
    \/ \E o \in Operators : Command(o)
    \/ \E p \in Processes : Step(p) \/ Crash(p)
    \/ Reap \/ ReapAlive \/ MoveBase

Spec == Init /\ [][Next]_vars
=============================================================================
