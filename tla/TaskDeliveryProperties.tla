----------------------- MODULE TaskDeliveryProperties -----------------------
(***************************************************************************)
(* What the delivery of a task promises.                                   *)
(***************************************************************************)
EXTENDS TaskDelivery

Commits == Trees \X (Nat \ {0})
Work == [base : Nat \cup {None}, branch : Trees \cup {None}, tree : Trees \cup {None},
         commit : Commits \cup {None}, remote : Commits \cup {None}, pr : BOOLEAN]
States == {"READY", "CLAIMED", "VERIFYING", "DELIVERY_RECONCILING", "BLOCKED",
           "FAILED_SAFE", "PR_READY"}
Rows == [state : States, owner : Workers \cup {None}, claims : 0..MaxAttempts,
         failure : {"none", "delivery", "other"}, work : Work,
         attempts : 0..MaxReconciliations,
         source : {"none", "VERIFYING", "BLOCKED", "FAILED_SAFE"}, rec : Work]
Phases == {"idle", "allocating", "assigning", "executing", "scoping", "committing",
           "committed", "verifying", "verified", "heading", "pushing", "pushed",
           "checking", "opening", "binding", "bound", "finishing", "drifting",
           "entering", "noting", "refreshing", "rereading", "applying", "failing"}

\* No delivery is recovered more than twice, by whomever; what the row, or a
\* process that works on a worktree, names as worktree and commit exists.
TypeOK ==
    /\ task \in Rows
    /\ trees \in [Trees -> [branch : Trees, base : Nat, head : Nat, dirty : BOOLEAN]
                           \cup {None}]
    /\ remote \in [Trees -> Commits \cup {None}]
    /\ pulls \in [Trees -> [commit : Commits, base : Nat, opened : Nat] \cup {None}]
    /\ base \in Nat
    /\ evidence \subseteq Commits
    /\ {late, overlaps} \subseteq Nat
    /\ session \in [Processes -> [phase : Phases, attempt : 0..MaxReconciliations,
                                  work : Work, own : SUBSET DOMAIN Nothing]]
    /\ \A known \in {task.work, task.rec} \cup {Mine(p) : p \in Processes} :
         /\ known.tree # None => trees[known.tree] # None
         /\ known.commit # None => trees[known.commit[1]].head >= known.commit[2]
    /\ \A p \in Processes :
         session[p].phase \in {"executing", "scoping", "committing", "verifying",
                               "heading", "pushing", "applying"} => Mine(p).tree # None

\* The guards before a Git command and the fence after it leave a window in
\* which the lease may be lost and the command still run.  One such command is
\* within what the checks of the pipeline make up for.
AtMostOneLate == late <= 1

\* Recoveries did not meet, or all that met worked on the first attempt, which has
\* one branch.  Where recoveries of two attempts meet, one writes its branch and
\* its worktree over the other's, and the code promises less.
OneAttemptAtATime == overlaps = 0 \/ task.attempts <= 1

\* A task is offered for review only when the recorded branch is on origin with
\* the recorded commit, and its pull request names that commit: however often it
\* was claimed, reaped, recovered or cut off between a command and the transaction
\* that records it, and when commands of operators or a stale worker join the first
\* attempt.  Left out are more than one late command and the meeting of recoveries
\* of two attempts.
ReviewableIsOnRemote ==
    task.state = "PR_READY" /\ AtMostOneLate /\ OneAttemptAtATime =>
      /\ task.work.commit # None
      /\ remote[task.work.branch] = task.work.commit
      /\ pulls[task.work.branch] # None
      /\ pulls[task.work.branch].commit = task.work.commit

\* Nothing reaches a branch on origin without a passing verification of that
\* very commit on record.
PushedHasEvidence ==
    AtMostOneLate =>
      \A b \in Trees : remote[b] # None => remote[b] \in evidence

\* A task recovered in its first attempt was rebuilt on the base it records, and
\* its pull request says so.  (A second attempt takes the branch, the worktree
\* and the commit of the first over, whatever base they were built on.)
RecoveryIsOnBase ==
    /\ task.state = "PR_READY"
    /\ task.work.branch # 0
    /\ task.attempts = 1
    => /\ trees[task.work.commit[1]].base = task.work.base
       /\ pulls[task.work.branch].base = task.work.base
=============================================================================
