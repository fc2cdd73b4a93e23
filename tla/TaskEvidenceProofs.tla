------------------------- MODULE TaskEvidenceProofs -------------------------
(***************************************************************************)
(* Two promises about what is on origin, for every set of workers and      *)
(* operators.  No commit reaches it without a verification on record:      *)
(* Spec => []PushedHasEvidence.  What is offered for review is there:      *)
(* Spec => []ReviewableIsOnRemote.                                         *)
(*                                                                         *)
(* A push sends the head of a worktree, the verification was of the commit *)
(* a process remembers.  Two arguments say that they are the same.  The    *)
(* worktree of a recovery gets one commit: what `git apply` would leave is *)
(* refused once there is one.  The task's own worktree may get several, by *)
(* claims that died before they recorded theirs; but once a commit is on   *)
(* record a holder of the lease makes no other, and one who lost the lease *)
(* needs two commands, an execution that leaves changes and a commit.      *)
(*                                                                         *)
(* The second promise needs that recoveries of two attempts never meet     *)
(* (OneAttemptAtATime).  Then all that are under way are of one branch     *)
(* (OneBranch), and so is what the row and the sessions know (Concerns); a *)
(* branch other than the task's has the one commit of one worktree         *)
(* (Branches), and the task's own branch has the recorded commit or        *)
(* nothing (OwnRow).                                                       *)
(***************************************************************************)
EXTENDS TaskDeliveryProofs

\* A process that has its commit on record, and one that has its verification.
RecordedPhases == CommitPhases \ {"committed"}
VerifiedPhases == RecordedPhases \ {"verifying"}
\* A delivery that has not made its commit.
EarlyPhases == {"allocating", "assigning", "executing", "scoping", "committing"}

TreesVerified ==
    \A t \in Trees \ {0} : trees[t] # None =>
      trees[t].head <= 1 /\ (trees[t].dirty => trees[t].head = 0)

RowVerified ==
    /\ task.work.tree \in {None, 0} /\ task.rec.tree # 0
    /\ task.rec.commit # None => task.rec.commit \in evidence

SessionVerified(p) ==
    LET s == session[p]
        k == s.work
    IN
    /\ s.attempt = 0 => k.tree \in {None, 0}
    /\ s.attempt # 0 => k.tree # 0
    /\ s.attempt # 0 /\ s.phase \notin OuterPhases \cup {"verifying", "failing"} =>
         k.commit \in evidence \cup {None}
    /\ s.attempt = 0 /\ s.phase \in VerifiedPhases => k.commit \in evidence
    /\ s.attempt = 0 /\ s.phase \in RecordedPhases => task.work.commit # None
    /\ s.attempt = 0 /\ s.phase \in {"scoping", "committing"} => k.commit = None
    /\ s.attempt = 0 /\ s.phase \in EarlyPhases /\ task.owner = p =>
         k.commit = task.work.commit
    /\ s.attempt = 0 /\ s.phase = "pushing" =>
         /\ late = 0 \/ (late <= 1 /\ task.owner = p) => trees[0].head = k.commit[2]
         /\ late = 0 /\ task.owner = p => ~trees[0].dirty

EInv ==
    /\ TreesVerified
    /\ RowVerified
    /\ PushedHasEvidence
    /\ \A p \in Processes : SessionVerified(p)

-----------------------------------------------------------------------------
(* Steps of another process *)

\* The row keeps its commit, and a lease is not given to a process that works.
RowCalm(q) ==
    /\ task.work.commit # None => task'.work.commit # None
    /\ task'.owner = q => task.owner = q /\ task'.work.commit = task.work.commit

\* Nobody but the holder of the lease changes the task's worktree in time; it
\* commits only while no commit is on record.
TreeCalm(q) ==
    /\ late' >= late
    /\ trees[0] # None =>
         /\ trees'[0].head # trees[0].head =>
              trees[0].dirty /\ (task.work.commit # None \/ task.owner = q => late' > late)
         /\ trees'[0].dirty => trees[0].dirty \/ (task.owner = q => late' > late)

Sound(p) ==
    /\ evidence \subseteq evidence'
    /\ TreesVerified' /\ PushedHasEvidence'
    /\ \A q \in Processes \ {p} : TreeCalm(q)

Only(p) == \A q \in Processes \ {p} : session'[q] = session[q]

LEMMA CalmStill ==
    ASSUME IInv, IInv', EInv, NEW q \in Processes, session'[q] = session[q],
           evidence \subseteq evidence', RowCalm(q), TreeCalm(q)
    PROVE  SessionVerified(q)'
<1>. DEFINE s == session[q]
<1>1. SessionVerified(q) /\ late \in Nat /\ late' \in Nat
  BY DEF EInv, IInv, WorldOK
<1>2. s.attempt = 0 /\ s.phase = "pushing" => trees[0] # None /\ task.work.commit # None
  <2>1. SessionOK(s, trees, pulls)
    BY Session
  <2>2. s.phase = "pushing" => s.phase \in TreePhases /\ s.phase \in RecordedPhases
    BY DEF TreePhases, RecordedPhases, CommitPhases
  <2>. QED BY <1>1, <2>1, <2>2 DEF SessionOK, SessionVerified, Exists
<1>3. /\ (s.attempt = 0 => s.work.tree \in {None, 0})
      /\ (s.attempt # 0 => s.work.tree # 0)
      /\ (s.attempt # 0 /\ s.phase \notin OuterPhases \cup {"verifying", "failing"} =>
           s.work.commit \in evidence' \cup {None})
      /\ (s.attempt = 0 /\ s.phase \in VerifiedPhases => s.work.commit \in evidence')
      /\ (s.attempt = 0 /\ s.phase \in RecordedPhases => task'.work.commit # None)
      /\ (s.attempt = 0 /\ s.phase \in {"scoping", "committing"} => s.work.commit = None)
      /\ (s.attempt = 0 /\ s.phase \in EarlyPhases /\ task'.owner = q =>
           s.work.commit = task'.work.commit)
  BY <1>1 DEF SessionVerified, RowCalm
<1>4. ASSUME s.attempt = 0, s.phase = "pushing"
      PROVE  /\ (late' = 0 \/ (late' <= 1 /\ task'.owner = q) =>
                   trees'[0].head = s.work.commit[2])
             /\ (late' = 0 /\ task'.owner = q => ~trees'[0].dirty)
  <2>1. /\ late = 0 \/ (late <= 1 /\ task.owner = q) => trees[0].head = s.work.commit[2]
        /\ late = 0 /\ task.owner = q => ~trees[0].dirty
    BY <1>1, <1>4 DEF SessionVerified
  <2>2. CASE late' = 0
    BY <1>1, <1>2, <1>4, <2>1, <2>2 DEF RowCalm, TreeCalm
  <2>3. CASE late' = 1
    BY <1>1, <1>2, <1>4, <2>1, <2>3 DEF RowCalm, TreeCalm
  <2>. QED BY <1>1, <2>2, <2>3
<1>. QED BY <1>3, <1>4 DEF SessionVerified

LEMMA VerifiedStep ==
    ASSUME IInv, IInv', EInv, NEW p \in Processes, Only(p), Sound(p),
           \A q \in Processes \ {p} : RowCalm(q),
           RowVerified', SessionVerified(p)'
    PROVE  EInv'
<1>1. ASSUME NEW q \in Processes PROVE SessionVerified(q)'
  <2>1. CASE q = p
    BY <2>1
  <2>2. CASE q # p
    BY <2>2, CalmStill DEF Only, Sound
  <2>. QED BY <2>1, <2>2
<1>. QED BY <1>1 DEF EInv, Sound

\* A row that keeps what it says of worktree and commit.
Keeps ==
    /\ task'.work = task.work
    /\ task'.rec.tree = task.rec.tree /\ task'.rec.commit = task.rec.commit
    /\ task'.owner \in {task.owner, None}

LEMMA KeptRow ==
    ASSUME EInv, Keeps, evidence \subseteq evidence'
    PROVE  RowVerified' /\ \A q \in Processes : RowCalm(q)
<1>1. None \notin Processes
  BY TaskDeliveryAssumptions
<1>. QED BY <1>1 DEF EInv, RowVerified, RowCalm, Keeps

LEMMA QuietWorld ==
    ASSUME IInv, IInv', EInv, NEW p, UNCHANGED <<trees, remote>>,
           evidence \subseteq evidence', late' >= late
    PROVE  Sound(p)
<1>1. PushedHasEvidence'
  BY DEF EInv, PushedHasEvidence, AtMostOneLate, IInv, WorldOK
<1>2. TreesVerified'
  BY DEF EInv, TreesVerified
<1>3. ASSUME NEW q \in Processes PROVE TreeCalm(q)
  BY DEF TreeCalm
<1>. QED BY <1>1, <1>2, <1>3 DEF Sound

LEMMA Lateness ==
    ASSUME IInv, NEW p \in Processes, Unfenced(p) \/ UNCHANGED late
    PROVE  late' >= late /\ (Unfenced(p) /\ ~MayWrite(p) => late' > late)
BY DEF IInv, WorldOK, Unfenced

-----------------------------------------------------------------------------
(* The session of the process *)

LEMMA Moved ==
    ASSUME IInv, NEW p \in Processes, NEW s, Becomes(p, s)
    PROVE  session'[p] = s /\ Only(p)
BY DEF IInv, Becomes, Only

LEMMA Went ==
    ASSUME IInv, NEW p \in Processes, NEW ph, Goes(p, ph)
    PROVE  /\ Only(p)
           /\ session'[p].phase = ph
           /\ session'[p].attempt = session[p].attempt
           /\ session'[p].work = session[p].work
<1>1. session[p] \in Sessions
  BY Session
<1>2. Becomes(p, [session[p] EXCEPT !.phase = ph])
  BY DEF Goes, Becomes
<1>3. session'[p] = [session[p] EXCEPT !.phase = ph] /\ Only(p)
  BY <1>2, Moved
<1>. QED BY <1>1, <1>3 DEF Sessions

LEMMA WentLearning ==
    ASSUME IInv, NEW p \in Processes, NEW f \in DOMAIN Nothing, NEW v, NEW ph \in Phases,
           Learns(p, f, v, ph), [Mine(p) EXCEPT ![f] = v] \in Work
    PROVE  /\ Only(p)
           /\ session'[p].phase = ph
           /\ session'[p].attempt = session[p].attempt
           /\ session'[p].work = [Mine(p) EXCEPT ![f] = v]
BY Learned, Moved

LEMMA WentDrifting ==
    ASSUME IInv, NEW p \in Processes, NEW to \in Nat, Drifts(p, to)
    PROVE  /\ Only(p)
           /\ session'[p].phase = "drifting"
           /\ session'[p].attempt = session[p].attempt
           /\ session'[p].work = [Mine(p) EXCEPT !.base = to]
           /\ session'[p].work.tree = session[p].work.tree
<1>. DEFINE s == [session[p] EXCEPT !.phase = "drifting", !.work.base = to]
<1>1. session[p] \in Sessions /\ Mine(p) \in Work /\ Mine(p) = session[p].work
  BY Session DEF Mine
<1>2. Becomes(p, s)
  BY DEF Drifts, Becomes
<1>3. session'[p] = s /\ Only(p)
  BY <1>2, Moved
<1>4. s.phase = "drifting" /\ s.attempt = session[p].attempt
      /\ s.work = [Mine(p) EXCEPT !.base = to]
  BY <1>1 DEF Sessions
<1>5. [Mine(p) EXCEPT !.base = to].tree = Mine(p).tree
  BY <1>1 DEF Work
<1>. QED BY <1>1, <1>3, <1>4, <1>5

LEMMA OuterVerified ==
    ASSUME EInv, NEW p \in Processes, session'[p].phase \in OuterPhases,
           session'[p].attempt = session[p].attempt,
           session'[p].work.tree = session[p].work.tree
    PROVE  SessionVerified(p)'
BY DEF EInv, SessionVerified, OuterPhases, VerifiedPhases, RecordedPhases, CommitPhases,
       EarlyPhases

LEMMA EndsVerified ==
    ASSUME IInv, IInv', EInv, NEW p \in Processes, Ends(p), Sound(p), Keeps
    PROVE  EInv'
<1>1. Becomes(p, Idle)
  BY DEF Ends, Becomes
<1>2. session'[p] = Idle /\ Only(p)
  BY <1>1, Moved
<1>3. SessionVerified(p)'
  BY <1>2, IdleTyped
  DEF SessionVerified, VerifiedPhases, RecordedPhases, CommitPhases, EarlyPhases
<1>. QED BY <1>2, <1>3, KeptRow, VerifiedStep DEF Sound

LEMMA UnleasedKeeps ==
    ASSUME IInv, NEW st, NEW f, task' = Unleased(st, f)
    PROVE  Keeps
BY RowTyped DEF Unleased, Rows, Keeps

LEMMA SameKeeps ==
    ASSUME UNCHANGED task
    PROVE  Keeps
BY DEF Keeps

LEMMA SettlesVerified ==
    ASSUME IInv, IInv', EInv, NEW p \in Processes, Sound(p),
           \/ \E st, f : Settles(p, st, f)
           \/ \E f : Blocks(p, f)
           \/ Errs(p)
           \/ Ends(p) /\ UNCHANGED task
    PROVE  EInv'
<1>1. ASSUME NEW st, NEW f, Settles(p, st, f) PROVE EInv'
  <2>1. Ends(p) /\ Keeps
    BY <1>1, UnleasedKeeps, SameKeeps DEF Settles, Stores
  <2>. QED BY <2>1, EndsVerified
<1>2. Ends(p) /\ UNCHANGED task => EInv'
  BY SameKeeps, EndsVerified
<1>. QED BY <1>1, <1>2 DEF Blocks, Errs

-----------------------------------------------------------------------------
(* Transactions of the store *)

LEMMA Fenced ==
    ASSUME NEW p \in Processes, MayWrite(p), Delivering(p), NEW q \in Processes \ {p}
    PROVE  task.owner = p /\ task.owner # q
BY DEF MayWrite

\* What a process saves is verified, or is no commit of a recovery.
LEMMA SavedVerified ==
    ASSUME IInv, EInv, NEW p \in Processes, MayWrite(p), task' = Saved(p),
           UNCHANGED evidence,
           session[p].phase \in {"assigning", "committed", "verified", "pushed", "bound",
                                 "noting", "rereading"}
    PROVE  /\ RowVerified'
           /\ \A q \in Processes \ {p} : RowCalm(q)
           /\ task'.owner = task.owner
           /\ Delivering(p) => task'.work = Mine(p)
           /\ ~Delivering(p) => task'.work = task.work
<1>. DEFINE r == task
            s == session[p]
            m == Mine(p)
<1>1. r \in Rows /\ r.work \in Work /\ r.rec \in Work
  BY RowTyped
<1>2. /\ SessionOK(s, trees, pulls) /\ SessionVerified(p) /\ RowVerified
      /\ s.work = m /\ m \in Work
      /\ (Delivering(p) <=> s.attempt = 0)
  BY Session DEF Mine, Delivering, EInv
<1>3. CASE Delivering(p)
  <2>. DEFINE row == [r EXCEPT !.work = m]
  <2>1. task' = row
    BY <1>3 DEF Saved
  <2>2. r.work.commit # None => m.commit # None
    <3>1. s.phase = "assigning" => m.commit = r.work.commit
      BY <1>2, <1>3 DEF SessionVerified, EarlyPhases, MayWrite
    <3>2. s.phase \in {"committed", "verified", "pushed", "bound"} => m.commit # None
      BY <1>2 DEF SessionOK, CommitPhases
    <3>3. s.phase \notin {"noting", "rereading"}
      BY <1>2, <1>3 DEF SessionOK, RecoveryPhases
    <3>. QED BY <3>1, <3>2, <3>3
  <2>3. m.tree \in {None, 0}
    BY <1>2, <1>3 DEF SessionVerified
  <2>. HIDE DEF r, m
  <2>4. row.work = m /\ row.rec = r.rec /\ row.owner = r.owner
    BY <1>1 DEF Rows
  <2>. HIDE DEF row
  <2>5. RowVerified'
    BY <1>2, <2>1, <2>3, <2>4 DEF RowVerified, r
  <2>6. \A q \in Processes \ {p} : RowCalm(q)
    BY <1>3, <2>1, <2>2, <2>4, Fenced DEF RowCalm, r
  <2>. QED BY <1>3, <2>1, <2>4, <2>5, <2>6 DEF r, m
<1>4. CASE ~Delivering(p)
  <2>. DEFINE k   == r.rec
              n   == [f \in DOMAIN k |-> IF f \in s.own THEN m[f] ELSE k[f]]
              row == [r EXCEPT !.rec = n]
  <2>1. task' = row
    BY <1>4 DEF Saved
  <2>2. /\ n.tree \in {m.tree, k.tree}
        /\ n.commit \in {m.commit, k.commit}
    <3>1. k \in Work /\ m \in Work
      BY <1>1, <1>2
    <3>. HIDE DEF r, s, m, k
    <3>. QED BY <3>1, Merge
  <2>3. m.tree # 0 /\ m.commit \in evidence \cup {None}
    BY <1>2, <1>4 DEF SessionVerified, OuterPhases
  <2>. HIDE DEF r, m, n, k
  <2>4. row.work = r.work /\ row.rec = n /\ row.owner = r.owner
    BY <1>1 DEF Rows
  <2>. HIDE DEF row
  <2>5. RowVerified'
    BY <1>2, <2>1, <2>2, <2>3, <2>4 DEF RowVerified, r, k
  <2>6. \A q \in Processes \ {p} : RowCalm(q)
    BY <2>1, <2>4 DEF RowCalm, r
  <2>. QED BY <1>4, <2>1, <2>4, <2>5, <2>6 DEF r
<1>. QED BY <1>3, <1>4

\* A transaction touches neither Git nor evidence.
LEMMA RestSound ==
    ASSUME IInv, IInv', EInv, NEW p, UNCHANGED <<git, base, evidence>>, UNCHANGED late
    PROVE  Sound(p)
<1>1. late \in Nat
  BY DEF IInv, WorldOK
<1>. QED BY <1>1, QuietWorld DEF git

LEMMA SaveVerified ==
    ASSUME IInv, IInv', EInv, NEW p \in Processes, Save(p)
    PROVE  EInv'
<1>. DEFINE s == session[p]
            m == Mine(p)
            k == [m EXCEPT !.pr = Known(p)]
<1>1. Sound(p) /\ UNCHANGED evidence
  BY RestSound DEF Save, faults
<1>2. s.phase \in {"assigning", "committed", "verified", "pushed", "bound"}
  BY DEF Save
<1>3. CASE ~MayWrite(p)
  <2>1. Ends(p) /\ UNCHANGED task
    BY <1>3 DEF Save, Stores
  <2>. QED BY <1>1, <2>1, SettlesVerified
<1>4. CASE MayWrite(p)
  <2>1. task' = Saved(p)
        /\ Becomes(p, [s EXCEPT !.phase = After(p), !.work.pr = Known(p)])
    BY <1>4 DEF Save, Stores, Becomes
  <2>2. /\ RowVerified' /\ \A q \in Processes \ {p} : RowCalm(q)
        /\ Delivering(p) => task'.work = m
    BY <1>1, <1>2, <1>4, <2>1, SavedVerified
  <2>3. /\ SessionOK(s, trees, pulls) /\ SessionVerified(p) /\ s \in Sessions
        /\ s.work = m /\ m \in Work
        /\ (Delivering(p) <=> s.attempt = 0)
    BY Session DEF Mine, Delivering, EInv
  <2>4. k.tree = m.tree /\ k.commit = m.commit /\ k.remote = m.remote
    BY <2>3 DEF Work
  <2>5. session'[p] = [s EXCEPT !.phase = After(p), !.work.pr = Known(p)] /\ Only(p)
    BY <2>1, Moved
  <2>6. session'[p].phase = After(p) /\ session'[p].attempt = s.attempt /\ session'[p].work = k
    BY <2>3, <2>5 DEF Sessions
  <2>7. /\ s.phase = "assigning" => After(p) = IF s.attempt = 0 THEN "executing" ELSE "applying"
        /\ s.phase = "committed" => After(p) = "verifying"
        /\ s.phase = "verified" => After(p) = IF s.attempt = 0 THEN "heading" ELSE "pushing"
        /\ s.phase = "pushed" => After(p) = IF s.attempt = 0 THEN "checking" ELSE Onward(k)
        /\ s.phase = "bound" => After(p) = "finishing"
    BY <2>3 DEF After, In
  <2>8. s.phase # "assigning" => m.commit # None
    BY <1>2, <2>3 DEF SessionOK, CommitPhases
  <2>. HIDE DEF k, m, s
  <2>9. CASE s.attempt = 0
    <3>1. After(p) \in {"executing", "verifying", "heading", "checking", "finishing"}
      BY <1>2, <2>7, <2>9
    <3>2. After(p) = "executing" <=> s.phase = "assigning"
      BY <1>2, <2>7, <2>9
    <3>3. After(p) \in VerifiedPhases => m.commit \in evidence
      BY <1>2, <2>3, <2>7, <2>9
      DEF SessionVerified, VerifiedPhases, RecordedPhases, CommitPhases, s
    <3>4. After(p) \in RecordedPhases => task'.work.commit # None
      BY <2>2, <2>3, <2>8, <2>9, <3>2 DEF RecordedPhases, CommitPhases
    <3>. QED BY <1>1, <2>2, <2>3, <2>4, <2>5, <2>6, <2>9, <3>1, <3>3, <3>4, VerifiedStep
         DEF SessionVerified, s
  <2>10. CASE s.attempt # 0
    <3>1. m.tree # 0 /\ m.commit \in evidence \cup {None}
      <4>1. s.phase \notin OuterPhases \cup {"verifying", "failing"}
        BY <1>2 DEF OuterPhases
      <4>. QED BY <2>3, <2>10, <4>1 DEF SessionVerified, s
    <3>. QED BY <1>1, <2>2, <2>4, <2>5, <2>6, <2>10, <3>1, VerifiedStep DEF SessionVerified
  <2>. QED BY <2>9, <2>10
<1>. QED BY <1>3, <1>4

LEMMA NoteVerified ==
    ASSUME IInv, IInv', EInv, NEW p \in Processes, Note(p)
    PROVE  EInv'
<1>1. Sound(p) /\ UNCHANGED evidence
  BY RestSound DEF Note, faults
<1>2. session[p].phase = "noting"
  BY DEF Note, In
<1>3. CASE ~MayWrite(p)
  <2>1. Ends(p) /\ UNCHANGED task
    BY <1>3 DEF Note, Stores
  <2>. QED BY <1>1, <2>1, SettlesVerified
<1>4. CASE MayWrite(p)
  <2>1. task' = Saved(p) /\ Goes(p, "refreshing")
    BY <1>4 DEF Note, Stores
  <2>2. RowVerified' /\ \A q \in Processes \ {p} : RowCalm(q)
    BY <1>1, <1>2, <1>4, <2>1, SavedVerified
  <2>3. session[p].attempt # 0
    BY <1>2, Session DEF SessionOK, RecoveryPhases
  <2>4. SessionVerified(p)
    BY DEF EInv
  <2>5. SessionVerified(p)'
    BY <1>1, <1>2, <2>1, <2>3, <2>4, Went DEF SessionVerified, OuterPhases
  <2>. QED BY <1>1, <2>1, <2>2, <2>5, Went, VerifiedStep
<1>. QED BY <1>3, <1>4

LEMMA RereadVerified ==
    ASSUME IInv, IInv', EInv, NEW p \in Processes, Reread(p)
    PROVE  EInv'
<1>1. Sound(p) /\ UNCHANGED evidence
  BY RestSound DEF Reread, faults
<1>2. session[p].phase = "rereading"
  BY DEF Reread, In
<1>3. CASE ~MayWrite(p)
  <2>1. Ends(p) /\ UNCHANGED task
    BY <1>3 DEF Reread, Stores
  <2>. QED BY <1>1, <2>1, SettlesVerified
<1>4. CASE MayWrite(p)
  <2>. DEFINE s == session[p]
              m == Mine(p)
              c == Saved(p).rec
              ph == IF c.tree = None THEN "allocating"
                    ELSE IF c.commit # None THEN "heading" ELSE "applying"
              k == [c EXCEPT !.base = m.base, !.branch = m.branch]
  <2>1. task' = Saved(p) /\ Becomes(p, [s EXCEPT !.phase = ph, !.work = k])
    BY <1>4 DEF Reread, Stores, Becomes
  <2>2. RowVerified' /\ \A q \in Processes \ {p} : RowCalm(q)
    BY <1>1, <1>2, <1>4, <2>1, SavedVerified
  <2>3. s.attempt # 0 /\ s \in Sessions
    BY <1>2, Session DEF SessionOK, RecoveryPhases
  <2>4. session'[p] = [s EXCEPT !.phase = ph, !.work = k] /\ Only(p)
    BY <2>1, Moved
  <2>5. session'[p].attempt = s.attempt /\ session'[p].work = k
    BY <2>3, <2>4 DEF Sessions
  <2>6. c \in Work
    BY <1>2, <1>4, SavedMoves DEF RowMoves, RowOK, Rows, OuterPhases
  <2>. HIDE DEF m, c, ph
  <2>7. k.tree = c.tree /\ k.commit = c.commit
    BY <2>6 DEF Work
  <2>. HIDE DEF k, s
  <2>8. c.tree # 0 /\ (c.commit # None => c.commit \in evidence')
    BY <2>1, <2>2 DEF RowVerified, c
  <2>9. SessionVerified(p)'
    BY <2>3, <2>5, <2>7, <2>8 DEF SessionVerified
  <2>. QED BY <1>1, <2>2, <2>4, <2>9, VerifiedStep
<1>. QED BY <1>3, <1>4

-----------------------------------------------------------------------------
(* The rest of what happens to the row *)

LEMMA RestVerified ==
    ASSUME IInv, IInv', EInv, UNCHANGED <<session, git, evidence, late>>, Keeps
    PROVE  EInv'
<1>1. late' >= late /\ UNCHANGED <<trees, remote>>
  BY DEF IInv, WorldOK, git
<1>2. TreesVerified' /\ PushedHasEvidence'
      /\ \A q \in Processes : Sound(q)
  BY <1>1, QuietWorld DEF EInv, TreesVerified, PushedHasEvidence, AtMostOneLate
<1>3. RowVerified' /\ \A q \in Processes : RowCalm(q)
  BY KeptRow
<1>4. ASSUME NEW q \in Processes PROVE SessionVerified(q)'
  <2>1. TreeCalm(q)
    BY <1>1 DEF TreeCalm
  <2>. QED BY <1>3, <2>1, CalmStill
<1>. QED BY <1>2, <1>3, <1>4 DEF EInv

LEMMA ReapVerified ==
    ASSUME IInv, IInv', EInv, Reap \/ ReapAlive \/ MoveBase
    PROVE  EInv'
<1>1. UNCHANGED <<session, git, evidence, late>>
  BY DEF Reap, ReapAlive, MoveBase, faults
<1>2. Keeps
  BY UnleasedKeeps, SameKeeps DEF Reap, ReapAlive, MoveBase
<1>. QED BY <1>1, <1>2, RestVerified

LEMMA CrashVerified ==
    ASSUME IInv, IInv', EInv, NEW p \in Processes, Crash(p)
    PROVE  EInv'
<1>1. Sound(p)
  BY RestSound DEF Crash, faults
<1>. QED BY <1>1, SettlesVerified DEF Crash

LEMMA ClaimVerified ==
    ASSUME IInv, IInv', EInv, NEW p \in Workers, Claim(p)
    PROVE  EInv'
<1>. DEFINE w == task.work
            ph == IF w.tree = None THEN "allocating" ELSE "executing"
            s == [Idle EXCEPT !.phase = ph, !.work = w]
<1>1. p \in Processes /\ Sound(p) /\ UNCHANGED evidence
  BY RestSound DEF Claim, faults, Processes
<1>2. Becomes(p, s)
  BY DEF Claim, Becomes
<1>3. session'[p] = s /\ Only(p)
  BY <1>1, <1>2, Moved
<1>4. ph \in {"allocating", "executing"}
  OBVIOUS
<1>5. task'.work = w /\ task'.rec = task.rec /\ task'.owner = p
  BY RowTyped DEF Claim, Rows
<1>6. RowVerified' /\ \A q \in Processes \ {p} : RowCalm(q)
  BY <1>1, <1>5 DEF EInv, RowVerified, RowCalm
<1>7. w.tree \in {None, 0}
  BY DEF EInv, RowVerified
<1>. HIDE DEF w, ph
<1>8. session'[p].phase = ph /\ session'[p].attempt = 0 /\ session'[p].work = w
  BY <1>3, IdleTyped DEF Sessions
<1>. HIDE DEF s
<1>9. SessionVerified(p)'
  BY <1>4, <1>5, <1>7, <1>8
  DEF SessionVerified, VerifiedPhases, RecordedPhases, CommitPhases
<1>. QED BY <1>1, <1>3, <1>6, <1>9, VerifiedStep

LEMMA FinishVerified ==
    ASSUME IInv, IInv', EInv, NEW p \in Processes, Finish(p)
    PROVE  EInv'
<1>1. Sound(p) /\ UNCHANGED evidence
  BY RestSound DEF Finish, faults
<1>2. Ends(p)
  BY DEF Finish, Stores
<1>3. CASE ~MayWrite(p) \/ Delivering(p)
  <2>1. Keeps
    BY <1>3, UnleasedKeeps, SameKeeps DEF Finish, Stores
  <2>. QED BY <1>1, <1>2, <2>1, EndsVerified
<1>4. CASE MayWrite(p) /\ ~Delivering(p)
  <2>. DEFINE r == task
              m == Mine(p)
              tr == r.work.tree
              k == [m EXCEPT !.tree = tr]
              row == [Unleased("PR_READY", "none") EXCEPT !.work = k, !.rec = m]
  <2>1. task' = row
    BY <1>4 DEF Finish, Stores
  <2>2. /\ SessionOK(session[p], trees, pulls) /\ session[p].work = m /\ m \in Work
        /\ session[p].attempt # 0 /\ session[p].phase = "finishing"
        /\ SessionVerified(p) /\ RowVerified
    BY <1>4, Session DEF Mine, EInv, Finish, In, Delivering
  <2>3. m.commit # None /\ m.tree # 0 /\ m.commit \in evidence
    BY <2>2 DEF SessionOK, SessionVerified, CommitPhases, OuterPhases
  <2>. HIDE DEF m, tr
  <2>4. k.tree = tr /\ k.commit = m.commit
    BY <2>2 DEF Work
  <2>. HIDE DEF k
  <2>5. row.work = k /\ row.rec = m /\ row.owner = None
    BY RowTyped DEF Unleased, Rows
  <2>. HIDE DEF row
  <2>6. RowVerified'
    BY <1>1, <2>1, <2>2, <2>3, <2>4, <2>5 DEF RowVerified, tr
  <2>7. \A q \in Processes \ {p} : RowCalm(q)
    BY <2>1, <2>3, <2>4, <2>5, TaskDeliveryAssumptions DEF RowCalm
  <2>8. Becomes(p, Idle)
    BY <1>2 DEF Ends, Becomes
  <2>9. session'[p] = Idle /\ Only(p)
    BY <2>8, Moved
  <2>10. SessionVerified(p)'
    BY <2>9, IdleTyped
    DEF SessionVerified, VerifiedPhases, RecordedPhases, CommitPhases, EarlyPhases
  <2>. QED BY <1>1, <2>6, <2>7, <2>9, <2>10, VerifiedStep
<1>. QED BY <1>3, <1>4

LEMMA FailVerified ==
    ASSUME IInv, IInv', EInv, NEW p \in Processes, Fail(p)
    PROVE  EInv'
<1>1. Sound(p) /\ Ends(p)
  BY RestSound DEF Fail, faults, Stores
<1>2. Keeps
  BY UnleasedKeeps, SameKeeps DEF Fail, Stores, Unrecovered
<1>. QED BY <1>1, <1>2, EndsVerified

LEMMA CommandVerified ==
    ASSUME IInv, IInv', EInv, NEW o \in Operators, Command(o)
    PROVE  EInv'
<1>. DEFINE b == base
            s == [Idle EXCEPT !.phase = "drifting", !.work.base = b]
<1>1. o \in Processes /\ Sound(o)
  BY RestSound DEF Command, faults, Processes
<1>2. Becomes(o, s)
  BY DEF Command, Becomes
<1>3. session'[o] = s /\ Only(o)
  BY <1>1, <1>2, Moved
<1>4. RowVerified' /\ \A q \in Processes : RowCalm(q)
  BY <1>1, SameKeeps, KeptRow DEF Command, Sound
<1>. HIDE DEF b
<1>5. s.phase = "drifting" /\ s.attempt = 0 /\ s.work = [Nothing EXCEPT !.base = b]
  BY IdleTyped DEF Sessions
<1>6. [Nothing EXCEPT !.base = b].tree = None
  BY DEF Nothing
<1>. HIDE DEF s
<1>7. SessionVerified(o)'
  BY <1>3, <1>5, <1>6
  DEF SessionVerified, VerifiedPhases, RecordedPhases, CommitPhases, EarlyPhases
<1>. QED BY <1>1, <1>3, <1>4, <1>7, VerifiedStep

\* A process that turns to another recovery, or to the row.
LEMMA OuterStep ==
    ASSUME IInv, IInv', EInv, NEW p \in Processes, Sound(p), Keeps,
           \/ Goes(p, "entering")
           \/ \E to \in Nat : Drifts(p, to)
    PROVE  EInv'
<1>1. Only(p) /\ SessionVerified(p)'
  BY Went, WentDrifting, OuterVerified DEF OuterPhases
<1>. QED BY <1>1, KeptRow, VerifiedStep DEF Sound

LEMMA StartVerified ==
    ASSUME IInv, IInv', EInv, NEW p \in Processes, Start(p)
    PROVE  EInv'
<1>1. Sound(p)
  BY RestSound DEF Start, faults
<1>2. Keeps
  <2>1. ASSUME task' = Started(p) PROVE Keeps
    <3>. DEFINE b == Mine(p).base
                k == [task.rec EXCEPT !.base = b]
    <3>1. task' = [task EXCEPT !.state = "DELIVERY_RECONCILING", !.attempts = @ + 1,
                               !.source = task.state, !.rec = k]
      BY <2>1, RowTyped DEF Started, Rows
    <3>2. k.tree = task.rec.tree /\ k.commit = task.rec.commit
      BY RowTyped DEF Work
    <3>. HIDE DEF k
    <3>. QED BY <3>1, <3>2, RowTyped DEF Rows, Keeps
  <2>. QED BY <2>1, SameKeeps DEF Start
<1>3. Goes(p, "entering") \/ Ends(p)
  BY DEF Start
<1>. QED BY <1>1, <1>2, <1>3, OuterStep, EndsVerified

LEMMA RetryVerified ==
    ASSUME IInv, IInv', EInv, NEW p \in Processes, Retry(p)
    PROVE  EInv'
<1>1. Sound(p)
  BY RestSound DEF Retry, faults
<1>2. Keeps
  <2>1. ASSUME task' = [task EXCEPT !.attempts = @ + 1, !.rec.base = Mine(p).base]
        PROVE  Keeps
    <3>. DEFINE b == Mine(p).base
                k == [task.rec EXCEPT !.base = b]
    <3>1. task' = [task EXCEPT !.attempts = @ + 1, !.rec = k]
      BY <2>1, RowTyped DEF Rows
    <3>2. k.tree = task.rec.tree /\ k.commit = task.rec.commit
      BY RowTyped DEF Work
    <3>. HIDE DEF k
    <3>. QED BY <3>1, <3>2, RowTyped DEF Rows, Keeps
  <2>2. task' = Unrecovered => Keeps
    BY UnleasedKeeps DEF Unrecovered
  <2>. QED BY <2>1, <2>2, SameKeeps DEF Retry, Stores
<1>3. Goes(p, "entering") \/ Ends(p)
  BY DEF Retry, Stores
<1>. QED BY <1>1, <1>2, <1>3, OuterStep, EndsVerified

LEMMA EnterVerified ==
    ASSUME IInv, IInv', EInv, NEW p \in Processes, Enter(p)
    PROVE  EInv'
<1>1. Sound(p) /\ UNCHANGED task
  BY RestSound DEF Enter
<1>2. CASE task.state # "DELIVERY_RECONCILING"
  BY <1>1, <1>2, SettlesVerified DEF Enter
<1>3. CASE task.state = "DELIVERY_RECONCILING"
  <2>. DEFINE ph == IF task.work.commit = None THEN "failing" ELSE "noting"
              n  == task.attempts
              b  == task.rec.base
              br == IF task.rec.branch = None THEN task.attempts ELSE task.rec.branch
              k  == [Nothing EXCEPT !.base = b, !.branch = br]
              s  == [phase |-> ph, attempt |-> n, work |-> k, own |-> {"base", "branch"}]
  <2>1. Becomes(p, s)
    BY <1>3 DEF Enter, Becomes
  <2>2. session'[p] = s /\ Only(p)
    BY <2>1, Moved
  <2>3. n # 0
    BY <1>3, RowTyped DEF IInv, RowOK
  <2>. HIDE DEF b, br, ph, n
  <2>4. k.tree = None /\ k.commit = None
    BY DEF Nothing
  <2>5. 0 # None
    BY TaskDeliveryAssumptions
  <2>. HIDE DEF k
  <2>6. session'[p].attempt = n /\ session'[p].work = k
    BY <2>2
  <2>7. SessionVerified(p)'
    BY <2>3, <2>4, <2>5, <2>6 DEF SessionVerified
  <2>. QED BY <1>1, <2>2, <2>7, SameKeeps, KeptRow, VerifiedStep DEF Sound
<1>. QED BY <1>2, <1>3

LEMMA RefreshVerified ==
    ASSUME IInv, IInv', EInv, NEW p \in Processes, Refresh(p)
    PROVE  EInv'
<1>1. Sound(p) /\ UNCHANGED <<task, evidence>> /\ Keeps /\ base \in Nat
  BY RestSound, SameKeeps DEF Refresh, faults, IInv, WorldOK
<1>2. session[p].phase = "refreshing" /\ session[p].attempt # 0 /\ SessionVerified(p)
  BY Session DEF Refresh, In, SessionOK, RecoveryPhases, EInv
<1>3. CASE Goes(p, "rereading")
  <2>1. SessionVerified(p)'
    BY <1>1, <1>2, <1>3, Went DEF SessionVerified, OuterPhases
  <2>. QED BY <1>1, <1>3, <2>1, Went, KeptRow, VerifiedStep
<1>4. CASE Drifts(p, base) \/ Ends(p)
  BY <1>1, <1>4, OuterStep, EndsVerified
<1>. QED BY <1>3, <1>4 DEF Refresh

LEMMA CheckBaseVerified ==
    ASSUME IInv, IInv', EInv, NEW p \in Processes, CheckBase(p)
    PROVE  EInv'
<1>1. Sound(p) /\ UNCHANGED <<task, evidence>> /\ Keeps /\ base \in Nat
  BY RestSound, SameKeeps DEF CheckBase, faults, IInv, WorldOK
<1>2. session[p].phase = "checking" /\ SessionVerified(p)
  BY DEF CheckBase, In, EInv
<1>3. CASE Goes(p, "opening")
  <2>1. SessionVerified(p)'
    BY <1>1, <1>2, <1>3, Went
    DEF SessionVerified, OuterPhases, VerifiedPhases, RecordedPhases, CommitPhases, EarlyPhases
  <2>. QED BY <1>1, <1>3, <2>1, Went, KeptRow, VerifiedStep
<1>4. CASE Drifts(p, base)
  BY <1>1, <1>4, OuterStep
<1>. QED BY <1>3, <1>4 DEF CheckBase

-----------------------------------------------------------------------------
(* Commands in a worktree *)

\* What is known of a process in its own terms.
LEMMA Working ==
    ASSUME IInv, EInv, NEW p \in Processes
    PROVE  /\ SessionOK(session[p], trees, pulls) /\ SessionVerified(p)
           /\ session[p] \in Sessions /\ session[p].work = Mine(p) /\ Mine(p) \in Work
           /\ (Delivering(p) <=> session[p].attempt = 0)
           /\ (Delivering(p) => Mine(p).tree \in {None, 0})
           /\ (~Delivering(p) => Mine(p).tree # 0)
BY Session DEF Mine, Delivering, EInv, SessionVerified

\* Worktree t changes to x, and nothing is pushed.
LEMMA TreeSound ==
    ASSUME IInv, EInv, NEW p \in Processes, NEW t \in Trees, NEW x \in Worktrees,
           trees' = [trees EXCEPT ![t] = x], UNCHANGED <<remote, evidence>>,
           Unfenced(p) \/ UNCHANGED late, late' \in Nat,
           t # 0 => x.head <= 1 /\ (x.dirty => x.head = 0),
           t = 0 /\ trees[0] # None => \A q \in Processes \ {p} :
             /\ x.head # trees[0].head =>
                  trees[0].dirty /\ (task.work.commit # None \/ task.owner = q => late' > late)
             /\ x.dirty => trees[0].dirty \/ (task.owner = q => late' > late)
    PROVE  Sound(p)
<1>1. \A u \in Trees : trees'[u] = IF u = t THEN x ELSE trees[u]
  BY DEF IInv, WorldOK
<1>2. late' >= late /\ late \in Nat
  BY Lateness DEF IInv, WorldOK
<1>3. TreesVerified'
  BY <1>1 DEF EInv, TreesVerified
<1>4. PushedHasEvidence'
  BY <1>2 DEF EInv, PushedHasEvidence, AtMostOneLate
<1>5. 0 \in Trees
  BY DEF Trees, MaxReconciliations
<1>6. ASSUME NEW q \in Processes \ {p} PROVE TreeCalm(q)
  <2>1. CASE t = 0
    BY <1>1, <1>2, <1>5, <2>1 DEF TreeCalm
  <2>2. CASE t # 0
    BY <1>1, <1>2, <1>5, <2>2 DEF TreeCalm
  <2>. QED BY <2>1, <2>2
<1>. QED BY <1>3, <1>4, <1>6 DEF Sound

LEMMA AllocateVerified ==
    ASSUME IInv, IInv', EInv, NEW p \in Processes, Allocate(p)
    PROVE  EInv'
<1>. DEFINE s == session[p]
            t == s.attempt
            m == Mine(p)
            x == Built(p)
            b == base
<1>1. /\ s.phase = "allocating"
      /\ UNCHANGED <<remote, pulls, base, evidence, overlaps>>
  BY DEF Allocate, In
<1>2. /\ SessionVerified(p) /\ s \in Sessions /\ s.work = m /\ m \in Work /\ t \in Trees
      /\ m.branch # None
  BY <1>1, Working DEF Sessions, Trees, SessionOK, OuterPhases
<1>3. CASE /\ Free(t, m.branch) /\ UNCHANGED task /\ Unfenced(p)
           /\ trees' = [trees EXCEPT ![t] = x]
           /\ session' = [session EXCEPT ![p].phase = "assigning",
                ![p].work.tree = t, ![p].work.base = base, ![p].own = @ \cup {"tree"}]
  <2>. DEFINE k == [m EXCEPT !.tree = t, !.base = b]
              n == s.own \cup {"tree"}
              z == [s EXCEPT !.phase = "assigning", !.work = k, !.own = n]
  <2>1. trees[t] = None
    BY <1>3 DEF Free
  <2>2. x \in Worktrees /\ x.head = 0 /\ ~x.dirty
    <3>1. x = [branch |-> m.branch, base |-> b, head |-> 0, dirty |-> FALSE]
      BY DEF Built
    <3>2. m.branch \in Trees /\ b \in Nat
      BY <1>2 DEF Work, IInv, WorldOK
    <3>. HIDE DEF m, b, x
    <3>. QED BY <3>1, <3>2 DEF Worktrees
  <2>3. Sound(p)
    <3>1. late' \in Nat
      BY <1>3, LateTyped
    <3>. HIDE DEF x
    <3>2. t # 0 => x.head <= 1 /\ (x.dirty => x.head = 0)
      BY <2>2
    <3>3. ~(t = 0 /\ trees[0] # None)
      BY <2>1
    <3>. HIDE DEF t
    <3>. QED BY <1>1, <1>2, <1>3, <2>2, <3>1, <3>2, <3>3, TreeSound
  <2>4. Becomes(p, z)
    <3>1. [session EXCEPT ![p] = z]
          = [session EXCEPT ![p].phase = "assigning", ![p].work.tree = t,
                            ![p].work.base = base, ![p].own = @ \cup {"tree"}]
      BY <1>2 DEF IInv, Sessions
    <3>. QED BY <1>3, <3>1 DEF Becomes
  <2>5. session'[p] = z /\ Only(p)
    BY <2>4, Moved
  <2>. HIDE DEF k, n
  <2>6. /\ session'[p].phase = "assigning" /\ session'[p].attempt = s.attempt
        /\ session'[p].work = k
    BY <1>2, <2>5 DEF Sessions
  <2>7. k.tree = t /\ k.commit = m.commit
    BY <1>2 DEF Work, k
  <2>8. SessionVerified(p)'
    BY <1>1, <1>2, <1>3, <2>6, <2>7
    DEF SessionVerified, OuterPhases, VerifiedPhases, RecordedPhases, CommitPhases, EarlyPhases
  <2>. QED BY <1>3, <2>3, <2>5, <2>8, SameKeeps, KeptRow, VerifiedStep DEF Sound
<1>4. CASE /\ IF Delivering(p) THEN Settles(p, "FAILED_SAFE", "other")
              ELSE Ends(p) /\ UNCHANGED task
           /\ UNCHANGED <<trees, late>>
  <2>1. late \in Nat
    BY DEF IInv, WorldOK
  <2>2. Sound(p)
    BY <1>1, <1>4, <2>1, QuietWorld
  <2>. QED BY <1>4, <2>2, SettlesVerified
<1>. QED BY <1>3, <1>4 DEF Allocate

LEMMA ExecuteVerified ==
    ASSUME IInv, IInv', EInv, NEW p \in Processes, Execute(p)
    PROVE  EInv'
<1>. DEFINE t == Mine(p).tree
            w == trees[t]
            ph == IF Mine(p).commit = None THEN "scoping" ELSE "verifying"
<1>1. /\ session[p].phase = "executing" /\ Unfenced(p)
      /\ UNCHANGED <<remote, pulls, base, evidence, overlaps>>
  BY DEF Execute, In
<1>2. t \in Trees /\ w # None /\ w \in Worktrees
  BY <1>1, Named DEF Tree, Worktrees, TreePhases
<1>3. session[p].attempt = 0 /\ Delivering(p) /\ t = 0 /\ session[p].work = Mine(p)
      /\ SessionVerified(p)
  BY <1>1, <1>2, Working, TaskDeliveryAssumptions DEF SessionOK, Trees
<1>4. PICK d \in BOOLEAN : trees' = [trees EXCEPT ![t] = [w EXCEPT !.dirty = d]]
  BY <1>2 DEF Execute, IInv, WorldOK
<1>. DEFINE x == [w EXCEPT !.dirty = d]
<1>5. x \in Worktrees /\ x.head = w.head
  <2>. HIDE DEF w
  <2>. QED BY <1>2 DEF Worktrees
<1>6. Sound(p)
  <2>1. late' \in Nat
    BY <1>1, LateTyped
  <2>2. \A q \in Processes \ {p} : task.owner = q => late' > late
    BY <1>1, <1>3, Fenced, Lateness
  <2>. HIDE DEF x
  <2>. QED BY <1>1, <1>2, <1>3, <1>4, <1>5, <2>1, <2>2, TreeSound DEF x
<1>7. CASE Stores(p, [task EXCEPT !.state = "VERIFYING"], Goes(p, ph))
  <2>1. CASE ~MayWrite(p)
    BY <1>6, <1>7, <2>1, SettlesVerified DEF Stores
  <2>2. CASE MayWrite(p)
    <3>1. task' = [task EXCEPT !.state = "VERIFYING"] /\ Goes(p, ph) /\ task.owner = p
      BY <1>3, <1>7, <2>2 DEF Stores, MayWrite
    <3>2. Keeps
      BY <3>1, RowTyped DEF Rows, Keeps
    <3>3. Mine(p).commit = task.work.commit
      BY <1>1, <1>3, <3>1 DEF SessionVerified, EarlyPhases
    <3>4. ph \in {"scoping", "verifying"} /\ (ph = "scoping" <=> Mine(p).commit = None)
      OBVIOUS
    <3>. HIDE DEF ph
    <3>5. SessionVerified(p)'
      BY <1>3, <3>1, <3>2, <3>3, <3>4, Went
      DEF SessionVerified, VerifiedPhases, RecordedPhases, CommitPhases, Keeps
    <3>. QED BY <1>6, <3>1, <3>2, <3>5, Went, KeptRow, VerifiedStep DEF Sound
  <2>. QED BY <2>1, <2>2
<1>8. CASE Settles(p, IF task.claims < MaxAttempts THEN "READY" ELSE "FAILED_SAFE", "other")
  BY <1>6, <1>8, SettlesVerified
<1>. QED BY <1>7, <1>8 DEF Execute

LEMMA ScopeVerified ==
    ASSUME IInv, IInv', EInv, NEW p \in Processes, Scope(p)
    PROVE  EInv'
<1>1. Sound(p) /\ UNCHANGED evidence
  BY RestSound DEF Scope, faults
<1>2. session[p].phase = "scoping" /\ SessionVerified(p)
  BY DEF Scope, In, EInv
<1>3. CASE Goes(p, "committing") /\ UNCHANGED task
  <2>1. SessionVerified(p)'
    BY <1>1, <1>2, <1>3, Went
    DEF SessionVerified, OuterPhases, VerifiedPhases, RecordedPhases, CommitPhases, EarlyPhases
  <2>. QED BY <1>1, <1>3, <2>1, Went, SameKeeps, KeptRow, VerifiedStep
<1>4. CASE Blocks(p, "other") \/ Errs(p)
  BY <1>1, <1>4, SettlesVerified
<1>. QED BY <1>3, <1>4 DEF Scope

LEMMA CommitVerified ==
    ASSUME IInv, IInv', EInv, NEW p \in Processes, Commit(p)
    PROVE  EInv'
<1>. DEFINE s == session[p]
            m == Mine(p)
            t == m.tree
            w == trees[t]
            n == w.head + 1
            x == [w EXCEPT !.head = n, !.dirty = FALSE]
            made == <<t, n>>
            ph == IF Delivering(p) THEN "committed" ELSE "verifying"
<1>1. /\ s.phase = "committing"
      /\ UNCHANGED <<remote, pulls, base, evidence, overlaps>>
  BY DEF Commit, In
<1>2. t \in Trees /\ w # None /\ w \in Worktrees
  BY <1>1, Named DEF Tree, Worktrees, TreePhases
<1>3. /\ SessionVerified(p) /\ s.work = m /\ m \in Work
      /\ (Delivering(p) <=> s.attempt = 0)
      /\ (Delivering(p) <=> t = 0)
  BY <1>2, Working, TaskDeliveryAssumptions DEF Trees
<1>4. CASE /\ w.dirty /\ trees' = [trees EXCEPT ![t].head = @ + 1, ![t].dirty = FALSE]
           /\ Learns(p, "commit", made, ph) /\ Unfenced(p) /\ UNCHANGED task
  <2>1. n \in Nat /\ n >= w.head /\ n # 0 /\ FALSE \in BOOLEAN
    BY <1>2 DEF Worktrees
  <2>2. x \in Worktrees /\ x.head = n
    <3>. HIDE DEF w, n
    <3>. QED BY <1>2, <2>1, Reworked
  <2>3. ~x.dirty
    <3>. HIDE DEF w, n
    <3>. QED BY <1>2, <2>1 DEF Worktrees
  <2>4. trees' = [trees EXCEPT ![t] = x]
    BY <1>2, <1>4 DEF IInv, WorldOK
  <2>5. t # 0 => x.head <= 1
    BY <1>2, <1>4, <2>2 DEF EInv, TreesVerified
  <2>6. t = 0 => \A q \in Processes \ {p} :
          task.work.commit # None \/ task.owner = q => late' > late
    <3>1. t = 0 /\ MayWrite(p) => task.work.commit = None
      BY <1>1, <1>3 DEF SessionVerified, EarlyPhases, MayWrite
    <3>. QED BY <1>3, <1>4, <3>1, Fenced, Lateness
  <2>7. Sound(p)
    <3>1. late' \in Nat
      BY <1>4, LateTyped
    <3>2. t = 0 => trees[0].dirty
      BY <1>4
    <3>. HIDE DEF x, t
    <3>. QED BY <1>1, <1>2, <1>4, <2>2, <2>3, <2>4, <2>5, <2>6, <3>1, <3>2, TreeSound
  <2>. DEFINE k == [m EXCEPT !["commit"] = made]
  <2>8. made \in Commits
    BY <1>2, <2>1 DEF Commits
  <2>9. "commit" \in DOMAIN Nothing /\ ph \in Phases
    BY DEF Nothing, Phases
  <2>10. ph \in {"committed", "verifying"} /\ (ph = "committed" <=> s.attempt = 0)
    BY <1>3
  <2>. HIDE DEF made, ph, m
  <2>11. k \in Work /\ k.tree = m.tree
    BY <1>3, <2>8 DEF Work
  <2>12. /\ Only(p) /\ session'[p].phase = ph /\ session'[p].attempt = s.attempt
         /\ session'[p].work = k
    BY <1>4, <2>9, <2>11, WentLearning DEF m
  <2>. HIDE DEF k
  <2>13. SessionVerified(p)'
    BY <1>3, <2>10, <2>11, <2>12
    DEF SessionVerified, VerifiedPhases, RecordedPhases, EarlyPhases
  <2>. QED BY <1>4, <2>7, <2>12, <2>13, SameKeeps, KeptRow, VerifiedStep DEF Sound
<1>5. CASE CommandFails(p) /\ UNCHANGED <<trees, late>>
  <2>1. late \in Nat
    BY DEF IInv, WorldOK
  <2>2. Sound(p)
    BY <1>1, <1>5, <2>1, QuietWorld
  <2>. QED BY <1>5, <2>2, SettlesVerified DEF CommandFails
<1>. QED BY <1>4, <1>5 DEF Commit, Tree

LEMMA ApplyVerified ==
    ASSUME IInv, IInv', EInv, NEW p \in Processes, Apply(p)
    PROVE  EInv'
<1>. DEFINE t == Mine(p).tree
            w == trees[t]
            d == TRUE
            x == [w EXCEPT !.dirty = d]
<1>1. /\ session[p].phase = "applying"
      /\ UNCHANGED <<task, remote, pulls, base, evidence, overlaps>>
  BY DEF Apply, In
<1>2. t \in Trees /\ w # None /\ w \in Worktrees
  BY <1>1, Named DEF Tree, Worktrees, TreePhases
<1>3. /\ SessionVerified(p) /\ session[p].attempt # 0 /\ t # 0
  BY <1>1, Working DEF SessionOK, RecoveryPhases
<1>4. CASE /\ w.head = 0 \/ w.dirty
           /\ trees' = [trees EXCEPT ![t].dirty = TRUE] /\ Goes(p, "committing")
           /\ Unfenced(p)
  <2>1. trees' = [trees EXCEPT ![t] = x]
    BY <1>2, <1>4 DEF IInv, WorldOK
  <2>2. w.head = 0
    BY <1>2, <1>3, <1>4 DEF EInv, TreesVerified
  <2>3. x \in Worktrees /\ x.head = 0
    <3>1. d \in BOOLEAN
      OBVIOUS
    <3>. HIDE DEF w, d
    <3>. QED BY <1>2, <2>2, <3>1 DEF Worktrees
  <2>4. Sound(p)
    <3>1. late' \in Nat
      BY <1>4, LateTyped
    <3>. HIDE DEF x, t
    <3>2. t # 0 => x.head <= 1 /\ (x.dirty => x.head = 0)
      BY <2>3
    <3>. QED BY <1>1, <1>2, <1>3, <1>4, <2>1, <2>3, <3>1, <3>2, TreeSound
  <2>5. SessionVerified(p)'
    BY <1>1, <1>3, <1>4, Went DEF SessionVerified, OuterPhases
  <2>. QED BY <1>1, <1>4, <2>4, <2>5, Went, SameKeeps, KeptRow, VerifiedStep
<1>5. CASE Goes(p, "failing") /\ UNCHANGED <<trees, late>>
  <2>1. late \in Nat
    BY DEF IInv, WorldOK
  <2>2. Sound(p)
    BY <1>1, <1>5, <2>1, QuietWorld
  <2>3. SessionVerified(p)'
    BY <1>3, <1>5, Went DEF SessionVerified, OuterPhases
  <2>. QED BY <1>1, <1>5, <2>2, <2>3, Went, SameKeeps, KeptRow, VerifiedStep
<1>. QED BY <1>4, <1>5 DEF Apply, Tree

-----------------------------------------------------------------------------
(* Evidence, pushes and pull requests *)

LEMMA VerifyVerified ==
    ASSUME IInv, IInv', EInv, NEW p \in Processes, Verify(p)
    PROVE  EInv'
<1>1. session[p].phase = "verifying" /\ UNCHANGED <<git, base, faults>>
  BY DEF Verify, In
<1>2. Sound(p)
  <2>1. evidence \subseteq evidence' /\ late' >= late
    BY <1>1 DEF Verify, faults, IInv, WorldOK
  <2>. QED BY <1>1, <2>1, QuietWorld DEF git
<1>3. /\ SessionVerified(p) /\ session[p].work = Mine(p)
      /\ (Delivering(p) <=> session[p].attempt = 0)
  BY Working
<1>4. CASE Goes(p, "verified") /\ UNCHANGED task /\ evidence' = evidence \cup {Mine(p).commit}
  <2>1. SessionVerified(p)'
    BY <1>1, <1>3, <1>4, Went
    DEF SessionVerified, OuterPhases, RecordedPhases, CommitPhases, EarlyPhases
  <2>. QED BY <1>2, <1>4, <2>1, Went, SameKeeps, KeptRow, VerifiedStep DEF Sound
<1>5. CASE Goes(p, "failing") /\ UNCHANGED task /\ ~Delivering(p)
  <2>1. SessionVerified(p)'
    BY <1>3, <1>5, Went DEF SessionVerified, OuterPhases
  <2>. QED BY <1>2, <1>5, <2>1, Went, SameKeeps, KeptRow, VerifiedStep DEF Sound
<1>6. CASE Blocks(p, "other")
  BY <1>2, <1>6, SettlesVerified
<1>. QED BY <1>4, <1>5, <1>6 DEF Verify

LEMMA RequireHeadVerified ==
    ASSUME IInv, IInv', EInv, NEW p \in Processes, RequireHead(p)
    PROVE  EInv'
<1>. DEFINE ph == IF Delivering(p) THEN "pushing" ELSE Onward(Mine(p))
<1>1. Sound(p) /\ UNCHANGED <<trees, evidence>>
  BY RestSound DEF RequireHead, faults, git
<1>2. session[p].phase = "heading"
  BY DEF RequireHead, In
<1>3. /\ SessionVerified(p) /\ session[p].work = Mine(p)
      /\ (Delivering(p) <=> session[p].attempt = 0)
      /\ (Delivering(p) => Mine(p).tree = 0)
  BY <1>2, Working DEF SessionOK, TreePhases
<1>4. CASE Goes(p, ph) /\ UNCHANGED task /\ Head(p) = Mine(p).commit /\ ~Tree(p).dirty
  <2>1. CASE Delivering(p)
    <3>1. trees[0].head = Mine(p).commit[2] /\ ~trees[0].dirty
      BY <1>3, <1>4, <2>1 DEF Head, Tree
    <3>2. Mine(p).commit \in evidence /\ task.work.commit # None
      BY <1>2, <1>3, <2>1 DEF SessionVerified, VerifiedPhases, RecordedPhases, CommitPhases
    <3>. QED BY <1>1, <1>3, <1>4, <2>1, <3>1, <3>2, Went, SameKeeps, KeptRow, VerifiedStep
         DEF SessionVerified, EarlyPhases
  <2>2. CASE ~Delivering(p)
    <3>1. ph \in {"pushing", "finishing", "opening"}
      BY <2>2 DEF Onward
    <3>. HIDE DEF ph
    <3>2. SessionVerified(p)'
      BY <1>1, <1>2, <1>3, <1>4, <2>2, <3>1, Went DEF SessionVerified, OuterPhases
    <3>. QED BY <1>1, <1>4, <3>2, Went, SameKeeps, KeptRow, VerifiedStep
  <2>. QED BY <2>1, <2>2
<1>5. CASE Errs(p)
  BY <1>1, <1>5, SettlesVerified
<1>. QED BY <1>4, <1>5 DEF RequireHead

\* What a push sends is the commit of the process, and verified.
LEMMA HeadVerified ==
    ASSUME IInv, EInv, NEW p \in Processes, session[p].phase = "pushing", Unfenced(p),
           late' <= 1
    PROVE  Head(p) = Mine(p).commit /\ Head(p) \in evidence
<1>. DEFINE c == Mine(p).commit
            t == Mine(p).tree
<1>1. /\ SessionOK(session[p], trees, pulls) /\ SessionVerified(p)
      /\ session[p].work = Mine(p) /\ Mine(p) \in Work
      /\ (Delivering(p) <=> session[p].attempt = 0)
      /\ t \in Trees /\ trees[t] \in Worktrees
  BY Working, Named DEF TreePhases, Worktrees, Tree
<1>2. /\ c \in Commits /\ c[1] = t /\ c \in evidence
  BY <1>1 DEF SessionOK, SessionVerified, CommitPhases, VerifiedPhases, RecordedPhases,
              OuterPhases, Work
<1>3. trees[t] # None /\ trees[t].head >= c[2] /\ trees[t].head \in Nat /\ c[2] \in Nat \ {0}
  <2>1. c # None
    <3>1. Commits \subseteq Trees \X Nat
      BY DEF Commits
    <3>. QED BY <1>2, <3>1, TaskDeliveryAssumptions
  <2>2. trees[t] # None /\ trees[t].head >= c[2]
    BY <1>1, <1>2, <2>1 DEF SessionOK, Exists
  <2>3. trees[t].head \in Nat
    BY <1>1 DEF Worktrees
  <2>4. c[2] \in Nat \ {0}
    BY <1>2 DEF Commits
  <2>. QED BY <2>2, <2>3, <2>4
<1>4. trees[t].head = c[2]
  <2>1. CASE Delivering(p)
    <3>1. t = 0
      BY <1>1, <2>1, TaskDeliveryAssumptions DEF SessionVerified, Trees
    <3>2. late = 0 \/ (late <= 1 /\ task.owner = p)
      BY <2>1 DEF Unfenced, MayWrite, IInv, WorldOK
    <3>. QED BY <1>1, <2>1, <3>1, <3>2 DEF SessionVerified
  <2>2. CASE ~Delivering(p)
    <3>1. t # 0
      BY <1>1, <2>2 DEF SessionVerified
    <3>2. trees[t].head <= 1
      BY <1>1, <1>3, <3>1 DEF EInv, TreesVerified
    <3>. QED BY <1>3, <3>2
  <2>. QED BY <2>1, <2>2
<1>5. c = <<c[1], c[2]>>
  BY <1>2 DEF Commits
<1>. QED BY <1>2, <1>4, <1>5 DEF Head, Tree

LEMMA PushVerified ==
    ASSUME IInv, IInv', EInv, NEW p \in Processes, Push(p)
    PROVE  EInv'
<1>. DEFINE h == Head(p)
            b == Mine(p).branch
            m == Mine(p)
<1>1. /\ session[p].phase = "pushing" /\ Unfenced(p)
      /\ UNCHANGED <<trees, pulls, base, evidence, overlaps>>
      /\ remote' \in {remote, [remote EXCEPT ![b] = h]}
  BY DEF Push, In
<1>2. late' >= late /\ late \in Nat /\ late' \in Nat
  BY <1>1, Lateness, LateTyped DEF IInv, WorldOK
<1>3. Sound(p)
  <2>1. late' <= 1 => h \in evidence
    BY <1>1, HeadVerified
  <2>2. remote \in [Trees -> Commits \cup {None}]
    BY DEF IInv, WorldOK
  <2>. HIDE DEF h, b
  <2>3. PushedHasEvidence'
    BY <1>1, <1>2, <2>1, <2>2 DEF EInv, PushedHasEvidence, AtMostOneLate
  <2>4. TreesVerified' /\ \A q \in Processes \ {p} : TreeCalm(q)
    BY <1>1, <1>2 DEF EInv, TreesVerified, TreeCalm
  <2>. QED BY <1>1, <2>3, <2>4 DEF Sound
<1>4. CASE Learns(p, "remote", h, "pushed") /\ UNCHANGED task
  <2>. DEFINE k == [m EXCEPT !["remote"] = h]
  <2>1. "remote" \in DOMAIN Nothing /\ "pushed" \in Phases
    BY DEF Nothing, Phases
  <2>2. /\ SessionVerified(p) /\ session[p].work = m /\ m \in Work
    BY Working
  <2>3. h \in Commits
    <3>1. m.tree \in Trees /\ Tree(p) \in Worktrees
      BY <1>1, Named DEF Worktrees, TreePhases
    <3>2. m.commit \in Commits /\ Tree(p).head >= m.commit[2]
      BY <1>1, <2>2, Working
      DEF SessionOK, Exists, Work, Tree, CommitPhases
    <3>3. m.commit[2] \in Nat \ {0} /\ Tree(p).head \in Nat
      BY <3>1, <3>2 DEF Commits, Worktrees
    <3>4. Tree(p).head \in Nat \ {0}
      BY <3>2, <3>3
    <3>. QED BY <3>1, <3>4 DEF Head, Commits
  <2>. HIDE DEF h, m
  <2>4. k \in Work /\ k.tree = m.tree /\ k.commit = m.commit
    BY <2>2, <2>3 DEF Work
  <2>5. /\ Only(p) /\ session'[p].phase = "pushed" /\ session'[p].work = k
        /\ session'[p].attempt = session[p].attempt
    BY <1>4, <2>1, <2>4, WentLearning DEF m
  <2>. HIDE DEF k
  <2>6. SessionVerified(p)'
    BY <1>1, <1>4, <2>2, <2>4, <2>5
    DEF SessionVerified, OuterPhases, VerifiedPhases, RecordedPhases, CommitPhases, EarlyPhases
  <2>. QED BY <1>3, <1>4, <2>5, <2>6, SameKeeps, KeptRow, VerifiedStep DEF Sound
<1>5. CASE CommandFails(p)
  BY <1>3, <1>5, SettlesVerified DEF CommandFails
<1>. QED BY <1>4, <1>5 DEF Push

LEMMA OpenVerified ==
    ASSUME IInv, IInv', EInv, NEW p \in Processes, Open(p)
    PROVE  EInv'
<1>1. /\ session[p].phase = "opening"
      /\ UNCHANGED <<trees, remote, base, evidence, overlaps>>
      /\ Unfenced(p) \/ UNCHANGED late
  BY DEF Open, In
<1>2. Sound(p)
  BY <1>1, Lateness, QuietWorld
<1>3. CASE Goes(p, "binding") /\ UNCHANGED task
  <2>1. SessionVerified(p)
    BY DEF EInv
  <2>2. SessionVerified(p)'
    BY <1>1, <1>3, <2>1, Went
    DEF SessionVerified, OuterPhases, VerifiedPhases, RecordedPhases, CommitPhases, EarlyPhases
  <2>. QED BY <1>2, <1>3, <2>2, Went, SameKeeps, KeptRow, VerifiedStep DEF Sound
<1>4. CASE CommandFails(p) \/ Blocks(p, "delivery") \/ (Ends(p) /\ UNCHANGED task)
  BY <1>2, <1>4, SettlesVerified DEF CommandFails
<1>. QED BY <1>3, <1>4 DEF Open

LEMMA BindVerified ==
    ASSUME IInv, IInv', EInv, NEW p \in Processes, Bind(p)
    PROVE  EInv'
<1>. DEFINE m == Mine(p)
            pull == pulls[m.branch]
<1>1. session[p].phase = "binding" /\ Sound(p) /\ UNCHANGED evidence
  BY RestSound DEF Bind, In, faults
<1>2. /\ SessionVerified(p) /\ session[p].work = m /\ m \in Work
      /\ m.branch \in Trees /\ pull # None
  BY <1>1, Working DEF SessionOK, Work, OuterPhases
<1>3. pull.opened \in Nat /\ base \in Nat
  BY <1>2 DEF IInv, WorldOK
<1>4. CASE Errs(p)
  BY <1>1, <1>4, SettlesVerified
<1>5. CASE /\ \E oid \in {pull.opened, base} :
                IF oid = m.base THEN Learns(p, "pr", TRUE, "bound") ELSE Drifts(p, oid)
           /\ UNCHANGED task
  <2>1. PICK oid \in Nat :
               IF oid = m.base THEN Learns(p, "pr", TRUE, "bound") ELSE Drifts(p, oid)
    BY <1>3, <1>5
  <2>2. CASE Drifts(p, oid)
    BY <1>1, <1>5, <2>2, SameKeeps, OuterStep
  <2>3. CASE Learns(p, "pr", TRUE, "bound")
    <3>. DEFINE v == TRUE
                k == [m EXCEPT !["pr"] = v]
    <3>1. "pr" \in DOMAIN Nothing /\ "bound" \in Phases
      BY DEF Nothing, Phases
    <3>. HIDE DEF m
    <3>2. k \in Work /\ k.tree = m.tree /\ k.commit = m.commit
      BY <1>2 DEF Work
    <3>3. Learns(p, "pr", v, "bound")
      BY <2>3
    <3>. HIDE DEF v
    <3>4. /\ Only(p) /\ session'[p].phase = "bound" /\ session'[p].work = k
          /\ session'[p].attempt = session[p].attempt
      BY <3>1, <3>2, <3>3, WentLearning DEF m
    <3>. HIDE DEF k
    <3>5. SessionVerified(p)'
      BY <1>1, <1>2, <1>5, <3>2, <3>4
      DEF SessionVerified, OuterPhases, VerifiedPhases, RecordedPhases, CommitPhases, EarlyPhases
    <3>. QED BY <1>1, <1>5, <3>4, <3>5, SameKeeps, KeptRow, VerifiedStep
  <2>. QED BY <2>1, <2>2, <2>3
<1>. QED BY <1>4, <1>5 DEF Bind

-----------------------------------------------------------------------------
(* The theorem *)

LEMMA EvidenceInit ==
    ASSUME Init
    PROVE  EInv
<1>1. TreesVerified /\ PushedHasEvidence
  BY DEF Init, TreesVerified, PushedHasEvidence
<1>2. RowVerified
  <2>. DEFINE k == [Nothing EXCEPT !.branch = 0]
  <2>1. k.tree = None
    BY DEF Nothing
  <2>2. task.work = k /\ task.rec = Nothing
    BY DEF Init
  <2>3. 0 # None
    BY TaskDeliveryAssumptions
  <2>. HIDE DEF k
  <2>. QED BY <2>1, <2>2, <2>3, IdleTyped DEF RowVerified
<1>3. ASSUME NEW p \in Processes PROVE SessionVerified(p)
  BY IdleTyped
  DEF Init, SessionVerified, VerifiedPhases, RecordedPhases, CommitPhases, EarlyPhases
<1>. QED BY <1>1, <1>2, <1>3 DEF EInv

LEMMA EvidencePreserved ==
    ASSUME IInv, IInv', EInv, [Next]_vars
    PROVE  EInv'
<1>1. ASSUME NEW p \in Workers, Claim(p) PROVE EInv'
  BY <1>1, ClaimVerified
<1>2. ASSUME NEW o \in Operators, Command(o) PROVE EInv'
  BY <1>2, CommandVerified
<1>3. ASSUME NEW p \in Processes, Step(p) PROVE EInv'
  BY <1>3, SaveVerified, AllocateVerified, ExecuteVerified, ScopeVerified, CommitVerified,
     VerifyVerified, RequireHeadVerified, PushVerified, CheckBaseVerified, OpenVerified,
     BindVerified, FinishVerified, StartVerified, RetryVerified, FailVerified,
     EnterVerified, NoteVerified, RefreshVerified, RereadVerified, ApplyVerified DEF Step
<1>4. ASSUME NEW p \in Processes, Crash(p) PROVE EInv'
  BY <1>4, CrashVerified
<1>5. CASE Reap \/ ReapAlive \/ MoveBase
  BY <1>5, ReapVerified
<1>6. CASE UNCHANGED vars
  BY <1>6, SameKeeps, RestVerified DEF vars, faults, git
<1>. QED BY <1>1, <1>2, <1>3, <1>4, <1>5, <1>6 DEF Next

\* The second invariant: what is verified, and whose head a worktree has.
THEOREM EvidenceInvariance == Spec => []EInv
<1>1. Init => EInv
  BY EvidenceInit
<1>2. IInv /\ IInv' /\ EInv /\ [Next]_vars => EInv'
  BY EvidencePreserved
<1>. QED BY <1>1, <1>2, RecoveryInvariance, PTL DEF Spec

\* Nothing is on a branch of origin without a passing verification of that very
\* commit on record, as long as at most one command ran after its lease was lost:
\* for any number of workers, operators, claims, recoveries and crashes.
THEOREM PushedEvidence == Spec => []PushedHasEvidence
<1>1. EInv => PushedHasEvidence
  BY DEF EInv
<1>. QED BY <1>1, EvidenceInvariance, PTL

-----------------------------------------------------------------------------
(* What is offered for review is on origin *)

\* c is the one commit of the worktree of branch b.
OnBranch(c, b, T) == c[2] = 1 /\ T[c[1]] # None /\ T[c[1]].branch = b

\* What is known of a recovery concerns one branch.
Concerns(k, T, R, P) ==
    /\ k.tree # None => T[k.tree].branch = k.branch
    /\ k.commit # None => OnBranch(k.commit, k.branch, T)
    /\ k.remote # None => R[k.branch] # None
    /\ k.pr => P[k.branch] # None

\* Two worktrees have two branches; a recovery's branch gets its one commit.
Branches(T, R, P) ==
    /\ \A t, u \in Trees : T[t] # None /\ T[u] # None /\ T[t].branch = T[u].branch => t = u
    /\ \A b \in Trees \ {0} :
         /\ R[b] # None => OnBranch(R[b], b, T)
         /\ P[b] # None => OnBranch(P[b].commit, b, T)

\* The record of the recoveries, and of the one that was finished.
RecoveryRow(row, T, R, P) ==
    /\ row.rec.branch # 0
    /\ row.rec.branch = None =>
         row.rec.tree = None /\ row.rec.commit = None /\ row.rec.remote = None /\ ~row.rec.pr
    /\ row.rec.branch # None => Concerns(row.rec, T, R, P)
    /\ row.work.branch # 0 =>
         /\ row.work.commit # None
         /\ OnBranch(row.work.commit, row.work.branch, T)
         /\ R[row.work.branch] # None
         /\ P[row.work.branch] # None

RecoverySession(s, row, T, R, P) ==
    s.attempt # 0 /\ s.phase \notin OuterPhases =>
      /\ s.work.branch # 0
      /\ Concerns(s.work, T, R, P)
      /\ row.rec.branch \in {None, s.work.branch}
      /\ s.phase \notin {"noting", "failing"} => row.rec.branch = s.work.branch
      /\ s.phase = "noting" => "branch" \in s.own
      /\ s.phase \in {"bound", "finishing"} =>
           R[s.work.branch] # None /\ P[s.work.branch] # None

\* The task's own branch, while no recovery has replaced it.
OwnRow(row, R, P, n) ==
    row.work.branch = 0 =>
      /\ R[0] # None /\ n <= 1 => R[0] = row.work.commit
      /\ P[0] # None => P[0].commit = row.work.commit
      /\ row.work.pr \/ row.state = "PR_READY" =>
           row.work.commit # None /\ R[0] # None /\ P[0] # None

OwnSession(p, s, row, R, P) ==
    row.work.branch = 0 /\ s.attempt = 0 =>
      /\ s.phase \in RecordedPhases => s.work.commit = row.work.commit
      /\ s.phase = "committed" /\ row.owner = p => row.work.commit = None
      /\ s.work.pr \/ s.phase \in {"bound", "finishing"} => R[0] # None /\ P[0] # None

\* All processes at work on a recovery work on one branch.
Recovering(p) == session[p].attempt # 0 /\ session[p].phase \notin OuterPhases
OneBranch ==
    \A p, q \in Processes : Recovering(p) /\ Recovering(q) =>
      session[p].work.branch = session[q].work.branch

Truthful ==
    /\ OneBranch
    /\ Branches(trees, remote, pulls)
    /\ RecoveryRow(task, trees, remote, pulls)
    /\ OwnRow(task, remote, pulls, late)
    /\ \A p \in Processes :
         /\ RecoverySession(session[p], task, trees, remote, pulls)
         /\ OwnSession(p, session[p], task, remote, pulls)

RInv == OneAttemptAtATime => Truthful

-----------------------------------------------------------------------------
(* What a step keeps of that *)

\* What Git has, it keeps.
Still ==
    /\ \A t \in Trees : trees[t] # None =>
         trees'[t] # None /\ trees'[t].branch = trees[t].branch
    /\ \A b \in Trees : remote[b] # None => remote'[b] # None
    /\ \A b \in Trees : pulls[b] # None => pulls'[b] = pulls[b]

\* What is new there is what it has to be.
Honest ==
    /\ Still
    /\ late' >= late
    /\ Branches(trees', remote', pulls')
    /\ task.work.branch = 0 =>
         /\ remote'[0] # None /\ late' <= 1 => remote'[0] = task.work.commit
         /\ pulls'[0] # None => pulls'[0].commit = task.work.commit

\* What another process may rely on in the row.
RowQuiet(q) ==
    /\ Recovering(q) => task'.rec.branch \in {task.rec.branch, session[q].work.branch}
    /\ task'.work.branch = 0 =>
         /\ task.work.branch = 0
         /\ task.work.commit # None => task'.work.commit = task.work.commit
    /\ task'.owner = q => task.owner = q /\ task'.work.commit = task.work.commit

\* The row keeps what it says of deliveries; it is offered for review only with
\* its commit on origin.
Offered == task.work.commit # None /\ remote[0] # None /\ pulls[0] # None

Stands(p) ==
    /\ task'.work = task.work
    /\ task'.rec.branch = task.rec.branch /\ task'.rec.tree = task.rec.tree
    /\ task'.rec.commit = task.rec.commit /\ task'.rec.remote = task.rec.remote
    /\ task'.rec.pr = task.rec.pr
    /\ task'.owner \in {task.owner, None, p}
    /\ task'.state = "PR_READY" /\ task.work.branch = 0 => task.state = "PR_READY" \/ Offered

\* A process is, or enters, where the others are.
Alike(p) == session'[p].attempt # 0 /\ session'[p].phase \notin OuterPhases =>
    \A q \in Processes \ {p} : Recovering(q) =>
      session[q].work.branch = session'[p].work.branch

Recovers(p) == RecoverySession(session'[p], task', trees', remote', pulls')
Owns(p) == OwnSession(p, session'[p], task', remote', pulls')

LEMMA CommitTyped ==
    ASSUME NEW c \in Commits
    PROVE  c # None /\ c[1] \in Trees /\ c[2] \in Nat \ {0} /\ c = <<c[1], c[2]>>
<1>1. Commits \subseteq Trees \X Nat
  BY DEF Commits
<1>. QED BY <1>1, TaskDeliveryAssumptions DEF Commits

LEMMA BranchTyped ==
    ASSUME NEW b \in Trees
    PROVE  b # None /\ b \in Nat /\ 0 \in Trees
BY TaskDeliveryAssumptions DEF Trees, MaxReconciliations

LEMMA OnBranchStill ==
    ASSUME NEW c \in Commits, NEW b, Still, OnBranch(c, b, trees)
    PROVE  OnBranch(c, b, trees')
BY CommitTyped DEF OnBranch, Still

LEMMA ConcernsStill ==
    ASSUME NEW k \in Work, k.branch # None, Exists(k, trees), Still,
           Concerns(k, trees, remote, pulls)
    PROVE  Concerns(k, trees', remote', pulls')
<1>1. k.branch \in Trees /\ k.tree \in Trees \cup {None} /\ k.commit \in Commits \cup {None}
  BY DEF Work
<1>2. k.commit # None => OnBranch(k.commit, k.branch, trees')
  BY <1>1, OnBranchStill DEF Concerns
<1>. QED BY <1>1, <1>2 DEF Concerns, Exists, Still

LEMMA Bystander ==
    ASSUME IInv, EInv, Truthful, NEW q \in Processes, session'[q] = session[q], Still,
           RowQuiet(q)
    PROVE  Recovers(q) /\ Owns(q)
<1>. DEFINE s == session[q]
<1>1. /\ SessionOK(s, trees, pulls) /\ SessionVerified(q) /\ s.work \in Work
      /\ RecoverySession(s, task, trees, remote, pulls)
      /\ OwnSession(q, s, task, remote, pulls)
  BY Session DEF EInv, Truthful, Mine
<1>2. 0 \in Trees
  BY DEF Trees, MaxReconciliations
<1>3. CASE s.attempt # 0 /\ s.phase \notin OuterPhases
  <2>1. s.work.branch # None /\ s.work.branch \in Trees /\ Exists(s.work, trees)
    BY <1>1, <1>3 DEF SessionOK, Work
  <2>2. Concerns(s.work, trees', remote', pulls')
    BY <1>1, <1>3, <2>1, ConcernsStill DEF RecoverySession
  <2>3. Recovers(q)
    BY <1>1, <1>3, <2>1, <2>2 DEF Recovers, RecoverySession, RowQuiet, Recovering, Still
  <2>. QED BY <1>3, <2>3 DEF Owns, OwnSession
<1>4. CASE ~(s.attempt # 0 /\ s.phase \notin OuterPhases)
  <2>1. Recovers(q)
    BY <1>4 DEF Recovers, RecoverySession
  <2>2. s.attempt = 0 /\ s.phase \in RecordedPhases => task.work.commit # None
    BY <1>1 DEF SessionVerified
  <2>3. /\ remote[0] # None => remote'[0] # None
        /\ pulls[0] # None => pulls'[0] # None
    BY <1>2 DEF Still
  <2>4. Owns(q)
    BY <1>1, <2>2, <2>3 DEF Owns, OwnSession, RowQuiet
  <2>. QED BY <2>1, <2>4
<1>. QED BY <1>3, <1>4

\* A process that goes on with its recovery.
LEMMA StaysAlike ==
    ASSUME Truthful, NEW p \in Processes, session[p].attempt # 0,
           session[p].phase \notin OuterPhases, session'[p].work.branch = Mine(p).branch
    PROVE  Alike(p)
<1>1. Recovering(p) /\ session'[p].work.branch = session[p].work.branch
  BY DEF Recovering, Mine
<1>. QED BY <1>1 DEF Alike, Truthful, OneBranch

LEMMA TruthfulStep ==
    ASSUME IInv, EInv, Truthful, NEW p \in Processes, Only(p), Alike(p), Still,
           Branches(trees', remote', pulls'),
           RecoveryRow(task', trees', remote', pulls'),
           OwnRow(task', remote', pulls', late'),
           \A q \in Processes \ {p} : RowQuiet(q),
           Recovers(p), Owns(p)
    PROVE  Truthful'
<1>1. ASSUME NEW q \in Processes PROVE Recovers(q) /\ Owns(q)
  <2>1. CASE q = p
    BY <2>1
  <2>2. CASE q # p
    BY <2>2, Bystander DEF Only
  <2>. QED BY <2>1, <2>2
<1>2. OneBranch'
  BY DEF OneBranch, Recovering, Truthful, Only, Alike
<1>. QED BY <1>1, <1>2 DEF Truthful, Recovers, Owns

LEMMA StandingRow ==
    ASSUME IInv, EInv, Truthful, NEW p, Honest, Stands(p)
    PROVE  /\ RecoveryRow(task', trees', remote', pulls')
           /\ OwnRow(task', remote', pulls', late')
           /\ \A q \in Processes \ {p} : RowQuiet(q)
<1>1. /\ task.work \in Work /\ task.rec \in Work
      /\ Exists(task.rec, trees) /\ Exists(task.work, trees)
      /\ task.work.branch # None /\ task.work.branch \in Trees /\ 0 \in Trees
  BY RowTyped, BranchTyped DEF IInv, RowOK, Work
<1>2. /\ RecoveryRow(task, trees, remote, pulls) /\ OwnRow(task, remote, pulls, late)
      /\ Still
  BY DEF Truthful, Honest
<1>3. task.rec.branch # None => Concerns(task'.rec, trees', remote', pulls')
  <2>1. task.rec.branch # None => Concerns(task.rec, trees', remote', pulls')
    BY <1>1, <1>2, ConcernsStill DEF RecoveryRow
  <2>. QED BY <2>1 DEF Concerns, Stands
<1>4. task.work.branch # 0 => OnBranch(task.work.commit, task.work.branch, trees')
  <2>1. task.work.commit # None => task.work.commit \in Commits
    BY <1>1 DEF Work
  <2>. QED BY <1>2, <2>1, OnBranchStill DEF RecoveryRow
<1>5. RecoveryRow(task', trees', remote', pulls')
  BY <1>1, <1>2, <1>3, <1>4 DEF RecoveryRow, Stands, Still
<1>6. OwnRow(task', remote', pulls', late')
  BY <1>1, <1>2 DEF OwnRow, Stands, Honest, Still, Offered
<1>7. ASSUME NEW q \in Processes \ {p} PROVE RowQuiet(q)
  BY TaskDeliveryAssumptions DEF RowQuiet, Stands
<1>. QED BY <1>5, <1>6, <1>7

LEMMA StandsTruthful ==
    ASSUME IInv, EInv, Truthful, NEW p \in Processes, Only(p), Alike(p), Honest, Stands(p),
           Recovers(p), Owns(p)
    PROVE  Truthful'
BY StandingRow, TruthfulStep DEF Honest

LEMMA QuietHonest ==
    ASSUME IInv, IInv', Truthful, UNCHANGED git, late' >= late
    PROVE  Honest
<1>1. late \in Nat /\ late' \in Nat
  BY DEF IInv, WorldOK
<1>2. Still
  BY DEF Still, git
<1>. QED BY <1>1, <1>2 DEF Honest, Truthful, OwnRow, git

LEMMA RestHonest ==
    ASSUME IInv, IInv', Truthful, UNCHANGED git, UNCHANGED late
    PROVE  Honest
<1>1. late' >= late
  BY DEF IInv, WorldOK
<1>. QED BY <1>1, QuietHonest

LEMMA EndsTruthful ==
    ASSUME IInv, EInv, Truthful, NEW p \in Processes, Ends(p), Honest, Stands(p)
    PROVE  Truthful'
<1>1. Becomes(p, Idle)
  BY DEF Ends, Becomes
<1>2. session'[p] = Idle /\ Only(p)
  BY <1>1, Moved
<1>3. Idle.attempt = 0 /\ Idle.phase = "idle" /\ ~Idle.work.pr
  BY DEF Idle, Nothing
<1>4. Alike(p) /\ Recovers(p) /\ Owns(p)
  BY <1>2, <1>3
  DEF Alike, Recovers, Owns, RecoverySession, OwnSession, RecordedPhases, CommitPhases
<1>. QED BY <1>2, <1>4, StandsTruthful

LEMMA SameStands ==
    ASSUME NEW p, UNCHANGED task
    PROVE  Stands(p)
BY DEF Stands

LEMMA UnleasedStands ==
    ASSUME IInv, NEW p, NEW st, NEW f, task' = Unleased(st, f),
           st = "PR_READY" /\ task.work.branch = 0 => task.state = "PR_READY" \/ Offered
    PROVE  Stands(p)
BY RowTyped DEF Unleased, Rows, Stands

LEMMA SettlesTruthful ==
    ASSUME IInv, EInv, Truthful, NEW p \in Processes, Honest,
           \/ \E st, f : st # "PR_READY" /\ Settles(p, st, f)
           \/ \E f : Blocks(p, f)
           \/ Errs(p)
           \/ Ends(p) /\ UNCHANGED task
    PROVE  Truthful'
<1>1. ASSUME NEW st, NEW f, Settles(p, st, f),
             st = "PR_READY" /\ task.work.branch = 0 => Offered
      PROVE  Truthful'
  <2>1. Ends(p) /\ Stands(p)
    BY <1>1, UnleasedStands, SameStands DEF Settles, Stores
  <2>. QED BY <2>1, EndsTruthful
<1>2. Ends(p) /\ UNCHANGED task => Truthful'
  BY SameStands, EndsTruthful
<1>3. ASSUME NEW f, Blocks(p, f) PROVE Truthful'
  <2>1. task.work.pr /\ task.work.branch = 0 => Offered
    BY DEF Truthful, OwnRow, Offered
  <2>2. CASE task.work.pr
    BY <1>1, <1>3, <2>1, <2>2 DEF Blocks
  <2>3. CASE ~task.work.pr
    BY <1>1, <1>3, <2>3 DEF Blocks
  <2>. QED BY <2>2, <2>3
<1>4. Errs(p) => Truthful'
  BY <1>1, <1>2 DEF Errs
<1>. QED BY <1>1, <1>2, <1>3, <1>4

\* A process that turns to another recovery, or to the row.
LEMMA OuterTruthful ==
    ASSUME IInv, EInv, Truthful, NEW p \in Processes, Honest, Stands(p),
           \/ Goes(p, "entering")
           \/ \E to \in Nat : Drifts(p, to)
    PROVE  Truthful'
<1>1. /\ Only(p) /\ session'[p].phase \in {"entering", "drifting"}
      /\ session'[p].attempt = session[p].attempt
      /\ session'[p].work.pr = session[p].work.pr
  <2>1. ASSUME NEW to \in Nat PROVE [Mine(p) EXCEPT !.base = to].pr = Mine(p).pr
    BY Session DEF Work
  <2>. QED BY <2>1, Went, WentDrifting DEF Mine
<1>2. Alike(p)
  BY <1>1 DEF Alike, OuterPhases
<1>3. Recovers(p)
  BY <1>1 DEF Recovers, RecoverySession, OuterPhases
<1>4. Owns(p)
  <2>1. OwnSession(p, session[p], task, remote, pulls)
    BY DEF Truthful
  <2>2. 0 \in Trees
    BY DEF Trees, MaxReconciliations
  <2>. QED BY <1>1, <2>1, <2>2
       DEF Owns, OwnSession, Stands, Honest, Still, RecordedPhases, CommitPhases
<1>. QED BY <1>1, <1>2, <1>3, <1>4, StandsTruthful

\* A process that goes on with the same work.
LEMMA GoesTruthful ==
    ASSUME IInv, EInv, Truthful, NEW p \in Processes, Honest, Stands(p),
           NEW ph, Goes(p, ph), session[p].phase \notin OuterPhases, ph # "committed",
           session[p].attempt # 0 =>
             /\ ph # "noting"
             /\ session[p].phase \in {"noting", "failing"} => ph = "failing"
             /\ ph \in {"bound", "finishing"} =>
                  remote[Mine(p).branch] # None /\ pulls[Mine(p).branch] # None,
           session[p].attempt = 0 /\ task.work.branch = 0 =>
             /\ ph \in RecordedPhases => Mine(p).commit = task.work.commit
             /\ ph \notin {"bound", "finishing"}
    PROVE  Truthful'
<1>. DEFINE s == session[p]
<1>1. /\ Only(p) /\ session'[p].phase = ph /\ session'[p].attempt = s.attempt
      /\ session'[p].work = s.work /\ s.work = Mine(p)
  BY Went DEF Mine
<1>2. /\ SessionOK(s, trees, pulls) /\ s.work \in Work /\ 0 \in Trees
      /\ RecoverySession(s, task, trees, remote, pulls)
      /\ OwnSession(p, s, task, remote, pulls)
  BY Session, BranchTyped DEF Truthful, Mine, Trees, MaxReconciliations
<1>3. Alike(p)
  BY <1>1 DEF Alike, Truthful, OneBranch, Recovering
<1>4. s.work.branch # None /\ s.work.branch \in Trees /\ Exists(s.work, trees)
  BY <1>2 DEF SessionOK, Work
<1>5. Recovers(p)
  <2>1. s.attempt # 0 => Concerns(s.work, trees', remote', pulls')
    BY <1>2, <1>4, ConcernsStill DEF RecoverySession, Honest
  <2>. QED BY <1>1, <1>2, <1>4, <2>1
       DEF Recovers, RecoverySession, Stands, Honest, Still
<1>6. Owns(p)
  BY <1>1, <1>2 DEF Owns, OwnSession, Stands, Honest, Still
<1>. QED BY <1>1, <1>3, <1>5, <1>6, StandsTruthful

-----------------------------------------------------------------------------
(* The life of a recovery *)

\* What is known of a process while nobody disturbed a recovery.
LEMMA Facing ==
    ASSUME IInv, EInv, Truthful, NEW p \in Processes
    PROVE  /\ SessionOK(session[p], trees, pulls) /\ SessionVerified(p)
           /\ session[p] \in Sessions /\ session[p].work = Mine(p) /\ Mine(p) \in Work
           /\ (Delivering(p) <=> session[p].attempt = 0)
           /\ RecoverySession(session[p], task, trees, remote, pulls)
           /\ OwnSession(p, session[p], task, remote, pulls)
           /\ session[p].phase \notin OuterPhases =>
                /\ Mine(p).branch # None /\ Mine(p).branch \in Trees
                /\ Delivering(p) => Mine(p).branch = 0
<1>1. FirstSession(session[p], task, pulls)
  BY Session
<1>. QED BY <1>1, Working DEF Truthful, FirstSession, SessionOK, Work

LEMMA RestTruthful ==
    ASSUME IInv, IInv', EInv, Truthful, UNCHANGED <<session, git, late>>,
           NEW p, Stands(p), task'.owner \in {task.owner, None}
    PROVE  Truthful'
<1>1. Honest
  BY RestHonest
<1>2. /\ RecoveryRow(task', trees', remote', pulls')
      /\ OwnRow(task', remote', pulls', late')
      /\ \A q \in Processes \ {p} : RowQuiet(q)
  BY <1>1, StandingRow
<1>3. ASSUME NEW q \in Processes PROVE Recovers(q) /\ Owns(q)
  <2>1. RowQuiet(q)
    BY TaskDeliveryAssumptions DEF RowQuiet, Stands
  <2>. QED BY <1>1, <2>1, Bystander DEF Honest
<1>. QED BY <1>1, <1>2, <1>3
     DEF Truthful, OneBranch, Recovering, Honest, Recovers, Owns

LEMMA ReapTruthful ==
    ASSUME IInv, IInv', EInv, Truthful, Reap \/ ReapAlive \/ MoveBase
    PROVE  Truthful'
<1>1. UNCHANGED <<session, git, late>>
  BY DEF Reap, ReapAlive, MoveBase, faults
<1>2. Stands(None) /\ task'.owner \in {task.owner, None}
  BY UnleasedStands, SameStands DEF Reap, ReapAlive, MoveBase, Stands
<1>. QED BY <1>1, <1>2, RestTruthful

LEMMA CrashTruthful ==
    ASSUME IInv, IInv', EInv, Truthful, NEW p \in Processes, Crash(p)
    PROVE  Truthful'
<1>1. Honest
  BY RestHonest DEF Crash, faults
<1>. QED BY <1>1, SettlesTruthful DEF Crash

LEMMA ClaimTruthful ==
    ASSUME IInv, IInv', EInv, Truthful, NEW p \in Workers, Claim(p)
    PROVE  Truthful'
<1>. DEFINE w == task.work
            ph == IF w.tree = None THEN "allocating" ELSE "executing"
            s == [Idle EXCEPT !.phase = ph, !.work = w]
<1>1. p \in Processes /\ Honest
  BY RestHonest DEF Claim, faults, Processes
<1>2. Becomes(p, s)
  BY DEF Claim, Becomes
<1>3. session'[p] = s /\ Only(p)
  BY <1>1, <1>2, Moved
<1>4. ph \in {"allocating", "executing"}
  OBVIOUS
<1>5. Stands(p)
  <2>1. /\ task'.work = task.work /\ task'.rec = task.rec /\ task'.owner = p
        /\ task'.state = "CLAIMED"
    BY RowTyped DEF Claim, Rows
  <2>. QED BY <2>1 DEF Stands
<1>6. w.branch = 0 /\ w.pr => remote[0] # None /\ pulls[0] # None
  BY DEF Truthful, OwnRow
<1>. HIDE DEF w, ph
<1>7. session'[p].phase = ph /\ session'[p].attempt = 0 /\ session'[p].work = w
  BY <1>3, IdleTyped DEF Sessions
<1>. HIDE DEF s
<1>8. Alike(p) /\ Recovers(p)
  BY <1>7 DEF Alike, Recovers, RecoverySession
<1>9. Owns(p)
  <2>1. 0 \in Trees
    BY DEF Trees, MaxReconciliations
  <2>. QED BY <1>1, <1>4, <1>5, <1>6, <1>7, <2>1
       DEF Owns, OwnSession, RecordedPhases, CommitPhases, Stands, Honest, Still, w
<1>. QED BY <1>1, <1>3, <1>5, <1>8, <1>9, StandsTruthful

LEMMA CommandTruthful ==
    ASSUME IInv, IInv', EInv, Truthful, NEW o \in Operators, Command(o)
    PROVE  Truthful'
<1>. DEFINE b == base
            k == [Nothing EXCEPT !.base = b]
            s == [Idle EXCEPT !.phase = "drifting", !.work.base = b]
<1>1. o \in Processes /\ Honest /\ Stands(o)
  BY RestHonest, SameStands DEF Command, faults, Processes
<1>2. Becomes(o, s)
  BY DEF Command, Becomes
<1>3. session'[o] = s /\ Only(o)
  BY <1>1, <1>2, Moved
<1>. HIDE DEF b
<1>4. s.phase = "drifting" /\ s.attempt = 0 /\ s.work = k
  BY IdleTyped DEF Sessions
<1>5. ~k.pr
  BY DEF Nothing
<1>. HIDE DEF k, s
<1>6. Alike(o) /\ Recovers(o) /\ Owns(o)
  BY <1>3, <1>4, <1>5
  DEF Alike, Recovers, Owns, RecoverySession, OwnSession, RecordedPhases, CommitPhases
<1>. QED BY <1>1, <1>3, <1>6, StandsTruthful

LEMMA StartTruthful ==
    ASSUME IInv, IInv', EInv, Truthful, NEW p \in Processes, Start(p) \/ Retry(p)
    PROVE  Truthful'
<1>1. Honest
  BY RestHonest DEF Start, Retry, faults
<1>. DEFINE b == Mine(p).base
            k == [task.rec EXCEPT !.base = b]
<1>2. /\ k.branch = task.rec.branch /\ k.tree = task.rec.tree /\ k.commit = task.rec.commit
      /\ k.remote = task.rec.remote /\ k.pr = task.rec.pr
  BY RowTyped DEF Work
<1>3. task' = Started(p) => Stands(p)
  <2>1. ASSUME task' = Started(p)
        PROVE  task' = [task EXCEPT !.state = "DELIVERY_RECONCILING", !.attempts = @ + 1,
                               !.source = task.state, !.rec = k]
    BY <2>1, RowTyped DEF Started, Rows
  <2>. HIDE DEF k
  <2>. QED BY <1>2, <2>1, RowTyped DEF Rows, Stands
<1>4. task' = [task EXCEPT !.attempts = @ + 1, !.rec.base = Mine(p).base] => Stands(p)
  <2>1. ASSUME task' = [task EXCEPT !.attempts = @ + 1, !.rec.base = Mine(p).base]
        PROVE  task' = [task EXCEPT !.attempts = @ + 1, !.rec = k]
    BY <2>1, RowTyped DEF Rows
  <2>. HIDE DEF k
  <2>. QED BY <1>2, <2>1, RowTyped DEF Rows, Stands
<1>5. task' = Unrecovered => Stands(p)
  BY UnleasedStands DEF Unrecovered
<1>6. Stands(p)
  BY <1>3, <1>4, <1>5, SameStands DEF Start, Retry, Stores
<1>7. Goes(p, "entering") \/ Ends(p)
  BY DEF Start, Retry, Stores
<1>. QED BY <1>1, <1>6, <1>7, OuterTruthful, EndsTruthful

LEMMA FailTruthful ==
    ASSUME IInv, IInv', EInv, Truthful, NEW p \in Processes, Fail(p)
    PROVE  Truthful'
<1>1. Honest /\ Ends(p)
  BY RestHonest DEF Fail, faults, Stores
<1>2. Stands(p)
  BY UnleasedStands, SameStands DEF Fail, Stores, Unrecovered
<1>. QED BY <1>1, <1>2, EndsTruthful

LEMMA EnterTruthful ==
    ASSUME IInv, IInv', EInv, Truthful, NEW p \in Processes, Enter(p),
           overlaps' = 0 \/ task.attempts <= 1
    PROVE  Truthful'
<1>1. Honest /\ UNCHANGED <<task, git>> /\ Stands(p)
  BY RestHonest, SameStands DEF Enter
<1>2. CASE task.state # "DELIVERY_RECONCILING"
  BY <1>1, <1>2, SettlesTruthful DEF Enter
<1>3. CASE task.state = "DELIVERY_RECONCILING"
  <2>. DEFINE ph == IF task.work.commit = None THEN "failing" ELSE "noting"
              n  == task.attempts
              b  == task.rec.base
              br == IF task.rec.branch = None THEN task.attempts ELSE task.rec.branch
              k  == [Nothing EXCEPT !.base = b, !.branch = br]
              s  == [phase |-> ph, attempt |-> n, work |-> k, own |-> {"base", "branch"}]
  <2>1. Becomes(p, s)
    BY <1>3 DEF Enter, Becomes
  <2>2. session'[p] = s /\ Only(p)
    BY <2>1, Moved
  <2>3. n # 0 /\ n # None
    BY <1>3, RowTyped, TaskDeliveryAssumptions DEF IInv, RowOK
  <2>4. br # 0 /\ br # None /\ task.rec.branch \in {None, br}
    BY <2>3 DEF Truthful, RecoveryRow
  <2>5. ph \in {"failing", "noting"}
    OBVIOUS
  <2>10. ASSUME NEW q \in Processes \ {p}, Recovering(q) PROVE session[q].work.branch = br
    <3>1. CASE overlaps' = 0
      <4>1. Delivering(q)
        BY <1>3, <3>1 DEF Enter, IInv, WorldOK
      <4>. QED BY <2>10, <4>1 DEF Delivering, Recovering
    <3>2. CASE task.attempts <= 1
      <4>1. task.attempts = 1
        BY <2>3, <3>2, RowTyped
      <4>2. br = 1
        BY <4>1 DEF IInv, FirstRow
      <4>3. session[q].work.branch = 1
        BY <2>10, <4>1, Session DEF FirstSession, Recovering
      <4>. QED BY <4>2, <4>3
    <3>. QED BY <3>1, <3>2
  <2>. HIDE DEF b, br, ph, n
  <2>6. k.tree = None /\ k.commit = None /\ k.remote = None /\ ~k.pr /\ k.branch = br
    BY DEF Nothing
  <2>. HIDE DEF k
  <2>7. /\ session'[p].attempt = n /\ session'[p].work = k /\ session'[p].phase = ph
        /\ "branch" \in session'[p].own
    BY <2>2
  <2>8. Recovers(p)
    BY <1>1, <2>4, <2>5, <2>6, <2>7 DEF Recovers, RecoverySession, Concerns
  <2>9. Alike(p) /\ Owns(p)
    BY <2>3, <2>6, <2>7, <2>10 DEF Alike, Owns, OwnSession
  <2>. QED BY <1>1, <2>2, <2>8, <2>9, StandsTruthful
<1>. QED BY <1>2, <1>3

LEMMA RefreshTruthful ==
    ASSUME IInv, IInv', EInv, Truthful, NEW p \in Processes, Refresh(p)
    PROVE  Truthful'
<1>1. Honest /\ Stands(p) /\ UNCHANGED task /\ base \in Nat
  BY RestHonest, SameStands DEF Refresh, faults, IInv, WorldOK
<1>2. session[p].phase = "refreshing" /\ session[p].attempt # 0
  BY Session DEF Refresh, In, SessionOK, RecoveryPhases
<1>3. CASE Goes(p, "rereading")
  BY <1>1, <1>2, <1>3, GoesTruthful DEF OuterPhases
<1>4. CASE Drifts(p, base) \/ Ends(p)
  BY <1>1, <1>4, OuterTruthful, EndsTruthful
<1>. QED BY <1>3, <1>4 DEF Refresh

LEMMA FinishTruthful ==
    ASSUME IInv, IInv', EInv, Truthful, NEW p \in Processes, Finish(p)
    PROVE  Truthful'
<1>1. Honest /\ UNCHANGED git
  BY RestHonest DEF Finish, faults
<1>2. Ends(p) /\ session[p].phase = "finishing"
  BY DEF Finish, Stores, In
<1>3. CASE ~MayWrite(p)
  BY <1>1, <1>2, <1>3, SameStands, EndsTruthful DEF Finish, Stores
<1>4. CASE MayWrite(p) /\ Delivering(p)
  <2>1. task.work.commit # None
    BY <1>2, <1>4, Facing DEF SessionVerified, RecordedPhases, CommitPhases
  <2>2. task.work.branch = 0 => remote[0] # None /\ pulls[0] # None
    BY <1>2, <1>4, Facing DEF OwnSession
  <2>3. Stands(p)
    BY <1>4, <2>1, <2>2, UnleasedStands DEF Finish, Stores, Offered
  <2>. QED BY <1>1, <1>2, <2>3, EndsTruthful
<1>5. CASE MayWrite(p) /\ ~Delivering(p)
  <2>. DEFINE m == Mine(p)
              tr == task.work.tree
              k == [m EXCEPT !.tree = tr]
              row == [Unleased("PR_READY", "none") EXCEPT !.work = k, !.rec = m]
  <2>1. task' = row
    BY <1>5 DEF Finish, Stores
  <2>2. /\ SessionOK(session[p], trees, pulls) /\ session[p].work = m /\ m \in Work
        /\ session[p].attempt # 0 /\ session[p].phase = "finishing"
        /\ RecoverySession(session[p], task, trees, remote, pulls)
    BY <1>2, <1>5, Facing
  <2>3. /\ m.commit # None /\ m.branch # None /\ m.branch # 0
        /\ Concerns(m, trees, remote, pulls) /\ task.rec.branch = m.branch
        /\ remote[m.branch] # None /\ pulls[m.branch] # None
    BY <2>2 DEF SessionOK, RecoverySession, CommitPhases, OuterPhases
  <2>. HIDE DEF m, tr
  <2>4. k.branch = m.branch /\ k.commit = m.commit
    BY <2>2 DEF Work
  <2>. HIDE DEF k
  <2>5. row.work = k /\ row.rec = m /\ row.owner = None
    BY RowTyped DEF Unleased, Rows
  <2>. HIDE DEF row
  <2>6. RecoveryRow(task', trees', remote', pulls')
    BY <1>1, <2>1, <2>3, <2>4, <2>5 DEF RecoveryRow, Concerns, git
  <2>7. OwnRow(task', remote', pulls', late')
    BY <2>1, <2>3, <2>4, <2>5 DEF OwnRow
  <2>8. \A q \in Processes \ {p} : RowQuiet(q)
    BY <2>1, <2>3, <2>4, <2>5, TaskDeliveryAssumptions DEF RowQuiet
  <2>9. Becomes(p, Idle)
    BY <1>2 DEF Ends, Becomes
  <2>10. session'[p] = Idle /\ Only(p)
    BY <2>9, Moved
  <2>11. Alike(p) /\ Recovers(p) /\ Owns(p)
    BY <2>1, <2>3, <2>4, <2>5, <2>10, IdleTyped
    DEF Alike, Recovers, Owns, RecoverySession, OwnSession
  <2>. QED BY <1>1, <2>6, <2>7, <2>8, <2>10, <2>11, TruthfulStep DEF Honest
<1>. QED BY <1>3, <1>4, <1>5

-----------------------------------------------------------------------------
(* What a delivery and a recovery record *)

\* What a process learned of its recovery and what the row has of it are of one
\* branch, and so is the one written over the other.
LEMMA MergeConcerns ==
    ASSUME NEW k \in Work, NEW m \in Work, NEW own, NEW T, NEW R, NEW P,
           m.branch # None, Concerns(m, T, R, P), k.branch \in {None, m.branch},
           k.branch = None => "branch" \in own /\ k.tree = None /\ k.commit = None
                              /\ k.remote = None /\ ~k.pr,
           k.branch # None => Concerns(k, T, R, P)
    PROVE  LET n == [f \in DOMAIN k |-> IF f \in own THEN m[f] ELSE k[f]]
           IN  n.branch = m.branch /\ Concerns(n, T, R, P)
<1>. DEFINE n == [f \in DOMAIN k |-> IF f \in own THEN m[f] ELSE k[f]]
<1>1. DOMAIN k = {"base", "branch", "tree", "commit", "remote", "pr"}
  BY DEF Work
<1>2. /\ n.branch \in {m.branch, k.branch}
      /\ "branch" \in own => n.branch = m.branch
      /\ n.tree \in {m.tree, k.tree}
      /\ n.commit \in {m.commit, k.commit}
      /\ n.remote \in {m.remote, k.remote}
      /\ n.pr => m.pr \/ k.pr
  BY <1>1
<1>. HIDE DEF n
<1>3. n.branch = m.branch
  BY <1>2
<1>4. k.branch = None => Concerns(n, T, R, P)
  BY <1>2, <1>3 DEF Concerns
<1>5. k.branch = m.branch => Concerns(n, T, R, P)
  BY <1>2, <1>3 DEF Concerns
<1>. QED BY <1>3, <1>4, <1>5 DEF n

LEMMA SavedTruthful ==
    ASSUME IInv, IInv', EInv, Truthful, NEW p \in Processes, MayWrite(p), task' = Saved(p),
           UNCHANGED git, UNCHANGED late,
           session[p].phase \in {"assigning", "committed", "verified", "pushed", "bound",
                                 "noting", "rereading"}
    PROVE  /\ RecoveryRow(task', trees', remote', pulls')
           /\ OwnRow(task', remote', pulls', late')
           /\ \A q \in Processes \ {p} : RowQuiet(q)
           /\ Delivering(p) => task'.work = Mine(p) /\ Mine(p).branch = 0
           /\ ~Delivering(p) =>
                /\ task'.rec \in Work /\ task'.rec.branch = Mine(p).branch
                /\ Concerns(task'.rec, trees, remote, pulls)
<1>. DEFINE r == task
            s == session[p]
            m == Mine(p)
<1>1. /\ r \in Rows /\ r.work \in Work /\ r.rec \in Work
      /\ r.state # "PR_READY" /\ r.work.branch = 0
      /\ RecoveryRow(r, trees, remote, pulls) /\ OwnRow(r, remote, pulls, late)
  BY RowTyped, Unfinished DEF Truthful
<1>2. /\ SessionOK(s, trees, pulls) /\ SessionVerified(p)
      /\ s.work = m /\ m \in Work /\ m.branch # None
      /\ (Delivering(p) <=> s.attempt = 0) /\ (Delivering(p) => m.branch = 0)
      /\ RecoverySession(s, r, trees, remote, pulls)
      /\ OwnSession(p, s, r, remote, pulls)
      /\ s.phase \notin OuterPhases
  BY Facing DEF OuterPhases
<1>3. CASE Delivering(p)
  <2>. DEFINE row == [r EXCEPT !.work = m]
  <2>1. task' = row /\ r.owner = p
    BY <1>3 DEF Saved, MayWrite
  <2>2. r.work.commit \in {m.commit, None}
    <3>1. s.phase = "assigning" => m.commit = r.work.commit
      BY <1>2, <1>3, <2>1 DEF SessionVerified, EarlyPhases
    <3>2. s.phase = "committed" => r.work.commit = None
      BY <1>1, <1>2, <1>3, <2>1 DEF OwnSession
    <3>3. s.phase \in {"verified", "pushed", "bound"} => m.commit = r.work.commit
      BY <1>1, <1>2, <1>3 DEF OwnSession, RecordedPhases, CommitPhases
    <3>4. s.phase \notin {"noting", "rereading"}
      BY <1>2, <1>3 DEF SessionOK, RecoveryPhases
    <3>. QED BY <3>1, <3>2, <3>3, <3>4
  <2>3. /\ remote[0] # None /\ late <= 1 => m.commit = remote[0]
        /\ pulls[0] # None => m.commit = pulls[0].commit /\ m.commit # None
    <3>1. /\ remote[0] # None => remote[0] \in Commits
          /\ pulls[0] # None => pulls[0].commit \in Commits
      <4>1. 0 \in Trees
        BY DEF Trees, MaxReconciliations
      <4>. QED BY <4>1 DEF IInv, WorldOK
    <3>2. None \notin Commits
      BY CommitTyped
    <3>. QED BY <1>1, <2>2, <3>1, <3>2 DEF OwnRow
  <2>4. m.pr => remote[0] # None /\ pulls[0] # None
    BY <1>1, <1>2, <1>3 DEF OwnSession
  <2>. HIDE DEF r, m
  <2>5. row.work = m /\ row.rec = r.rec /\ row.owner = r.owner /\ row.state = r.state
    BY <1>1 DEF Rows
  <2>. HIDE DEF row
  <2>6. RecoveryRow(row, trees, remote, pulls)
    BY <1>1, <1>2, <1>3, <2>5 DEF RecoveryRow
  <2>7. OwnRow(row, remote, pulls, late)
    BY <1>1, <1>2, <1>3, <2>3, <2>4, <2>5 DEF OwnRow
  <2>8. \A q \in Processes \ {p} : RowQuiet(q)
    BY <1>1, <2>1, <2>2, <2>5 DEF RowQuiet, r
  <2>. QED BY <1>2, <1>3, <2>1, <2>5, <2>6, <2>7, <2>8 DEF git, m
<1>4. CASE ~Delivering(p)
  <2>. DEFINE k   == r.rec
              n   == [f \in DOMAIN k |-> IF f \in s.own THEN m[f] ELSE k[f]]
              row == [r EXCEPT !.rec = n]
  <2>1. task' = row
    BY <1>4 DEF Saved
  <2>2. /\ Concerns(m, trees, remote, pulls) /\ k.branch \in {None, m.branch} /\ m.branch # 0
        /\ k.branch = None => "branch" \in s.own /\ k.tree = None /\ k.commit = None
                              /\ k.remote = None /\ ~k.pr
        /\ k.branch # None => Concerns(k, trees, remote, pulls)
    BY <1>1, <1>2, <1>4 DEF RecoverySession, RecoveryRow
  <2>3. n \in Work /\ n.branch = m.branch /\ Concerns(n, trees, remote, pulls)
    <3>1. k \in Work /\ m \in Work /\ m.branch # None
      BY <1>1, <1>2
    <3>. HIDE DEF r, s, m, k
    <3>. QED BY <2>2, <3>1, Merge, MergeConcerns
  <2>. HIDE DEF r, m, n, k
  <2>4. row.work = r.work /\ row.rec = n /\ row.owner = r.owner /\ row.state = r.state
    BY <1>1 DEF Rows
  <2>. HIDE DEF row
  <2>5. RecoveryRow(row, trees, remote, pulls)
    BY <1>1, <1>2, <2>2, <2>3, <2>4 DEF RecoveryRow
  <2>6. OwnRow(row, remote, pulls, late)
    BY <1>1, <2>4 DEF OwnRow
  <2>7. ASSUME NEW q \in Processes, Recovering(q) PROVE session[q].work.branch = m.branch
    BY <1>2, <1>4, <2>7 DEF Truthful, OneBranch, Recovering
  <2>8. \A q \in Processes \ {p} : RowQuiet(q)
    BY <2>1, <2>3, <2>4, <2>7 DEF RowQuiet, r
  <2>. QED BY <1>4, <2>1, <2>3, <2>4, <2>5, <2>6, <2>8 DEF git, m
<1>. QED BY <1>3, <1>4

LEMMA NoteTruthful ==
    ASSUME IInv, IInv', EInv, Truthful, NEW p \in Processes, Note(p)
    PROVE  Truthful'
<1>1. Honest /\ UNCHANGED git /\ UNCHANGED late
  BY RestHonest DEF Note, faults
<1>2. session[p].phase = "noting" /\ session[p].attempt # 0 /\ ~Delivering(p)
  BY Session DEF Note, In, SessionOK, RecoveryPhases, Delivering
<1>3. CASE ~MayWrite(p)
  BY <1>1, <1>3, SettlesTruthful DEF Note, Stores
<1>4. CASE MayWrite(p)
  <2>1. task' = Saved(p) /\ Goes(p, "refreshing")
    BY <1>4 DEF Note, Stores
  <2>2. /\ RecoveryRow(task', trees', remote', pulls')
        /\ OwnRow(task', remote', pulls', late')
        /\ \A q \in Processes \ {p} : RowQuiet(q)
        /\ task'.rec.branch = Mine(p).branch
    BY <1>1, <1>2, <1>4, <2>1, SavedTruthful
  <2>3. /\ Only(p) /\ session'[p].phase = "refreshing" /\ session'[p].work = Mine(p)
        /\ session'[p].attempt = session[p].attempt
    BY <2>1, Went DEF Mine
  <2>4. Mine(p).branch # 0 /\ Concerns(Mine(p), trees, remote, pulls)
    BY <1>2, Facing DEF RecoverySession, OuterPhases
  <2>5. Recovers(p) /\ Owns(p)
    BY <1>1, <1>2, <2>2, <2>3, <2>4 DEF Recovers, Owns, RecoverySession, OwnSession, git
  <2>6. Alike(p)
    BY <1>2, <2>3, StaysAlike DEF OuterPhases
  <2>. QED BY <1>1, <2>2, <2>3, <2>5, <2>6, TruthfulStep DEF Honest
<1>. QED BY <1>3, <1>4

LEMMA RereadTruthful ==
    ASSUME IInv, IInv', EInv, Truthful, NEW p \in Processes, Reread(p)
    PROVE  Truthful'
<1>1. Honest /\ UNCHANGED git /\ UNCHANGED late
  BY RestHonest DEF Reread, faults
<1>2. session[p].phase = "rereading" /\ session[p].attempt # 0 /\ ~Delivering(p)
  BY Session DEF Reread, In, SessionOK, RecoveryPhases, Delivering
<1>3. CASE ~MayWrite(p)
  BY <1>1, <1>3, SettlesTruthful DEF Reread, Stores
<1>4. CASE MayWrite(p)
  <2>. DEFINE s == session[p]
              m == Mine(p)
              c == Saved(p).rec
              ph == IF c.tree = None THEN "allocating"
                    ELSE IF c.commit # None THEN "heading" ELSE "applying"
              k == [c EXCEPT !.base = m.base, !.branch = m.branch]
  <2>1. task' = Saved(p) /\ Becomes(p, [s EXCEPT !.phase = ph, !.work = k])
    BY <1>4 DEF Reread, Stores, Becomes
  <2>2. /\ RecoveryRow(task', trees', remote', pulls')
        /\ OwnRow(task', remote', pulls', late')
        /\ \A q \in Processes \ {p} : RowQuiet(q)
        /\ c \in Work /\ c.branch = m.branch /\ Concerns(c, trees, remote, pulls)
        /\ task'.rec = c
    BY <1>1, <1>2, <1>4, <2>1, SavedTruthful
  <2>3. s \in Sessions /\ m.branch # 0
    BY <1>2, Facing DEF RecoverySession, OuterPhases
  <2>4. session'[p] = [s EXCEPT !.phase = ph, !.work = k] /\ Only(p)
    BY <2>1, Moved
  <2>5. session'[p].attempt = s.attempt /\ session'[p].work = k /\ session'[p].phase = ph
    BY <2>3, <2>4 DEF Sessions
  <2>6. ph \in {"allocating", "heading", "applying"}
    OBVIOUS
  <2>. HIDE DEF m, c, ph
  <2>7. /\ k.tree = c.tree /\ k.commit = c.commit /\ k.branch = m.branch
        /\ k.remote = c.remote /\ k.pr = c.pr
    BY <2>2 DEF Work
  <2>. HIDE DEF k
  <2>8. Recovers(p)
    BY <1>1, <2>2, <2>3, <2>5, <2>6, <2>7 DEF Recovers, RecoverySession, Concerns, git
  <2>9. Owns(p)
    BY <1>2, <2>5 DEF Owns, OwnSession
  <2>10. Alike(p)
    BY <1>2, <2>5, <2>7, StaysAlike DEF OuterPhases, m
  <2>. QED BY <1>1, <2>2, <2>4, <2>8, <2>9, <2>10, TruthfulStep DEF Honest
<1>. QED BY <1>3, <1>4

LEMMA SaveTruthful ==
    ASSUME IInv, IInv', EInv, Truthful, NEW p \in Processes, Save(p)
    PROVE  Truthful'
<1>. DEFINE s == session[p]
            m == Mine(p)
            kn == Known(p)
            k == [m EXCEPT !.pr = kn]
<1>1. Honest /\ UNCHANGED git /\ UNCHANGED late
  BY RestHonest DEF Save, faults
<1>2. s.phase \in {"assigning", "committed", "verified", "pushed", "bound"}
  BY DEF Save
<1>3. CASE ~MayWrite(p)
  BY <1>1, <1>3, SettlesTruthful DEF Save, Stores
<1>4. CASE MayWrite(p)
  <2>1. task' = Saved(p)
        /\ Becomes(p, [s EXCEPT !.phase = After(p), !.work.pr = Known(p)])
    BY <1>4 DEF Save, Stores, Becomes
  <2>2. /\ RecoveryRow(task', trees', remote', pulls')
        /\ OwnRow(task', remote', pulls', late')
        /\ \A q \in Processes \ {p} : RowQuiet(q)
        /\ Delivering(p) => task'.work = m /\ m.branch = 0
        /\ ~Delivering(p) => task'.rec.branch = m.branch
    BY <1>1, <1>2, <1>4, <2>1, SavedTruthful
  <2>3. /\ SessionOK(s, trees, pulls) /\ s \in Sessions
        /\ s.work = m /\ m \in Work /\ (Delivering(p) <=> s.attempt = 0)
        /\ RecoverySession(s, task, trees, remote, pulls)
        /\ OwnSession(p, s, task, remote, pulls)
        /\ RecoveryRow(task, trees, remote, pulls)
        /\ s.phase \notin OuterPhases /\ m.branch # None
        /\ task.work.branch = 0
    BY <1>2, <1>4, Facing, Unfinished DEF OuterPhases, Truthful
  <2>4. session'[p] = [s EXCEPT !.phase = After(p), !.work.pr = Known(p)] /\ Only(p)
    BY <2>1, Moved
  <2>5. session'[p].phase = After(p) /\ session'[p].attempt = s.attempt /\ session'[p].work = k
    BY <2>3, <2>4 DEF Sessions
  <2>6. /\ s.phase = "assigning" => After(p) = IF s.attempt = 0 THEN "executing" ELSE "applying"
        /\ s.phase = "committed" => After(p) = "verifying"
        /\ s.phase = "verified" => After(p) = IF s.attempt = 0 THEN "heading" ELSE "pushing"
        /\ s.phase = "pushed" => After(p) = IF s.attempt = 0 THEN "checking" ELSE Onward(k)
        /\ s.phase = "bound" => After(p) = "finishing"
    BY <2>3 DEF After, In
  <2>7. /\ s.attempt = 0 => (kn <=> m.pr)
        /\ s.attempt # 0 /\ kn => m.pr \/ task.rec.pr
    BY <2>3 DEF Known
  <2>. HIDE DEF m, kn
  <2>8. /\ k.tree = m.tree /\ k.commit = m.commit /\ k.remote = m.remote
        /\ k.branch = m.branch /\ k.pr = kn
    BY <2>3 DEF Work
  <2>. HIDE DEF k, s
  <2>9. CASE s.attempt = 0
    <3>1. After(p) \in {"executing", "verifying", "heading", "checking", "finishing"}
          /\ (After(p) = "finishing" => s.phase = "bound")
      BY <1>2, <2>6, <2>9
    <3>2. Owns(p)
      BY <1>1, <2>2, <2>3, <2>5, <2>7, <2>8, <2>9, <3>1 DEF Owns, OwnSession, git
    <3>3. Alike(p) /\ Recovers(p)
      BY <2>5, <2>9 DEF Alike, Recovers, RecoverySession
    <3>. QED BY <1>1, <2>2, <2>4, <3>2, <3>3, TruthfulStep DEF Honest
  <2>10. CASE s.attempt # 0
    <3>1. /\ m.branch # 0 /\ Concerns(m, trees, remote, pulls)
          /\ s.phase = "bound" => remote[m.branch] # None /\ pulls[m.branch] # None
          /\ task.rec.branch = m.branch /\ Concerns(task.rec, trees, remote, pulls)
      BY <1>2, <2>3, <2>10 DEF RecoverySession, RecoveryRow
    <3>2. Concerns(k, trees, remote, pulls)
      BY <2>7, <2>8, <2>10, <3>1 DEF Concerns
    <3>3. /\ After(p) # "noting"
          /\ After(p) \in {"bound", "finishing"} =>
               remote[m.branch] # None /\ pulls[m.branch] # None
      BY <1>2, <2>3, <2>6, <2>8, <2>10, <3>1, <3>2 DEF Onward, Concerns, SessionOK
    <3>4. Recovers(p)
      BY <1>1, <2>2, <2>3, <2>5, <2>8, <2>10, <3>1, <3>2, <3>3
      DEF Recovers, RecoverySession, git
    <3>5. Owns(p)
      BY <2>5, <2>10 DEF Owns, OwnSession, s
    <3>6. Alike(p)
      BY <2>3, <2>5, <2>8, <2>10, StaysAlike DEF s, m
    <3>. QED BY <1>1, <2>2, <2>4, <3>4, <3>5, <3>6, TruthfulStep DEF Honest
  <2>. QED BY <2>9, <2>10
<1>. QED BY <1>3, <1>4

-----------------------------------------------------------------------------
(* Commands in a worktree and on origin *)

\* A process that goes on, perhaps with something it learned.
LEMMA AdvancesTruthful ==
    ASSUME IInv, EInv, Truthful, NEW p \in Processes, Honest, UNCHANGED task, Only(p),
           session[p].phase \notin OuterPhases \cup {"noting", "failing"},
           session'[p].phase # "noting",
           session'[p].attempt = session[p].attempt,
           session'[p].work.branch = Mine(p).branch,
           session[p].attempt # 0 =>
             /\ Concerns(session'[p].work, trees', remote', pulls')
             /\ session'[p].phase \in {"bound", "finishing"} =>
                  remote'[Mine(p).branch] # None /\ pulls'[Mine(p).branch] # None,
           session[p].attempt = 0 /\ task.work.branch = 0 =>
             /\ session'[p].phase \in RecordedPhases =>
                  session'[p].work.commit = task.work.commit
             /\ session'[p].phase = "committed" /\ task.owner = p => task.work.commit = None
             /\ session'[p].work.pr \/ session'[p].phase \in {"bound", "finishing"} =>
                  remote'[0] # None /\ pulls'[0] # None
    PROVE  Truthful'
<1>1. Alike(p)
  <2>1. session[p].attempt # 0 => Alike(p)
    BY StaysAlike
  <2>. QED BY <2>1 DEF Alike
<1>2. Recovers(p)
  <2>1. session[p].attempt # 0 => Mine(p).branch # 0 /\ task.rec.branch = Mine(p).branch
    BY Facing DEF RecoverySession
  <2>. QED BY <2>1 DEF Recovers, RecoverySession
<1>3. Owns(p)
  BY DEF Owns, OwnSession
<1>. QED BY <1>1, <1>2, <1>3, SameStands, StandsTruthful

\* Worktree t is made, or changes but for its branch.
LEMMA TreeHonest ==
    ASSUME IInv, Truthful, NEW t \in Trees, NEW x \in Worktrees,
           trees' = [trees EXCEPT ![t] = x], UNCHANGED <<remote, pulls>>,
           late' >= late, late' \in Nat,
           trees[t] # None => x.branch = trees[t].branch,
           trees[t] = None => \A u \in Trees : trees[u] # None => trees[u].branch # x.branch
    PROVE  Honest
<1>1. \A u \in Trees : trees'[u] = IF u = t THEN x ELSE trees[u]
  BY DEF IInv, WorldOK
<1>2. x # None
  BY TaskDeliveryAssumptions DEF Worktrees
<1>3. Still
  BY <1>1, <1>2 DEF Still
<1>4. late \in Nat
  BY DEF IInv, WorldOK
<1>5. Branches(trees, remote, pulls) /\ OwnRow(task, remote, pulls, late)
  BY DEF Truthful
<1>6. ASSUME NEW b \in Trees \ {0}
      PROVE  /\ remote[b] # None => OnBranch(remote[b], b, trees')
             /\ pulls[b] # None => OnBranch(pulls[b].commit, b, trees')
  <2>1. /\ remote[b] # None => remote[b] \in Commits
        /\ pulls[b] # None => pulls[b].commit \in Commits
    BY DEF IInv, WorldOK
  <2>. QED BY <1>3, <1>5, <2>1, OnBranchStill DEF Branches
<1>7. ASSUME NEW u \in Trees, NEW v \in Trees, trees'[u] # None, trees'[v] # None,
             trees'[u].branch = trees'[v].branch
      PROVE  u = v
  <2>1. CASE trees[t] = None
    BY <1>1, <1>5, <1>7, <2>1 DEF Branches
  <2>2. CASE trees[t] # None
    BY <1>1, <1>5, <1>7, <2>2 DEF Branches
  <2>. QED BY <2>1, <2>2
<1>8. Branches(trees', remote', pulls')
  BY <1>6, <1>7 DEF Branches
<1>. QED BY <1>3, <1>4, <1>5, <1>8 DEF Honest, OwnRow

LEMMA LateHonest ==
    ASSUME IInv, NEW p \in Processes, Unfenced(p) \/ UNCHANGED late
    PROVE  late' >= late /\ late' \in Nat
BY Lateness, LateTyped

LEMMA AllocateTruthful ==
    ASSUME IInv, IInv', EInv, Truthful, NEW p \in Processes, Allocate(p)
    PROVE  Truthful'
<1>. DEFINE s == session[p]
            t == s.attempt
            m == Mine(p)
            x == Built(p)
            b == base
<1>1. /\ s.phase = "allocating"
      /\ UNCHANGED <<remote, pulls, base, evidence, overlaps>>
  BY DEF Allocate, In
<1>2. /\ s \in Sessions /\ s.work = m /\ m \in Work /\ t \in Trees
      /\ m.branch # None /\ m.branch \in Trees
      /\ RecoverySession(s, task, trees, remote, pulls)
      /\ OwnSession(p, s, task, remote, pulls)
      /\ SessionOK(s, trees, pulls)
  BY <1>1, Facing DEF Sessions, Trees, OuterPhases
<1>3. CASE /\ Free(t, m.branch) /\ UNCHANGED task /\ Unfenced(p)
           /\ trees' = [trees EXCEPT ![t] = x]
           /\ session' = [session EXCEPT ![p].phase = "assigning",
                ![p].work.tree = t, ![p].work.base = base, ![p].own = @ \cup {"tree"}]
  <2>. DEFINE k == [m EXCEPT !.tree = t, !.base = b]
              n == s.own \cup {"tree"}
              z == [s EXCEPT !.phase = "assigning", !.work = k, !.own = n]
  <2>1. trees[t] = None /\ \A u \in Trees : trees[u] # None => trees[u].branch # m.branch
    BY <1>3 DEF Free
  <2>2. x \in Worktrees /\ x.branch = m.branch
    <3>1. x = [branch |-> m.branch, base |-> b, head |-> 0, dirty |-> FALSE]
      BY DEF Built
    <3>2. b \in Nat
      BY DEF IInv, WorldOK
    <3>. HIDE DEF m, b, x
    <3>. QED BY <1>2, <3>1, <3>2 DEF Worktrees
  <2>3. Honest /\ trees'[t] = x
    <3>1. late' >= late /\ late' \in Nat
      BY <1>3, LateHonest
    <3>2. trees'[t] = x
      BY <1>2, <1>3 DEF IInv, WorldOK
    <3>3. UNCHANGED <<remote, pulls>> /\ t \in Trees /\ trees' = [trees EXCEPT ![t] = x]
      BY <1>1, <1>2, <1>3
    <3>. HIDE DEF x, t, m
    <3>4. Honest
      BY <2>1, <2>2, <3>1, <3>3, TreeHonest
    <3>. QED BY <3>2, <3>4
  <2>4. Becomes(p, z)
    <3>1. [session EXCEPT ![p] = z]
          = [session EXCEPT ![p].phase = "assigning", ![p].work.tree = t,
                            ![p].work.base = base, ![p].own = @ \cup {"tree"}]
      BY <1>2 DEF IInv, Sessions
    <3>. QED BY <1>3, <3>1 DEF Becomes
  <2>5. session'[p] = z /\ Only(p)
    BY <2>4, Moved
  <2>. HIDE DEF k, n
  <2>6. /\ session'[p].phase = "assigning" /\ session'[p].attempt = s.attempt
        /\ session'[p].work = k
    BY <1>2, <2>5 DEF Sessions
  <2>7. /\ k.tree = t /\ k.commit = m.commit /\ k.branch = m.branch
        /\ k.remote = m.remote /\ k.pr = m.pr
    BY <1>2 DEF Work, k
  <2>8. s.attempt # 0 => Concerns(k, trees', remote', pulls')
    <3>1. s.attempt # 0 => Concerns(m, trees', remote', pulls')
      BY <1>1, <1>2, <2>3, ConcernsStill
      DEF RecoverySession, SessionOK, OuterPhases, Honest
    <3>. QED BY <2>2, <2>3, <2>7, <3>1 DEF Concerns
  <2>9. s.attempt = 0 /\ task.work.branch = 0 /\ m.pr => remote[0] # None /\ pulls[0] # None
    BY <1>2 DEF OwnSession
  <2>. HIDE DEF m, x, z
  <2>. QED BY <1>1, <1>3, <2>3, <2>5, <2>6, <2>7, <2>8, <2>9, AdvancesTruthful
       DEF OuterPhases, RecordedPhases, CommitPhases, m
<1>4. CASE /\ IF Delivering(p) THEN Settles(p, "FAILED_SAFE", "other")
              ELSE Ends(p) /\ UNCHANGED task
           /\ UNCHANGED <<trees, late>>
  <2>1. Honest
    BY <1>1, <1>4, RestHonest DEF git
  <2>. QED BY <1>4, <2>1, SettlesTruthful
<1>. QED BY <1>3, <1>4 DEF Allocate

LEMMA ExecuteTruthful ==
    ASSUME IInv, IInv', EInv, Truthful, NEW p \in Processes, Execute(p)
    PROVE  Truthful'
<1>. DEFINE t == Mine(p).tree
            w == trees[t]
            ph == IF Mine(p).commit = None THEN "scoping" ELSE "verifying"
<1>1. /\ session[p].phase = "executing" /\ Unfenced(p)
      /\ UNCHANGED <<remote, pulls, base, evidence, overlaps>>
  BY DEF Execute, In
<1>2. t \in Trees /\ w # None /\ w \in Worktrees
  BY <1>1, Named DEF Tree, Worktrees, TreePhases
<1>3. session[p].attempt = 0 /\ Delivering(p) /\ SessionVerified(p) /\ session[p].work = Mine(p)
  BY <1>1, Facing DEF SessionOK
<1>4. PICK d \in BOOLEAN : trees' = [trees EXCEPT ![t] = [w EXCEPT !.dirty = d]]
  BY <1>2 DEF Execute, IInv, WorldOK
<1>. DEFINE x == [w EXCEPT !.dirty = d]
<1>5. x \in Worktrees /\ x.branch = w.branch
  <2>. HIDE DEF w
  <2>. QED BY <1>2 DEF Worktrees
<1>6. Honest
  <2>1. late' >= late /\ late' \in Nat
    BY <1>1, LateHonest
  <2>. HIDE DEF x
  <2>. QED BY <1>1, <1>2, <1>4, <1>5, <2>1, TreeHonest DEF x
<1>7. CASE Stores(p, [task EXCEPT !.state = "VERIFYING"], Goes(p, ph))
  <2>1. CASE ~MayWrite(p)
    BY <1>6, <1>7, <2>1, SettlesTruthful DEF Stores
  <2>2. CASE MayWrite(p)
    <3>1. task' = [task EXCEPT !.state = "VERIFYING"] /\ Goes(p, ph) /\ task.owner = p
      BY <1>3, <1>7, <2>2 DEF Stores, MayWrite
    <3>2. Stands(p)
      BY <3>1, RowTyped DEF Rows, Stands
    <3>3. Mine(p).commit = task.work.commit
      BY <1>1, <1>3, <3>1 DEF SessionVerified, EarlyPhases
    <3>4. ph \in {"scoping", "verifying"}
      OBVIOUS
    <3>. HIDE DEF ph
    <3>. QED BY <1>1, <1>3, <1>6, <3>1, <3>2, <3>3, <3>4, GoesTruthful DEF OuterPhases
  <2>. QED BY <2>1, <2>2
<1>8. CASE Settles(p, IF task.claims < MaxAttempts THEN "READY" ELSE "FAILED_SAFE", "other")
  BY <1>6, <1>8, SettlesTruthful
<1>. QED BY <1>7, <1>8 DEF Execute

LEMMA ScopeTruthful ==
    ASSUME IInv, IInv', EInv, Truthful, NEW p \in Processes, Scope(p)
    PROVE  Truthful'
<1>1. Honest /\ session[p].phase = "scoping"
  BY RestHonest DEF Scope, faults, In
<1>2. CASE Goes(p, "committing") /\ UNCHANGED task
  BY <1>1, <1>2, SameStands, GoesTruthful DEF OuterPhases, RecordedPhases, CommitPhases
<1>3. CASE Blocks(p, "other") \/ Errs(p)
  BY <1>1, <1>3, SettlesTruthful
<1>. QED BY <1>2, <1>3 DEF Scope

LEMMA CommitTruthful ==
    ASSUME IInv, IInv', EInv, Truthful, NEW p \in Processes, Commit(p)
    PROVE  Truthful'
<1>. DEFINE s == session[p]
            m == Mine(p)
            t == m.tree
            w == trees[t]
            n == w.head + 1
            f == FALSE
            x == [w EXCEPT !.head = n, !.dirty = f]
            made == <<t, n>>
            ph == IF Delivering(p) THEN "committed" ELSE "verifying"
<1>1. /\ s.phase = "committing"
      /\ UNCHANGED <<remote, pulls, base, evidence, overlaps>>
  BY DEF Commit, In
<1>2. t \in Trees /\ w # None /\ w \in Worktrees
  BY <1>1, Named DEF Tree, Worktrees, TreePhases
<1>3. /\ SessionVerified(p) /\ s.work = m /\ m \in Work
      /\ (Delivering(p) <=> s.attempt = 0)
      /\ SessionOK(s, trees, pulls)
      /\ RecoverySession(s, task, trees, remote, pulls)
      /\ OwnSession(p, s, task, remote, pulls)
  BY Facing
<1>4. CASE /\ w.dirty /\ trees' = [trees EXCEPT ![t].head = @ + 1, ![t].dirty = FALSE]
           /\ Learns(p, "commit", made, ph) /\ Unfenced(p) /\ UNCHANGED task
  <2>1. n \in Nat \ {0} /\ f \in BOOLEAN
    BY <1>2 DEF Worktrees
  <2>2. trees' = [trees EXCEPT ![t] = x]
    BY <1>2, <1>4 DEF IInv, WorldOK
  <2>3. x \in Worktrees /\ x.branch = w.branch
    <3>. HIDE DEF w, n, f
    <3>. QED BY <1>2, <2>1 DEF Worktrees
  <2>4. Honest /\ trees'[t] # None /\ trees'[t].branch = w.branch
    <3>1. late' >= late /\ late' \in Nat
      BY <1>4, LateHonest
    <3>. HIDE DEF x, t
    <3>2. Honest
      BY <1>1, <1>2, <2>2, <2>3, <3>1, TreeHonest
    <3>. QED BY <1>2, <3>2 DEF Honest, Still
  <2>. DEFINE k == [m EXCEPT !["commit"] = made]
  <2>5. made \in Commits /\ made[1] = t /\ made[2] = n
    BY <1>2, <2>1 DEF Commits
  <2>6. "commit" \in DOMAIN Nothing /\ ph \in Phases
    BY DEF Nothing, Phases
  <2>7. ph \in {"committed", "verifying"} /\ (ph = "committed" <=> s.attempt = 0)
    BY <1>3
  <2>8. s.attempt # 0 => n = 1 /\ w.branch = m.branch
    <3>1. s.attempt # 0 => t # 0 /\ w.branch = m.branch
      BY <1>1, <1>2, <1>3, BranchTyped DEF SessionVerified, RecoverySession, Concerns, OuterPhases
    <3>2. t # 0 => w.head = 0
      BY <1>2, <1>4 DEF EInv, TreesVerified
    <3>. QED BY <3>1, <3>2
  <2>. HIDE DEF made, ph, m, n
  <2>9. /\ k \in Work /\ k.tree = m.tree /\ k.branch = m.branch /\ k.commit = made
        /\ k.remote = m.remote /\ k.pr = m.pr
    BY <1>3, <2>5 DEF Work
  <2>10. /\ Only(p) /\ session'[p].phase = ph /\ session'[p].attempt = s.attempt
         /\ session'[p].work = k
    BY <1>4, <2>6, <2>9, WentLearning DEF m
  <2>. HIDE DEF k
  <2>11. s.attempt # 0 => Concerns(k, trees', remote', pulls')
    <3>1. s.attempt # 0 => Concerns(m, trees', remote', pulls')
      BY <1>1, <1>3, <2>4, ConcernsStill DEF RecoverySession, SessionOK, OuterPhases, Honest
    <3>2. s.attempt # 0 => OnBranch(made, m.branch, trees')
      BY <2>4, <2>5, <2>8 DEF OnBranch
    <3>. QED BY <2>9, <3>1, <3>2 DEF Concerns
  <2>12. s.attempt = 0 /\ task.owner = p => task.work.commit = None
    BY <1>1, <1>3 DEF SessionVerified, EarlyPhases
  <2>13. s.attempt = 0 /\ task.work.branch = 0 /\ m.pr => remote[0] # None /\ pulls[0] # None
    BY <1>3 DEF OwnSession
  <2>. HIDE DEF w, x, t
  <2>. QED BY <1>1, <1>4, <2>4, <2>7, <2>9, <2>10, <2>11, <2>12, <2>13, AdvancesTruthful
       DEF OuterPhases, RecordedPhases, CommitPhases, m
<1>5. CASE CommandFails(p) /\ UNCHANGED <<trees, late>>
  <2>1. Honest
    BY <1>1, <1>5, RestHonest DEF git
  <2>. QED BY <1>5, <2>1, SettlesTruthful DEF CommandFails
<1>. QED BY <1>4, <1>5 DEF Commit, Tree

LEMMA ApplyTruthful ==
    ASSUME IInv, IInv', EInv, Truthful, NEW p \in Processes, Apply(p)
    PROVE  Truthful'
<1>. DEFINE t == Mine(p).tree
            w == trees[t]
            d == TRUE
            x == [w EXCEPT !.dirty = d]
<1>1. /\ session[p].phase = "applying"
      /\ UNCHANGED <<task, remote, pulls, base, evidence, overlaps>>
  BY DEF Apply, In
<1>2. t \in Trees /\ w # None /\ w \in Worktrees
  BY <1>1, Named DEF Tree, Worktrees, TreePhases
<1>3. CASE /\ trees' = [trees EXCEPT ![t].dirty = TRUE] /\ Goes(p, "committing")
           /\ Unfenced(p)
  <2>1. trees' = [trees EXCEPT ![t] = x]
    BY <1>2, <1>3 DEF IInv, WorldOK
  <2>2. x \in Worktrees /\ x.branch = w.branch
    <3>1. d \in BOOLEAN
      OBVIOUS
    <3>. HIDE DEF w, d
    <3>. QED BY <1>2, <3>1 DEF Worktrees
  <2>3. Honest
    <3>1. late' >= late /\ late' \in Nat
      BY <1>3, LateHonest
    <3>. HIDE DEF x, t
    <3>. QED BY <1>1, <1>2, <2>1, <2>2, <3>1, TreeHonest
  <2>. QED BY <1>1, <1>3, <2>3, SameStands, GoesTruthful
       DEF OuterPhases, RecordedPhases, CommitPhases
<1>4. CASE Goes(p, "failing") /\ UNCHANGED <<trees, late>>
  <2>1. Honest
    BY <1>1, <1>4, RestHonest DEF git
  <2>. QED BY <1>1, <1>4, <2>1, SameStands, GoesTruthful
       DEF OuterPhases, RecordedPhases, CommitPhases
<1>. QED BY <1>3, <1>4 DEF Apply, Tree

LEMMA VerifyTruthful ==
    ASSUME IInv, IInv', EInv, Truthful, NEW p \in Processes, Verify(p)
    PROVE  Truthful'
<1>1. session[p].phase = "verifying" /\ Honest
  BY RestHonest DEF Verify, In, faults
<1>2. (Delivering(p) <=> session[p].attempt = 0)
      /\ (session[p].attempt = 0 /\ task.work.branch = 0 => Mine(p).commit = task.work.commit)
  BY <1>1, Facing DEF OwnSession, RecordedPhases, CommitPhases
<1>3. CASE Goes(p, "verified") /\ UNCHANGED task
  BY <1>1, <1>2, <1>3, SameStands, GoesTruthful DEF OuterPhases
<1>4. CASE Goes(p, "failing") /\ UNCHANGED task /\ ~Delivering(p)
  BY <1>1, <1>2, <1>4, SameStands, GoesTruthful DEF OuterPhases
<1>5. CASE Blocks(p, "other")
  BY <1>1, <1>5, SettlesTruthful
<1>. QED BY <1>3, <1>4, <1>5 DEF Verify

LEMMA RequireHeadTruthful ==
    ASSUME IInv, IInv', EInv, Truthful, NEW p \in Processes, RequireHead(p)
    PROVE  Truthful'
<1>. DEFINE ph == IF Delivering(p) THEN "pushing" ELSE Onward(Mine(p))
<1>1. Honest /\ session[p].phase = "heading"
  BY RestHonest DEF RequireHead, faults, In
<1>2. CASE Goes(p, ph) /\ UNCHANGED task
  <2>1. /\ (Delivering(p) <=> session[p].attempt = 0)
        /\ session[p].attempt = 0 /\ task.work.branch = 0 => Mine(p).commit = task.work.commit
        /\ session[p].attempt # 0 => Concerns(Mine(p), trees, remote, pulls)
    BY <1>1, Facing DEF OwnSession, RecoverySession, RecordedPhases, CommitPhases, OuterPhases
  <2>2. /\ ph \in {"pushing", "finishing", "opening"}
        /\ session[p].attempt = 0 => ph = "pushing"
        /\ session[p].attempt # 0 /\ ph = "finishing" =>
             remote[Mine(p).branch] # None /\ pulls[Mine(p).branch] # None
    BY <2>1 DEF Onward, Concerns
  <2>. HIDE DEF ph
  <2>. QED BY <1>1, <1>2, <2>1, <2>2, SameStands, GoesTruthful DEF OuterPhases
<1>3. CASE Errs(p)
  BY <1>1, <1>3, SettlesTruthful
<1>. QED BY <1>2, <1>3 DEF RequireHead

LEMMA CheckBaseTruthful ==
    ASSUME IInv, IInv', EInv, Truthful, NEW p \in Processes, CheckBase(p)
    PROVE  Truthful'
<1>1. Honest /\ session[p].phase = "checking" /\ UNCHANGED task /\ base \in Nat
  BY RestHonest DEF CheckBase, faults, In, IInv, WorldOK
<1>2. session[p].attempt = 0 /\ task.work.branch = 0 => Mine(p).commit = task.work.commit
  BY <1>1, Facing DEF OwnSession, RecordedPhases, CommitPhases
<1>3. CASE Goes(p, "opening")
  BY <1>1, <1>2, <1>3, SameStands, GoesTruthful DEF OuterPhases
<1>4. CASE Drifts(p, base)
  BY <1>1, <1>4, SameStands, OuterTruthful
<1>. QED BY <1>3, <1>4 DEF CheckBase

\* What a push sends is a commit of the worktree; of a recovery's, its only one.
LEMMA HeadOnBranch ==
    ASSUME IInv, EInv, Truthful, NEW p \in Processes, session[p].phase = "pushing"
    PROVE  /\ Head(p) \in Commits
           /\ ~Delivering(p) => OnBranch(Head(p), Mine(p).branch, trees)
<1>. DEFINE c == Mine(p).commit
            t == Mine(p).tree
<1>1. /\ SessionOK(session[p], trees, pulls) /\ SessionVerified(p)
      /\ session[p].work = Mine(p) /\ Mine(p) \in Work
      /\ (Delivering(p) <=> session[p].attempt = 0)
      /\ RecoverySession(session[p], task, trees, remote, pulls)
      /\ t \in Trees /\ trees[t] \in Worktrees /\ trees[t] # None
  BY Facing, Named DEF TreePhases, Worktrees, Tree
<1>2. c \in Commits /\ c[1] = t /\ trees[t].head >= c[2]
  BY <1>1 DEF SessionOK, CommitPhases, Work, Exists
<1>3. trees[t].head \in Nat \ {0}
  BY <1>1, <1>2, CommitTyped DEF Worktrees
<1>4. ~Delivering(p) => trees[t].head <= 1 /\ trees[t].branch = Mine(p).branch
  BY <1>1, <1>2, CommitTyped
  DEF SessionVerified, RecoverySession, Concerns, OnBranch, OuterPhases, EInv, TreesVerified
<1>. QED BY <1>1, <1>3, <1>4 DEF Head, Tree, Commits, OnBranch

LEMMA PushTruthful ==
    ASSUME IInv, IInv', EInv, Truthful, NEW p \in Processes, Push(p)
    PROVE  Truthful'
<1>. DEFINE h == Head(p)
            m == Mine(p)
            b == m.branch
            s == session[p]
<1>1. /\ s.phase = "pushing" /\ Unfenced(p)
      /\ UNCHANGED <<trees, pulls, base, evidence, overlaps>>
      /\ remote' \in {remote, [remote EXCEPT ![b] = h]}
  BY DEF Push, In
<1>2. /\ late' >= late /\ late \in Nat /\ late' \in Nat
  BY <1>1, LateHonest DEF IInv, WorldOK
<1>3. /\ s.work = m /\ m \in Work /\ SessionOK(s, trees, pulls)
      /\ (Delivering(p) <=> s.attempt = 0)
      /\ RecoverySession(s, task, trees, remote, pulls)
      /\ OwnSession(p, s, task, remote, pulls)
      /\ b \in Trees /\ b # None /\ (Delivering(p) => b = 0)
  BY <1>1, Facing DEF OuterPhases
<1>4. h \in Commits /\ h # None /\ (~Delivering(p) => OnBranch(h, b, trees))
  BY <1>1, HeadOnBranch, CommitTyped
<1>5. s.attempt # 0 => b # 0
  BY <1>1, <1>3 DEF RecoverySession, OuterPhases
<1>6. s.attempt = 0 /\ task.work.branch = 0 => m.commit = task.work.commit
  BY <1>1, <1>3 DEF OwnSession, RecordedPhases, CommitPhases
<1>7. late' <= 1 => h = m.commit
  BY <1>1, HeadVerified
<1>8. Honest
  <2>1. remote \in [Trees -> Commits \cup {None}] /\ 0 \in Trees
    BY DEF IInv, WorldOK, Trees, MaxReconciliations
  <2>2. Branches(trees, remote, pulls) /\ OwnRow(task, remote, pulls, late)
    BY DEF Truthful
  <2>. HIDE DEF h, b, m, s
  <2>3. \A c \in Trees : remote'[c] = remote[c] \/ (c = b /\ remote'[c] = h)
    BY <1>1, <2>1
  <2>4. Still
    BY <1>1, <1>4, <2>3 DEF Still
  <2>5. Branches(trees', remote', pulls')
    BY <1>1, <1>3, <1>4, <1>5, <2>2, <2>3 DEF Branches
  <2>6. task.work.branch = 0 /\ remote'[0] # None /\ late' <= 1 => remote'[0] = task.work.commit
    BY <1>2, <1>3, <1>5, <1>6, <1>7, <2>1, <2>2, <2>3 DEF OwnRow
  <2>7. task.work.branch = 0 /\ pulls'[0] # None => pulls'[0].commit = task.work.commit
    BY <1>1, <2>2 DEF OwnRow
  <2>. QED BY <1>2, <2>4, <2>5, <2>6, <2>7 DEF Honest
<1>9. CASE /\ remote' = [remote EXCEPT ![b] = h]
           /\ Learns(p, "remote", h, "pushed") /\ UNCHANGED task
  <2>. DEFINE k == [m EXCEPT !["remote"] = h]
  <2>1. "remote" \in DOMAIN Nothing /\ "pushed" \in Phases
    BY DEF Nothing, Phases
  <2>2. remote'[b] = h
    BY <1>3, <1>9 DEF IInv, WorldOK
  <2>. HIDE DEF h, m
  <2>3. /\ k \in Work /\ k.tree = m.tree /\ k.commit = m.commit /\ k.branch = b /\ k.pr = m.pr
    BY <1>3, <1>4 DEF Work
  <2>4. /\ Only(p) /\ session'[p].phase = "pushed" /\ session'[p].work = k
        /\ session'[p].attempt = s.attempt
    BY <1>9, <2>1, <2>3, WentLearning DEF m
  <2>. HIDE DEF k
  <2>5. s.attempt # 0 => Concerns(k, trees', remote', pulls')
    <3>1. s.attempt # 0 => Concerns(m, trees', remote', pulls')
      BY <1>1, <1>3, <1>8, ConcernsStill DEF RecoverySession, SessionOK, OuterPhases, Honest
    <3>. QED BY <1>4, <2>2, <2>3, <3>1 DEF Concerns
  <2>6. s.attempt = 0 /\ task.work.branch = 0 /\ k.pr => remote'[0] # None /\ pulls'[0] # None
    <3>1. 0 \in Trees
      BY DEF Trees, MaxReconciliations
    <3>. QED BY <1>3, <1>8, <2>3, <3>1 DEF OwnSession, Honest, Still
  <2>. QED BY <1>1, <1>6, <1>8, <1>9, <2>3, <2>4, <2>5, <2>6, AdvancesTruthful
       DEF OuterPhases, m
<1>10. CASE CommandFails(p)
  BY <1>8, <1>10, SettlesTruthful DEF CommandFails
<1>. QED BY <1>9, <1>10 DEF Push

LEMMA OpenTruthful ==
    ASSUME IInv, IInv', EInv, Truthful, NEW p \in Processes, Open(p)
    PROVE  Truthful'
<1>. DEFINE m == Mine(p)
            b == m.branch
            s == session[p]
            new == [commit |-> m.commit, base |-> m.base, opened |-> base]
<1>1. /\ s.phase = "opening"
      /\ UNCHANGED <<trees, remote, base, evidence, overlaps>>
      /\ Unfenced(p) \/ UNCHANGED late
      /\ pulls' \in {pulls, Opened(p)}
  BY DEF Open, In
<1>2. /\ late' >= late /\ late \in Nat /\ late' \in Nat
  BY <1>1, LateHonest DEF IInv, WorldOK
<1>3. /\ s.work = m /\ m \in Work /\ SessionOK(s, trees, pulls)
      /\ (Delivering(p) <=> s.attempt = 0)
      /\ RecoverySession(s, task, trees, remote, pulls)
      /\ OwnSession(p, s, task, remote, pulls)
      /\ b \in Trees /\ b # None /\ (Delivering(p) => b = 0)
  BY <1>1, Facing DEF OuterPhases
<1>4. m.commit # None
  BY <1>1, <1>3 DEF SessionOK, CommitPhases
<1>5. s.attempt # 0 => b # 0 /\ OnBranch(m.commit, b, trees)
  BY <1>1, <1>3, <1>4 DEF RecoverySession, Concerns, OuterPhases
<1>6. s.attempt = 0 /\ task.work.branch = 0 => m.commit = task.work.commit
  BY <1>1, <1>3 DEF OwnSession, RecordedPhases, CommitPhases
<1>7. Honest
  <2>1. 0 \in Trees /\ new.commit = m.commit
    BY DEF Trees, MaxReconciliations
  <2>2. Branches(trees, remote, pulls) /\ OwnRow(task, remote, pulls, late)
    BY DEF Truthful
  <2>3. \A c \in Trees : pulls'[c] = pulls[c] \/ (c = b /\ pulls[c] = None /\ pulls'[c] = new)
    <3>1. pulls \in [Trees -> [commit : Commits, base : Nat, opened : Nat] \cup {None}]
      BY DEF IInv, WorldOK
    <3>. HIDE DEF m
    <3>. QED BY <1>1, <3>1 DEF Opened, m
  <2>. HIDE DEF new, b, m, s
  <2>4. Still
    BY <1>1, <2>3 DEF Still
  <2>5. Branches(trees', remote', pulls')
    BY <1>1, <1>3, <1>5, <2>1, <2>2, <2>3 DEF Branches
  <2>6. task.work.branch = 0 /\ pulls'[0] # None => pulls'[0].commit = task.work.commit
    BY <1>3, <1>5, <1>6, <2>1, <2>2, <2>3 DEF OwnRow
  <2>7. task.work.branch = 0 /\ remote'[0] # None /\ late' <= 1 => remote'[0] = task.work.commit
    BY <1>1, <1>2, <2>2 DEF OwnRow
  <2>. QED BY <1>2, <2>4, <2>5, <2>6, <2>7 DEF Honest
<1>8. CASE Goes(p, "binding") /\ UNCHANGED task
  BY <1>1, <1>6, <1>7, <1>8, SameStands, GoesTruthful DEF OuterPhases
<1>9. CASE CommandFails(p) \/ Blocks(p, "delivery") \/ (Ends(p) /\ UNCHANGED task)
  BY <1>7, <1>9, SettlesTruthful DEF CommandFails
<1>. QED BY <1>8, <1>9 DEF Open

LEMMA BindTruthful ==
    ASSUME IInv, IInv', EInv, Truthful, NEW p \in Processes, Bind(p)
    PROVE  Truthful'
<1>. DEFINE m == Mine(p)
            s == session[p]
            pull == pulls[m.branch]
<1>1. s.phase = "binding" /\ Honest /\ UNCHANGED git
  BY RestHonest DEF Bind, In, faults
<1>2. /\ s.work = m /\ m \in Work /\ SessionOK(s, trees, pulls)
      /\ (Delivering(p) <=> s.attempt = 0)
      /\ RecoverySession(s, task, trees, remote, pulls)
      /\ OwnSession(p, s, task, remote, pulls)
      /\ m.branch \in Trees /\ m.branch # None /\ (Delivering(p) => m.branch = 0)
  BY <1>1, Facing DEF OuterPhases
<1>3. m.commit # None /\ pull # None /\ pull.opened \in Nat /\ base \in Nat
  BY <1>1, <1>2 DEF SessionOK, CommitPhases, IInv, WorldOK
<1>4. s.attempt = 0 /\ task.work.branch = 0 => m.commit = task.work.commit
  BY <1>1, <1>2 DEF OwnSession, RecordedPhases, CommitPhases
<1>5. CASE Errs(p)
  BY <1>1, <1>5, SettlesTruthful
<1>6. CASE /\ remote[m.branch] = m.commit
           /\ \E oid \in {pull.opened, base} :
                IF oid = m.base THEN Learns(p, "pr", TRUE, "bound") ELSE Drifts(p, oid)
           /\ UNCHANGED task
  <2>1. PICK oid \in Nat :
               IF oid = m.base THEN Learns(p, "pr", TRUE, "bound") ELSE Drifts(p, oid)
    BY <1>3, <1>6
  <2>2. CASE Drifts(p, oid)
    BY <1>1, <1>6, <2>2, SameStands, OuterTruthful
  <2>3. CASE Learns(p, "pr", TRUE, "bound")
    <3>. DEFINE v == TRUE
                k == [m EXCEPT !["pr"] = v]
    <3>1. "pr" \in DOMAIN Nothing /\ "bound" \in Phases
      BY DEF Nothing, Phases
    <3>2. remote'[m.branch] # None /\ pulls'[m.branch] # None
      BY <1>1, <1>3, <1>6 DEF git
    <3>. HIDE DEF m
    <3>3. /\ k \in Work /\ k.tree = m.tree /\ k.commit = m.commit /\ k.branch = m.branch
          /\ k.remote = m.remote
      BY <1>2 DEF Work
    <3>4. Learns(p, "pr", v, "bound")
      BY <2>3
    <3>. HIDE DEF v
    <3>5. /\ Only(p) /\ session'[p].phase = "bound" /\ session'[p].work = k
          /\ session'[p].attempt = s.attempt
      BY <3>1, <3>3, <3>4, WentLearning DEF m
    <3>. HIDE DEF k
    <3>6. s.attempt # 0 => Concerns(k, trees', remote', pulls')
      <4>1. s.attempt # 0 => Concerns(m, trees', remote', pulls')
        BY <1>1, <1>2, ConcernsStill DEF RecoverySession, SessionOK, OuterPhases, Honest
      <4>. QED BY <3>2, <3>3, <4>1 DEF Concerns
    <3>. QED BY <1>1, <1>2, <1>4, <1>6, <3>2, <3>3, <3>5, <3>6, AdvancesTruthful
         DEF OuterPhases, m
  <2>. QED BY <2>1, <2>2, <2>3
<1>. QED BY <1>5, <1>6 DEF Bind

-----------------------------------------------------------------------------
(* The second theorem *)

LEMMA RemoteInit ==
    ASSUME Init
    PROVE  RInv
<1>. DEFINE k == [Nothing EXCEPT !.branch = 0]
<1>1. k.branch = 0 /\ ~k.pr
  BY DEF Nothing
<1>2. task.work = k /\ task.rec = Nothing /\ task.state = "READY"
  BY DEF Init
<1>3. /\ Nothing.branch = None /\ Nothing.tree = None /\ Nothing.commit = None
      /\ Nothing.remote = None /\ ~Nothing.pr /\ None # 0
  BY TaskDeliveryAssumptions DEF Nothing
<1>4. (\A t \in Trees : trees[t] = None /\ remote[t] = None /\ pulls[t] = None) /\ 0 \in Trees
  BY DEF Init, Trees, MaxReconciliations
<1>. HIDE DEF k
<1>5. Branches(trees, remote, pulls)
  BY <1>4 DEF Branches
<1>6. RecoveryRow(task, trees, remote, pulls) /\ OwnRow(task, remote, pulls, late)
  BY <1>1, <1>2, <1>3, <1>4 DEF RecoveryRow, OwnRow
<1>7. ASSUME NEW p \in Processes
      PROVE  /\ session[p].attempt = 0
             /\ RecoverySession(session[p], task, trees, remote, pulls)
             /\ OwnSession(p, session[p], task, remote, pulls)
  BY <1>3, IdleTyped
  DEF Init, RecoverySession, OwnSession, RecordedPhases, CommitPhases
<1>. QED BY <1>5, <1>6, <1>7 DEF RInv, Truthful, OneBranch, Recovering

\* Attempts are never taken back.
LEMMA AttemptsGrow ==
    ASSUME IInv, [Next]_vars
    PROVE  task'.attempts >= task.attempts
<1>1. task \in Rows /\ task.attempts \in Nat
  BY RowTyped
<1>2. UNCHANGED task => task'.attempts >= task.attempts
  BY <1>1
<1>3. ASSUME NEW st, NEW f, task' = Unleased(st, f) PROVE task'.attempts >= task.attempts
  BY <1>1, <1>3 DEF Unleased, Rows
<1>4. ASSUME NEW p, task' = Saved(p) PROVE task'.attempts >= task.attempts
  BY <1>1, <1>4 DEF Saved, Rows
<1>5. ASSUME NEW p, task' = Started(p) PROVE task'.attempts >= task.attempts
  BY <1>1, <1>5 DEF Started, Rows
<1>6. ASSUME NEW p \in Processes, Finish(p) PROVE task'.attempts >= task.attempts
  <2>1. CASE MayWrite(p) /\ ~Delivering(p)
    <3>1. RowMoves(task')
      BY <1>6, <2>1, FinishedMoves DEF Finish, Stores
    <3>. QED BY <3>1 DEF RowMoves
  <2>2. CASE ~MayWrite(p) \/ Delivering(p)
    BY <1>2, <1>3, <1>6, <2>2 DEF Finish, Stores
  <2>. QED BY <2>1, <2>2
<1>7. ASSUME NEW p \in Processes, Retry(p) PROVE task'.attempts >= task.attempts
  <2>1. CASE MayWrite(p) /\ task.attempts < MaxReconciliations
    <3>1. RowMoves(task')
      BY <1>7, <2>1, RetriedMoves DEF Retry, Stores
    <3>. QED BY <3>1 DEF RowMoves
  <2>2. CASE ~MayWrite(p) \/ ~(task.attempts < MaxReconciliations)
    BY <1>2, <1>3, <1>7, <2>2 DEF Retry, Stores, Unrecovered
  <2>. QED BY <2>1, <2>2
<1>8. ASSUME NEW p, Execute(p) PROVE task'.attempts >= task.attempts
  BY <1>1, <1>2, <1>3, <1>8 DEF Execute, Stores, Settles, Rows
<1>9. ASSUME NEW p, Claim(p) PROVE task'.attempts >= task.attempts
  BY <1>1, <1>9 DEF Claim, Rows
<1>10. ASSUME NEW p, Errs(p) \/ CommandFails(p) \/ (\E f : Blocks(p, f))
                     \/ \E st, f : Settles(p, st, f)
       PROVE  task'.attempts >= task.attempts
  BY <1>2, <1>3, <1>10 DEF Errs, CommandFails, Blocks, Settles, Stores
<1>11. ASSUME NEW p, Scope(p) \/ Commit(p) \/ Verify(p) \/ RequireHead(p) \/ Push(p)
                     \/ Open(p) \/ Bind(p) \/ Allocate(p)
       PROVE  task'.attempts >= task.attempts
  BY <1>2, <1>10, <1>11
  DEF Scope, Commit, Verify, RequireHead, Push, Open, Bind, Allocate
<1>12. ASSUME NEW p, Save(p) \/ Note(p) \/ Reread(p) \/ Fail(p) \/ Start(p)
       PROVE  task'.attempts >= task.attempts
  BY <1>2, <1>3, <1>4, <1>5, <1>12
  DEF Save, Note, Reread, Fail, Start, Stores, Unrecovered
<1>13. Reap \/ ReapAlive \/ MoveBase => task'.attempts >= task.attempts
  BY <1>2, <1>3 DEF Reap, ReapAlive, MoveBase
<1>14. ASSUME NEW p \in Processes, Step(p) PROVE task'.attempts >= task.attempts
  BY <1>2, <1>6, <1>7, <1>8, <1>11, <1>12, <1>14 DEF Step, CheckBase, Enter, Refresh, Apply
<1>. QED BY <1>2, <1>9, <1>13, <1>14 DEF Next, Command, Crash, vars

\* Recoveries that met are counted for good.
LEMMA OverlapsGrow ==
    ASSUME IInv, [Next]_vars
    PROVE  overlaps' >= overlaps
<1>1. overlaps \in Nat
  BY DEF IInv, WorldOK
<1>2. UNCHANGED overlaps => overlaps' >= overlaps
  BY <1>1
<1>3. ASSUME NEW p \in Processes, Enter(p) PROVE overlaps' >= overlaps
  BY <1>1, <1>3 DEF Enter
<1>4. ASSUME NEW p \in Processes, Step(p) PROVE overlaps' >= overlaps
  BY <1>2, <1>3, <1>4
  DEF Step, Save, Allocate, Execute, Scope, Commit, Verify, RequireHead, Push, CheckBase,
      Open, Bind, Finish, Start, Retry, Fail, Note, Refresh, Reread, Apply, faults
<1>. QED BY <1>2, <1>4 DEF Next, Claim, Command, Crash, Reap, ReapAlive, MoveBase, vars, faults

LEMMA AttemptsStayApart ==
    ASSUME IInv, IInv', [Next]_vars, OneAttemptAtATime'
    PROVE  OneAttemptAtATime
<1>1. overlaps' >= overlaps /\ task'.attempts >= task.attempts
  BY OverlapsGrow, AttemptsGrow
<1>2. /\ overlaps \in Nat /\ overlaps' \in Nat
      /\ task.attempts \in Nat /\ task'.attempts \in Nat
  BY RowTyped DEF IInv, WorldOK, RowOK, Rows, MaxReconciliations
<1>. QED BY <1>1, <1>2 DEF OneAttemptAtATime

LEMMA RemotePreserved ==
    ASSUME IInv, IInv', EInv, RInv, [Next]_vars
    PROVE  RInv'
<1>. SUFFICES ASSUME OneAttemptAtATime' PROVE Truthful'
  BY DEF RInv
<1>1. Truthful
  BY AttemptsStayApart DEF RInv
<1>8. ASSUME NEW p \in Processes, Enter(p) PROVE Truthful'
  <2>1. overlaps' = 0 \/ task.attempts <= 1
    BY <1>8 DEF OneAttemptAtATime, Enter
  <2>. QED BY <1>1, <1>8, <2>1, EnterTruthful
<1>2. ASSUME NEW p \in Workers, Claim(p) PROVE Truthful'
  BY <1>1, <1>2, ClaimTruthful
<1>3. ASSUME NEW o \in Operators, Command(o) PROVE Truthful'
  BY <1>1, <1>3, CommandTruthful
<1>4. ASSUME NEW p \in Processes, Step(p) PROVE Truthful'
  BY <1>1, <1>4, <1>8, SaveTruthful, AllocateTruthful, ExecuteTruthful, ScopeTruthful,
     CommitTruthful, VerifyTruthful, RequireHeadTruthful, PushTruthful, CheckBaseTruthful,
     OpenTruthful, BindTruthful, FinishTruthful, StartTruthful, FailTruthful,
     NoteTruthful, RefreshTruthful, RereadTruthful, ApplyTruthful DEF Step
<1>5. ASSUME NEW p \in Processes, Crash(p) PROVE Truthful'
  BY <1>1, <1>5, CrashTruthful
<1>6. CASE Reap \/ ReapAlive \/ MoveBase
  BY <1>1, <1>6, ReapTruthful
<1>7. CASE UNCHANGED vars
  <2>1. UNCHANGED <<session, git, late, task>> /\ Stands(None)
    BY <1>7, SameStands DEF vars, git
  <2>. QED BY <1>1, <2>1, RestTruthful
<1>. QED BY <1>2, <1>3, <1>4, <1>5, <1>6, <1>7 DEF Next

\* What is on record of a task and of its recoveries is what origin has.
LEMMA OfferedIsThere ==
    ASSUME IInv, RInv
    PROVE  ReviewableIsOnRemote
<1>. SUFFICES ASSUME task.state = "PR_READY", late <= 1, OneAttemptAtATime
              PROVE  /\ task.work.commit # None
                     /\ remote[task.work.branch] = task.work.commit
                     /\ pulls[task.work.branch] # None
                     /\ pulls[task.work.branch].commit = task.work.commit
  BY DEF ReviewableIsOnRemote, AtMostOneLate
<1>. DEFINE b == task.work.branch
            c == task.work.commit
<1>1. /\ Branches(trees, remote, pulls) /\ RecoveryRow(task, trees, remote, pulls)
      /\ OwnRow(task, remote, pulls, late)
  BY DEF RInv, Truthful
<1>2. b \in Trees /\ c \in Commits \cup {None}
  BY RowTyped DEF IInv, RowOK, Work
<1>3. CASE b = 0
  BY <1>1, <1>3 DEF OwnRow
<1>4. CASE b # 0
  <2>1. c # None /\ OnBranch(c, b, trees) /\ remote[b] # None /\ pulls[b] # None
    BY <1>1, <1>4 DEF RecoveryRow
  <2>2. remote[b] \in Commits /\ pulls[b].commit \in Commits
    BY <1>2, <2>1 DEF IInv, WorldOK
  <2>3. OnBranch(remote[b], b, trees) /\ OnBranch(pulls[b].commit, b, trees)
    BY <1>1, <1>2, <1>4, <2>1 DEF Branches
  <2>4. ASSUME NEW x \in Commits, OnBranch(x, b, trees) PROVE x = c
    BY <1>1, <1>2, <2>1, <2>4, CommitTyped DEF Branches, OnBranch
  <2>. QED BY <2>1, <2>2, <2>3, <2>4
<1>. QED BY <1>3, <1>4

\* The third invariant: while recoveries of two attempts never met, the row and the
\* sessions know one branch, one commit and what of it is on origin.
THEOREM RemoteInvariance == Spec => []RInv
<1>1. Init => RInv
  BY RemoteInit
<1>2. IInv /\ IInv' /\ EInv /\ RInv /\ [Next]_vars => RInv'
  BY RemotePreserved
<1>. QED BY <1>1, <1>2, RecoveryInvariance, EvidenceInvariance, PTL DEF Spec

\* A task that is offered for review has its recorded commit on the recorded
\* branch of origin and in that branch's pull request, as long as at most one command
\* was late and recoveries of two attempts never met: for any number of workers,
\* operators, joins of the first attempt, claims, crashes and moves of the base.
THEOREM ReviewableRemote == Spec => []ReviewableIsOnRemote
<1>1. IInv /\ RInv => ReviewableIsOnRemote
  BY OfferedIsThere
<1>. QED BY <1>1, RecoveryInvariance, RemoteInvariance, PTL
=============================================================================
