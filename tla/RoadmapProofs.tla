--------------------------- MODULE RoadmapProofs ---------------------------
(***************************************************************************)
(* Theorems about admission to the queue, for every roadmap, any number of *)
(* loops, pools and operators, any number of tasks and of crashes.         *)
(*                                                                         *)
(* The inductive invariant says of the stores that a settled dependency    *)
(* stands behind every item that is marked completed and every item that   *)
(* has a task, and of every process that what it read before is still so:  *)
(* a link, the item of a task and a settled dependency are never undone    *)
(* (Stable).  So a step is looked at for the process that takes it, with   *)
(* the stores as they were (Fits), and for the store it writes.            *)
(***************************************************************************)
EXTENDS RoadmapProperties, FiniteSetTheorems, WellFoundedInduction, TLAPS

Locals ==
    [selecting : BOOLEAN, todo : SUBSET Items, seen : [Items -> Entries],
     soft : BOOLEAN, barred : SUBSET Items, found : SUBSET Items,
     item : Items \cup {None}, worker : Builders \cup {None},
     row : Rows \cup {None}, outcome : States \cup Statuses \cup {None}]
Sessions == [at : Places, plan : SUBSET Items, locals : Locals]
TaskRecords ==
    [state : States \cup {"ABSENT"}, item : Items \cup {None},
     worker : Builders \cup {None}, owner : Actors \cup {None}, runs : Nat,
     pr : BOOLEAN, recovered : BOOLEAN, merged : BOOLEAN]

\* r is done with: what depends on its item may go on, now and for good.
Settled(r) ==
    \/ tasks[r].state = "COMPLETED"
    \/ tasks[r].state = "CEO_REVIEW" /\ (tasks[r].merged \/ tasks[r].item \in ReadOnly)
Done(d) == \E r \in TasksOf(d) : Settled(r)
Met(i) == \A d \in DependsOn[i] : Done(d)

RowSound(r) ==
    /\ tasks[r].state \in Running <=> tasks[r].owner \in Processes
    /\ tasks[r].state \in Running \/ tasks[r].owner = None
    /\ tasks[r].item # None => Exists(r)
    /\ tasks[r].state = "DELIVERY_RECONCILING" => tasks[r].recovered
    /\ tasks[r].state = "COMPLETED" => tasks[r].merged \/ tasks[r].item \in ReadOnly

TasksSound ==
    /\ tasks \in [Rows -> TaskRecords]
    /\ \A r \in Rows : RowSound(r)
    /\ \A r \in Rows : Exists(r) => \A x \in 1..r : Exists(x)
    /\ \A r, x \in Rows : tasks[r].item = tasks[x].item /\ tasks[r].item # None => r = x
    /\ \A i \in Items : TasksOf(i) # {} => Met(i)

RoadmapSound ==
    /\ roadmap \in [Items -> Entries]
    /\ \A i \in Items : Linked(i) => roadmap[i].task \in TasksOf(i) /\ roadmap[i].status # "ABSENT"
    /\ \A i \in Items : roadmap[i].status = "COMPLETED" => Done(i)

StoresSound ==
    /\ TasksSound /\ RoadmapSound
    /\ config \subseteq Items
    /\ paused \in BOOLEAN /\ draining \in BOOLEAN

\* What a process may rely on: the snapshot it took, the candidates it found,
\* the item it is about to write.
Fits(p, at, l) ==
    /\ p \in Submitters => at \in {"down", "counting", "creating"} /\ l.item = None
    /\ p \in Processes /\ at \in {"reflecting", "reviving", "revived", "finding", "counting",
                                  "creating", "linking"} => l.item \in Items
    /\ at \in {"refreshing", "reflecting"} => \A i \in l.todo : Linked(i)
    /\ at = "reflecting" => l.outcome \in Statuses /\ (l.outcome = "COMPLETED" => Done(l.item))
    /\ \A d \in Items : l.seen[d].status = "COMPLETED" => Done(d)
    /\ \A i \in l.found : Met(i)
    /\ at \in {"finding", "counting", "creating"} /\ l.item # None => Met(l.item)
    /\ at \in {"linking", "working"} => l.row \in Rows
    /\ at = "linking" => tasks[l.row].item = l.item

Sound(p) == Fits(p, session[p].at, My(p))

IInv ==
    /\ StoresSound
    /\ session \in [Actors -> Sessions]
    /\ \A p \in Actors : Sound(p)

-----------------------------------------------------------------------------
(* Operators *)

\* A rank with natural numbers has a least element.
LEMMA Least ==
    ASSUME NEW S, NEW f \in [S -> Nat], NEW T \in SUBSET S, T # {}
    PROVE  \E x \in T : \A y \in T : f[x] <= f[y]
<1> DEFINE ranks == {f[x] : x \in T}
<1>1. ranks \subseteq Nat /\ ranks # {}
  OBVIOUS
<1>2. PICK n \in ranks : \A m \in ranks : ~(<<m, n>> \in OpToRel(<, Nat))
  BY <1>1, NatLessThanWellFounded, WFMin
<1>3. \A m, k \in Nat : m < k => <<m, k>> \in OpToRel(<, Nat)
  BY ONLY Zenon DEF OpToRel
<1>4. \A m \in ranks : n <= m
  <2>1. \A m \in ranks : ~(m < n)
    BY <1>1, <1>2, <1>3
  <2> QED
    BY <1>1, <2>1
<1> QED
  BY <1>2, <1>4

\* The item a loop takes up is one it was offered.
LEMMA FirstIsOne ==
    ASSUME NEW S \in SUBSET Items, S # {}
    PROVE  First(S) \in S
<1>1. Rank \in [Items -> Nat]
  BY RoadmapAssumptions
<1>2. \E i \in S : \A j \in S : Rank[i] <= Rank[j]
  BY <1>1, Least
<1> QED
  BY <1>2 DEF First

\* A pool that finds a builder finds a registered one.
LEMMA WorkerTyped ==
    ASSUME NEW p \in Processes, NEW i \in Items
    PROVE  WorkerFor(p, i) \in Builders \cup {None}
<1>1. /\ Preferred \in [Builders -> Nat]
      /\ BuilderOf \in [Items -> Builders]
      /\ Serves \in [Loops -> Builders]
      /\ FreeBuilders \subseteq Builders
  BY RoadmapAssumptions DEF FreeBuilders
<1>2. FreeBuilders # {} =>
        \E b \in FreeBuilders : \A c \in FreeBuilders : Preferred[b] <= Preferred[c]
  BY <1>1, Least
<1> QED
  BY <1>1, <1>2 DEF WorkerFor

LEMMA RowsFinite == MaxTasks \in Nat /\ \A S \in SUBSET Rows : IsFiniteSet(S)
<1>1. MaxTasks \in Nat
  BY RoadmapAssumptions
<1>2. IsFiniteSet(1..MaxTasks)
  BY <1>1, FS_Interval
<1> QED
  BY <1>1, <1>2, FS_Subset DEF Rows

\* The row the next task gets is the first that is free.
LEMMA NextRow ==
    ASSUME StoresSound, NEW r \in Rows, r - 1 = Cardinality({x \in Rows : Exists(x)})
    PROVE  ~Exists(r) /\ \A x \in 1..r : x # r => Exists(x)
<1> DEFINE E == {x \in Rows : Exists(x)}
<1>1. /\ r \in Nat /\ 1 <= r /\ r <= MaxTasks /\ MaxTasks \in Nat
      /\ IsFiniteSet(E)
      /\ \A y \in E : \A x \in 1..y : x \in E
  <2>1. \A y \in E : \A x \in 1..y : x \in Rows
    BY RowsFinite DEF Rows
  <2> QED
    BY <2>1, RowsFinite DEF Rows, StoresSound, TasksSound
<1> HIDE DEF E
<1>2. r \notin E
  <2> SUFFICES ASSUME r \in E PROVE FALSE
    OBVIOUS
  <2>1. 1..r \in SUBSET E /\ Cardinality(1..r) = r
    BY <1>1, FS_Interval
  <2>2. r <= Cardinality(E)
    BY <1>1, <2>1, FS_Subset
  <2> QED
    BY <1>1, <2>2 DEF E
<1>3. ASSUME NEW x \in 1..r, x # r, x \notin E PROVE FALSE
  <2> DEFINE below == 1..(x - 1)
  <2>1. x \in Nat /\ 1 <= x /\ x < r
    BY <1>1, <1>3
  <2>6. IsFiniteSet(below) /\ Cardinality(below) = IF 1 > x - 1 THEN 0 ELSE x - 1 - 1 + 1
    BY <2>1, FS_Interval
  <2>2. E \subseteq Nat
    BY RowsFinite DEF E, Rows
  <2>3. \A y \in E : y < x /\ 1 <= y
    BY <1>1, <1>3, <2>1, <2>2, RowsFinite DEF E, Rows
  <2>4. E \in SUBSET below
    BY <2>1, <2>2, <2>3
  <2> HIDE DEF below
  <2>5. Cardinality(E) <= Cardinality(below)
    BY <2>6, <2>4, FS_Subset
  <2> QED
    BY <1>1, <2>1, <2>5, <2>6 DEF E
<1> QED
  BY <1>1, <1>2, <1>3, RowsFinite DEF E, Rows

-----------------------------------------------------------------------------
(* What no step undoes, and what a step of a process leaves alone *)

Stable ==
    /\ \A i \in Items : Linked(i) => Linked(i)'
    /\ \A d \in Items : Done(d) => Done(d)'
    /\ \A r \in Rows : tasks[r].item # None => tasks'[r].item = tasks[r].item

\* The tasks that are there move on, and none is created.
TasksMove ==
    /\ tasks' \in [Rows -> TaskRecords]
    /\ \A r \in Rows :
         /\ RowSound(r)'
         /\ Exists(r)' <=> Exists(r)
         /\ tasks'[r].item = tasks[r].item
         /\ Settled(r) => Settled(r)'
    /\ UNCHANGED <<roadmap, config, flags>>

\* Items change their status, and only what is settled is completed.
StatusesMove ==
    /\ roadmap' \in [Items -> Entries]
    /\ \A i \in Items :
         /\ roadmap'[i].task = roadmap[i].task
         /\ roadmap'[i].status = "ABSENT" => roadmap[i].status = "ABSENT"
         /\ roadmap'[i].status = "COMPLETED" => Done(i)
    /\ UNCHANGED <<tasks, config, flags>>

LEMMA DependenciesTyped == \A i \in Items : DependsOn[i] \subseteq Items
  BY RoadmapAssumptions

LEMMA NothingMoves ==
    ASSUME StoresSound, UNCHANGED <<roadmap, tasks, config, flags>>
    PROVE  StoresSound' /\ Stable
  BY DEF StoresSound, TasksSound, RoadmapSound, RowSound, Stable, flags, TasksOf, Linked,
         Exists, Done, Met, Settled

LEMMA TasksMoving ==
    ASSUME StoresSound, TasksMove
    PROVE  StoresSound' /\ Stable
<1>1. \A i \in Items : TasksOf(i)' = TasksOf(i)
  BY DEF TasksMove, TasksOf
<1>2. \A d \in Items : Done(d) => Done(d)'
  BY <1>1 DEF TasksMove, Done, TasksOf
<1>3. \A i \in Items : Met(i) => Met(i)'
  BY <1>2, DependenciesTyped DEF Met
<1>4. RoadmapSound'
  BY <1>1, <1>2 DEF StoresSound, RoadmapSound, TasksMove, Linked
<1>5. \A r \in Rows : Exists(r)' => \A x \in 1..r : Exists(x)'
  <2>1. \A r \in Rows : \A x \in 1..r : x \in Rows
    BY RowsFinite DEF Rows
  <2> QED
    BY <2>1 DEF StoresSound, TasksSound, TasksMove
<1>6. TasksSound'
  BY <1>1, <1>3, <1>5 DEF StoresSound, TasksSound, TasksMove
<1> QED
  BY <1>1, <1>2, <1>4, <1>6 DEF StoresSound, TasksMove, Stable, flags, Linked

LEMMA StatusesMoving ==
    ASSUME StoresSound, StatusesMove
    PROVE  StoresSound' /\ Stable
<1>1. \A i \in Items : Done(i)' <=> Done(i)
  BY DEF StatusesMove, Done, TasksOf, Settled
<1>2. TasksSound'
  BY DEF StoresSound, TasksSound, StatusesMove, RowSound, Exists, TasksOf, Met, Done, Settled
<1>3. RoadmapSound'
  BY <1>1 DEF StoresSound, RoadmapSound, StatusesMove, Linked, TasksOf
<1> QED
  BY <1>1, <1>2, <1>3 DEF StoresSound, StatusesMove, Stable, flags, Linked

\* What a process may rely on, it may rely on after a step.
LEMMA FitsStays ==
    ASSUME Stable, NEW p \in Actors, NEW at \in Places, NEW l \in Locals, Fits(p, at, l)
    PROVE  Fits(p, at, l)'
<1>1. \A i \in Items : Met(i) => Met(i)'
  BY DependenciesTyped DEF Stable, Met
<1>2. /\ l.todo \subseteq Items /\ l.found \subseteq Items
      /\ l.item \in Items \cup {None}
  BY DEF Locals
<1>3. None \notin Items
  BY RoadmapAssumptions
<1>4. p \in Submitters \/ p \in Processes
  BY DEF Actors
<1>5. at = "linking" => l.item \in Items
  BY <1>4 DEF Fits
<1>6. at = "linking" => tasks'[l.row].item = l.item
  BY <1>3, <1>5 DEF Fits, Stable
<1>7. at = "reflecting" => l.item \in Items
  BY <1>4 DEF Fits
<1>8. at \in {"refreshing", "reflecting"} => \A i \in l.todo : Linked(i)'
  BY <1>2 DEF Fits, Stable
<1>9. at = "reflecting" => (l.outcome = "COMPLETED" => Done(l.item)')
  BY <1>7 DEF Fits, Stable
<1>10. \A d \in Items : l.seen[d].status = "COMPLETED" => Done(d)'
  BY DEF Fits, Stable
<1>11. \A i \in l.found : Met(i)'
  BY <1>1, <1>2 DEF Fits
<1>12. at \in {"finding", "counting", "creating"} /\ l.item # None => Met(l.item)'
  BY <1>1, <1>2 DEF Fits
<1> QED
  BY <1>6, <1>8, <1>9, <1>10, <1>11, <1>12 DEF Fits

\* A step of p, who goes to place with l.
LEMMA Advance ==
    ASSUME IInv, NEW p \in Actors, NEW place \in Places, NEW l \in Locals,
           Goes(p, place, l), Fits(p, place, l)', StoresSound', Stable
    PROVE  IInv'
<1>1. /\ session' \in [Actors -> Sessions]
      /\ session'[p].at = place /\ session'[p].locals = l
      /\ \A q \in Actors : q # p => session'[q] = session[q]
  <2>1. session' = [session EXCEPT ![p] = [session[p] EXCEPT !.at = place, !.locals = l]]
    BY DEF Goes, IInv, Sessions
  <2>2. [session[p] EXCEPT !.at = place, !.locals = l] \in Sessions
    BY DEF IInv, Sessions
  <2>3. session[p] \in Sessions
    BY DEF IInv
  <2> QED
    BY <2>1, <2>2, <2>3 DEF IInv, Sessions
<1>2. Sound(p)'
  BY <1>1 DEF Sound, My, Fits
<1>3. ASSUME NEW q \in Actors, q # p PROVE Sound(q)'
  <2>1. session[q].at \in Places /\ session[q].locals \in Locals
    BY DEF IInv, Sessions
  <2>2. PICK at \in Places, m \in Locals : at = session[q].at /\ m = session[q].locals
    BY <2>1
  <2>3. Fits(q, at, m)
    BY <2>2 DEF IInv, Sound, My
  <2>4. Fits(q, at, m)'
    BY <2>3, FitsStays
  <2>5. session'[q].at = at /\ session'[q].locals = m
    BY <1>1, <1>3, <2>2
  <2> QED
    BY <2>4, <2>5 DEF Sound, My, Fits
<1> QED
  BY <1>1, <1>2, <1>3 DEF IInv

\* A step of p by which it learns nothing but what the stores say already.
LEMMA Reading ==
    ASSUME IInv, NEW p \in Actors, NEW place \in Places, NEW l \in Locals,
           Goes(p, place, l), Fits(p, place, l), StoresSound', Stable
    PROVE  IInv'
  BY Advance, FitsStays

LEMMA BlankTyped == Blank \in Locals /\ \A p \in Processes, at \in {"idle", "running", "asking"} : Fits(p, at, Blank)
<1>1. Blank \in Locals
  BY DEF Blank, Locals, NoEntry, Entries
<1>2. \A p \in Processes : p \notin Submitters
  BY RoadmapAssumptions
<1> QED
  BY <1>1, <1>2 DEF Fits, Blank, NoEntry

LEMMA Resting ==
    ASSUME IInv, UNCHANGED session, StoresSound', Stable
    PROVE  IInv'
<1>1. ASSUME NEW q \in Actors PROVE Sound(q)'
  <2>1. PICK at \in Places, m \in Locals : at = session[q].at /\ m = session[q].locals
    BY DEF IInv, Sessions
  <2>2. Fits(q, at, m)'
    BY <2>1, FitsStays DEF IInv, Sound, My
  <2> QED
    BY <2>1, <2>2 DEF Sound, My, Fits
<1> QED
  BY <1>1 DEF IInv

LEMMA Dying ==
    ASSUME IInv, NEW p \in Actors, Dies(p), StoresSound', Stable
    PROVE  IInv'
<1>1. /\ session' \in [Actors -> Sessions]
      /\ session'[p] = Down
      /\ \A q \in Actors : q # p => session'[q] = session[q]
  BY BlankTyped DEF Dies, IInv, Sessions, Down, Places
<1>2. Sound(p)'
  <2>1. Fits(p, "down", Blank)'
    BY DEF Fits, Blank, NoEntry
  <2> QED
    BY <1>1, <2>1 DEF Sound, My, Down, Fits
<1>3. ASSUME NEW q \in Actors, q # p PROVE Sound(q)'
  <2>1. PICK at \in Places, m \in Locals : at = session[q].at /\ m = session[q].locals
    BY DEF IInv, Sessions
  <2>2. Fits(q, at, m)'
    BY <2>1, FitsStays DEF IInv, Sound, My
  <2>3. session'[q].at = at /\ session'[q].locals = m
    BY <1>1, <1>3, <2>1
  <2> QED
    BY <2>2, <2>3 DEF Sound, My, Fits
<1> QED
  BY <1>1, <1>2, <1>3 DEF IInv

\* Who is where.
LEMMA AtWork ==
    ASSUME IInv, NEW p \in Actors
    PROVE  /\ session[p].at \in Places /\ session[p].plan \subseteq Items
           /\ My(p) \in Locals
           /\ Fits(p, session[p].at, My(p))
           /\ p \in Submitters <=> p \notin Processes
           /\ session[p].at \notin {"down", "counting", "creating"} => p \in Processes
<1>1. p \in Submitters <=> p \notin Processes
  BY RoadmapAssumptions DEF Actors
<1>2. Fits(p, session[p].at, My(p))
  BY DEF IInv, Sound
<1>3. session[p].at \notin {"down", "counting", "creating"} => p \in Processes
  BY <1>1, <1>2 DEF Fits
<1> QED
  BY <1>1, <1>2, <1>3 DEF IInv, Sessions, My

LEMMA StoresTyped ==
    ASSUME IInv
    PROVE  /\ roadmap \in [Items -> Entries] /\ tasks \in [Rows -> TaskRecords]
           /\ config \subseteq Items
           /\ \A i \in Items : Linked(i) => roadmap[i].task \in TasksOf(i) /\ roadmap[i].status # "ABSENT"
           /\ \A i \in Items : roadmap[i].status = "COMPLETED" => Done(i)
           /\ \A r \in Rows : RowSound(r)
  BY DEF IInv, StoresSound, TasksSound, RoadmapSound

-----------------------------------------------------------------------------
(* Starting and refreshing *)

LEMMA StartStep ==
    ASSUME IInv, NEW p \in Actors, Start(p)
    PROVE  IInv'
<1>1. StoresSound' /\ Stable
  BY NothingMoves DEF Start, IInv
<1>2. /\ session' \in [Actors -> Sessions]
      /\ session'[p].at = "syncing" /\ session'[p].locals = session[p].locals
      /\ \A q \in Actors : q # p => session'[q] = session[q]
  <2>1. session' = [session EXCEPT ![p] = [session[p] EXCEPT !.at = "syncing", !.plan = config]]
    BY DEF Start, IInv, Sessions
  <2>2. session[p] \in Sessions /\ config \subseteq Items
    BY StoresTyped DEF IInv
  <2>3. [session[p] EXCEPT !.at = "syncing", !.plan = config] \in Sessions
    BY <2>2 DEF Sessions, Places
  <2> QED
    BY <2>1, <2>2, <2>3 DEF IInv, Sessions
<1>3. ASSUME NEW q \in Actors PROVE Sound(q)'
  <2>1. PICK at \in Places, m \in Locals : at = session'[q].at /\ m = session[q].locals
    BY <1>2 DEF IInv, Sessions
  <2>2. session'[q].locals = m
    BY <1>2, <2>1
  <2>3. Fits(q, at, m)
    <3>1. CASE q # p
      BY <1>2, <2>1, <3>1, AtWork DEF My
    <3>2. CASE q = p
      <4>1. p \in Processes /\ p \notin Submitters /\ at = "syncing"
        BY <1>2, <2>1, <3>2, AtWork DEF Start
      <4>2. Fits(p, session[p].at, m)
        BY <2>1, <3>2, AtWork DEF My
      <4> QED
        BY <3>2, <4>1, <4>2 DEF Fits
    <3> QED
      BY <3>1, <3>2
  <2>4. Fits(q, at, m)'
    BY <1>1, <2>3, FitsStays
  <2> QED
    BY <2>1, <2>2, <2>4 DEF Sound, My, Fits
<1> QED
  BY <1>1, <1>2, <1>3 DEF IInv

LEMMA SyncStep ==
    ASSUME IInv, NEW p \in Actors, Sync(p)
    PROVE  IInv'
<1>1. \A i \in Items : /\ Synced(i, session[p].plan) \in Entries
                       /\ Synced(i, session[p].plan).task = roadmap[i].task
                       /\ Synced(i, session[p].plan).status # "ABSENT"
                       /\ Synced(i, session[p].plan).status = "COMPLETED" => Done(i)
  <2> TAKE i \in Items
  <2>1. roadmap[i] \in Entries /\ NoEntry \in Entries
    BY StoresTyped DEF NoEntry, Entries
  <2>2. roadmap[i].status = "COMPLETED" => Done(i)
    BY StoresTyped
  <2>3. roadmap[i].status = "ABSENT" => roadmap[i].task = None
    BY StoresTyped DEF Linked
  <2> QED
    BY <2>1, <2>2, <2>3 DEF Synced, NoEntry, Entries, Statuses
<1>2. StatusesMove
  BY <1>1 DEF Sync, StatusesMove
<1>3. StoresSound' /\ Stable
  BY <1>2, StatusesMoving DEF IInv
<1>4. At(p, "syncing") /\ Goes(p, "idle", My(p)) /\ p \in Processes
  BY AtWork DEF Sync, Moves, At
<1>5. Fits(p, "idle", My(p))
  BY <1>4, AtWork DEF Fits
<1> QED
  BY <1>3, <1>4, <1>5, AtWork, Reading DEF Places

LEMMA BeginStep ==
    ASSUME IInv, NEW p \in Actors, Begin(p)
    PROVE  IInv'
<1>1. PICK released \in SUBSET {r \in Rows : tasks[r].state = "BLOCKED"} :
        tasks' = [r \in Rows |->
            IF r \in released THEN [tasks[r] EXCEPT !.state = "READY"] ELSE tasks[r]]
  BY DEF Begin
<1>2. ASSUME NEW r \in Rows, r \in released
      PROVE  /\ tasks'[r] \in TaskRecords
             /\ RowSound(r)' /\ Exists(r)' /\ Exists(r)
             /\ tasks'[r].item = tasks[r].item
             /\ ~Settled(r)
  <2>1. tasks[r] \in TaskRecords /\ tasks[r].state = "BLOCKED" /\ RowSound(r)
    BY <1>1, <1>2, StoresTyped
  <2>2. tasks'[r] = [tasks[r] EXCEPT !.state = "READY"]
    BY <1>1, <1>2
  <2>3. tasks[r].owner = None /\ None \notin Processes
    BY <2>1, RoadmapAssumptions DEF RowSound, Running, Actors
  <2> QED
    BY <2>1, <2>2, <2>3 DEF TaskRecords, States, RowSound, Running, Exists, Settled
<1>3. ASSUME NEW r \in Rows, r \notin released
      PROVE  tasks'[r] = tasks[r]
  BY <1>1, <1>3
<1>4. TasksMove
  <2>1. tasks' \in [Rows -> TaskRecords]
    BY <1>1, <1>2, <1>3, StoresTyped
  <2>2. ASSUME NEW r \in Rows, r \notin released
        PROVE  RowSound(r)' /\ (Exists(r)' <=> Exists(r)) /\ (Settled(r) => Settled(r)')
    BY <1>3, <2>2, StoresTyped DEF RowSound, Exists, Settled
  <2> QED
    BY <1>2, <1>3, <2>1, <2>2 DEF TasksMove, Begin
<1>5. StoresSound' /\ Stable
  BY <1>4, TasksMoving DEF IInv
<1>6. At(p, "idle") /\ Goes(p, "asking", My(p)) /\ p \in Processes
  BY DEF Begin, Moves, At
<1>7. Fits(p, "asking", My(p))
  BY <1>6, AtWork DEF Fits, At
<1> QED
  BY <1>5, <1>6, <1>7, AtWork, Reading DEF Places

LEMMA AdmitStep ==
    ASSUME IInv, NEW p \in Actors, Admit(p)
    PROVE  IInv'
<1> DEFINE linked == {i \in Items : Linked(i)}
           l == [Blank EXCEPT !.todo = linked, !.selecting = TRUE]
<1>1. StoresSound' /\ Stable
  BY NothingMoves DEF Admit, IInv
<1>2. session[p].at = "asking" /\ p \in Processes /\ p \notin Submitters
  BY AtWork DEF Admit, At
<1>3. CASE Moves(p, "running")
  <2>1. Fits(p, "running", My(p))
    BY <1>2, AtWork DEF Fits
  <2> QED
    BY <1>1, <1>3, <2>1, AtWork, Reading DEF Places, Moves
<1>4. CASE Goes(p, "refreshing", l)
  <2>1. l \in Locals
    BY BlankTyped DEF Locals
  <2>2. Fits(p, "refreshing", l)
    BY <1>2 DEF Fits, Blank, NoEntry
  <2> QED
    BY <1>1, <1>4, <2>1, <2>2, Reading DEF Places
<1> QED
  BY <1>3, <1>4 DEF Admit

LEMMA RefreshReadStep ==
    ASSUME IInv, NEW p \in Actors, RefreshRead(p)
    PROVE  IInv'
<1> DEFINE m == My(p)
           i == First(m.todo)
           status == Reflected(TaskState(i))
           rest == [m EXCEPT !.todo = @ \ {i}]
           found == [rest EXCEPT !.item = i, !.outcome = status]
<1>1. StoresSound' /\ Stable
  BY NothingMoves DEF RefreshRead, IInv
<1>2. /\ session[p].at = "refreshing" /\ p \in Processes /\ p \notin Submitters
      /\ m \in Locals /\ Fits(p, "refreshing", m)
  BY AtWork DEF RefreshRead, At
<1>3. i \in m.todo /\ i \in Items
  BY <1>2, FirstIsOne DEF RefreshRead, Locals
<1>4. Linked(i) /\ roadmap[i].task \in TasksOf(i)
  BY <1>2, <1>3, StoresTyped DEF Fits
<1> HIDE DEF i, m
<1>5. rest \in Locals /\ found \in Locals
  <2>1. status \in Statuses \cup {None}
    BY DEF Reflected, Statuses
  <2> QED
    BY <1>2, <1>3, <2>1 DEF Locals
<1>6. Fits(p, "refreshing", rest)
  BY <1>2 DEF Fits, Locals
<1>7. status # None => Fits(p, "reflecting", found)
  <2>1. status # None => status \in Statuses
    BY DEF Reflected, Statuses
  <2>2. status = "COMPLETED" => tasks[roadmap[i].task].state = "COMPLETED" \/ None = "COMPLETED"
    BY DEF Reflected, TaskState
  <2>3. status = "COMPLETED" /\ status # None => Done(i)
    BY <1>4, <2>2 DEF Done, Settled
  <2> HIDE DEF status
  <2>4. /\ found.todo = m.todo \ {i} /\ found.item = i /\ found.outcome = status
        /\ found.seen = m.seen /\ found.found = m.found
    BY <1>2 DEF Locals
  <2> QED
    BY <1>2, <1>3, <2>1, <2>3, <2>4 DEF Fits
<1>8. \/ Goes(p, "refreshing", rest)
      \/ status # None /\ Goes(p, "reflecting", found)
  BY DEF RefreshRead, i, m
<1> HIDE DEF rest, found, status
<1> QED
  BY <1>1, <1>5, <1>6, <1>7, <1>8, Reading DEF Places

LEMMA RefreshWriteStep ==
    ASSUME IInv, NEW p \in Actors, RefreshWrite(p)
    PROVE  IInv'
<1> DEFINE m == My(p)
           l == [m EXCEPT !.item = None, !.outcome = None]
<1>1. /\ session[p].at = "reflecting" /\ p \in Processes /\ p \notin Submitters
      /\ m \in Locals /\ Fits(p, "reflecting", m)
  BY AtWork DEF RefreshWrite, At
<1>2. /\ m.item \in Items /\ m.outcome \in Statuses
      /\ m.outcome = "COMPLETED" => Done(m.item)
  BY <1>1 DEF Fits
<1>3. roadmap' = [roadmap EXCEPT ![m.item].status = m.outcome]
  BY DEF RefreshWrite
<1> HIDE DEF m
<1>4. StatusesMove
  <2>1. roadmap' \in [Items -> Entries]
    BY <1>2, <1>3, StoresTyped DEF Entries
  <2> QED
    BY <1>2, <1>3, <2>1, StoresTyped DEF StatusesMove, RefreshWrite, Entries, Statuses
<1>5. StoresSound' /\ Stable
  BY <1>4, StatusesMoving DEF IInv
<1>6. l \in Locals /\ Fits(p, "refreshing", l)
  BY <1>1 DEF Fits, Locals
<1>7. Goes(p, "refreshing", l)
  BY DEF RefreshWrite, m
<1> HIDE DEF l
<1> QED
  BY <1>5, <1>6, <1>7, Reading DEF Places

-----------------------------------------------------------------------------
(* Selecting *)

LEMMA ReadRecordsStep ==
    ASSUME IInv, NEW p \in Actors, ReadRecords(p)
    PROVE  IInv'
<1> DEFINE l == [Blank EXCEPT !.seen = roadmap]
<1>1. StoresSound' /\ Stable
  BY NothingMoves DEF ReadRecords, IInv
<1>2. p \in Processes /\ p \notin Submitters
  BY AtWork DEF ReadRecords, At
<1>3. l \in Locals /\ Fits(p, "listing", l)
  BY <1>2, BlankTyped, StoresTyped DEF Locals, Fits, Blank
<1>4. Goes(p, "listing", l) \/ Goes(p, "idle", Blank)
  BY DEF ReadRecords
<1> HIDE DEF l
<1> QED
  BY <1>1, <1>2, <1>3, <1>4, BlankTyped, Reading DEF Places

LEMMA ListTasksStep ==
    ASSUME IInv, NEW p \in Actors, ListTasks(p)
    PROVE  IInv'
<1> DEFINE m == My(p)
           seen == m.seen
           barred == {i \in Items : Barred(i)}
           free == {i \in Considered(p) \ barred : seen[i].task = None}
           soft == Cardinality(Substantive) >= PressureLimit
           found == {i \in free : Ready(i, seen)}
           todo == {i \in Considered(p) :
                      \/ seen[i].task # None
                      \/ i \in free /\ ~Ready(i, seen) /\ seen[i].status # "BLOCKED"}
           l == [m EXCEPT !.soft = soft, !.barred = barred, !.found = found, !.todo = todo]
<1>1. StoresSound' /\ Stable
  BY NothingMoves DEF ListTasks, IInv
<1>2. /\ session[p].at = "listing" /\ p \in Processes /\ p \notin Submitters
      /\ m \in Locals /\ Fits(p, "listing", m)
  BY AtWork DEF ListTasks, At
<1>3. Considered(p) \subseteq Items
  BY AtWork DEF Considered
<1>4. Goes(p, "scanning", l)
  BY DEF ListTasks
<1>5. \A i \in found : i \in Items /\ Met(i)
  BY <1>2, <1>3, DependenciesTyped DEF Ready, Met, Fits
<1>6. barred \subseteq Items /\ found \subseteq Items /\ todo \subseteq Items /\ soft \in BOOLEAN
  BY <1>3
<1> HIDE DEF m, soft, barred, found, todo
<1>7. l \in Locals
  BY <1>2, <1>6 DEF Locals
<1>8. l.seen = m.seen /\ l.found = found
  BY <1>2 DEF Locals
<1> HIDE DEF l
<1>9. Fits(p, "scanning", l)
  BY <1>2, <1>5, <1>8 DEF Fits
<1> QED
  BY <1>1, <1>4, <1>7, <1>9, Reading DEF Places

\* What a candidate loop that passes over i still knows.
LEMMA Passing ==
    ASSUME IInv, NEW p \in Processes, NEW i \in Items,
           session[p].at \in {"scanning", "reviving", "revived"}
    PROVE  /\ Passed(p, i) \in Locals /\ Fits(p, "scanning", Passed(p, i))
           /\ My(p) \in Locals
           /\ Passed(p, i).found = My(p).found
           /\ Passed(p, i).seen = My(p).seen
<1>1. /\ p \in Actors /\ p \notin Submitters /\ My(p) \in Locals
      /\ Fits(p, session[p].at, My(p))
  BY AtWork DEF Actors
<1>2. Passed(p, i) \in Locals
  BY <1>1 DEF Passed, Locals
<1>3. Passed(p, i).found = My(p).found /\ Passed(p, i).seen = My(p).seen
  BY <1>1 DEF Passed, Locals
<1> QED
  BY <1>1, <1>2, <1>3 DEF Fits

\* A status other than COMPLETED may be written at any time.
LEMMA StatusWritten ==
    ASSUME IInv, NEW i \in Items, NEW status \in {"BLOCKED", "ENQUEUED"},
           roadmap' = [roadmap EXCEPT ![i].status = status],
           UNCHANGED <<tasks, config, flags>>
    PROVE  StoresSound' /\ Stable
<1>1. roadmap' \in [Items -> Entries]
  BY StoresTyped DEF Entries, Statuses
<1>2. StatusesMove
  BY <1>1, StoresTyped DEF StatusesMove, Entries
<1> QED
  BY <1>2, StatusesMoving DEF IInv

LEMMA HoldStep ==
    ASSUME IInv, NEW p \in Actors, NEW i \in Items, Hold(p, i)
    PROVE  IInv'
<1>1. StoresSound' /\ Stable
  BY StatusWritten DEF Hold
<1>2. session[p].at = "scanning" /\ p \in Processes
  BY AtWork DEF Hold, Looking, At
<1> QED
  BY <1>1, <1>2, Passing, Reading DEF Hold, Places

LEMMA ReadLinkedStep ==
    ASSUME IInv, NEW p \in Actors, NEW i \in Items, ReadLinked(p, i)
    PROVE  IInv'
<1> DEFINE m == My(p)
           l == [m EXCEPT !.item = i]
<1>1. StoresSound' /\ Stable
  BY NothingMoves DEF ReadLinked, IInv
<1>2. /\ session[p].at = "scanning" /\ p \in Processes /\ p \notin Submitters
      /\ m \in Locals /\ Fits(p, "scanning", m)
  BY AtWork DEF ReadLinked, Looking, At
<1>3. CASE Goes(p, "scanning", Passed(p, i))
  BY <1>1, <1>2, <1>3, Passing, Reading DEF Places
<1>4. CASE Goes(p, "reviving", l)
  <2> HIDE DEF m
  <2>1. l \in Locals /\ Fits(p, "reviving", l)
    BY <1>2 DEF Locals, Fits
  <2> HIDE DEF l
  <2> QED
    BY <1>1, <1>4, <2>1, Reading DEF Places
<1> QED
  BY <1>3, <1>4 DEF ReadLinked

LEMMA ReviveStep ==
    ASSUME IInv, NEW p \in Actors, Revive(p)
    PROVE  IInv'
<1> DEFINE i == My(p).item
           m == Passed(p, i)
           l == [m EXCEPT !.found = @ \cup {i}]
<1>1. /\ session[p].at = "reviving" /\ p \in Processes /\ p \notin Submitters
      /\ My(p) \in Locals /\ Fits(p, "reviving", My(p))
  BY AtWork DEF Revive, At
<1>2. i \in Items
  BY <1>1 DEF Fits
<1>3. StoresSound' /\ Stable
  BY <1>2, StatusWritten DEF Revive
<1>4. m \in Locals /\ Fits(p, "scanning", m) /\ m.seen = My(p).seen
  BY <1>1, <1>2, Passing
<1>5. CASE Goes(p, "scanning", m)
  BY <1>3, <1>4, <1>5, Reading DEF Places
<1>6. CASE Ready(i, My(p).seen) /\ Goes(p, "scanning", l)
  <2>1. Met(i)
    BY <1>1, <1>2, <1>6, DependenciesTyped DEF Ready, Met, Fits
  <2> HIDE DEF i, m
  <2>2. l \in Locals /\ l.found = m.found \cup {i} /\ l.seen = m.seen
    BY <1>2, <1>4 DEF Locals
  <2> HIDE DEF l
  <2>3. Fits(p, "scanning", l)
    BY <1>1, <1>4, <2>1, <2>2 DEF Fits
  <2> QED
    BY <1>3, <1>6, <2>2, <2>3, Reading DEF Places
<1>7. CASE Moves(p, "revived")
  <2>1. Fits(p, "revived", My(p))
    BY <1>1 DEF Fits
  <2> QED
    BY <1>1, <1>3, <1>7, <2>1, Reading DEF Places, Moves
<1> QED
  BY <1>5, <1>6, <1>7 DEF Revive

LEMMA HoldRevivedStep ==
    ASSUME IInv, NEW p \in Actors, HoldRevived(p)
    PROVE  IInv'
<1> DEFINE i == My(p).item
<1>1. /\ session[p].at = "revived" /\ p \in Processes /\ Fits(p, "revived", My(p))
  BY AtWork DEF HoldRevived, At
<1>2. i \in Items
  BY <1>1 DEF Fits
<1>3. StoresSound' /\ Stable
  BY <1>2, StatusWritten DEF HoldRevived
<1> QED
  BY <1>1, <1>2, <1>3, Passing, Reading DEF HoldRevived, Places

LEMMA ChooseStep ==
    ASSUME IInv, NEW p \in Actors, Choose(p)
    PROVE  IInv'
<1> DEFINE i == First(Choice(p))
           w == WorkerFor(p, i)
           l == [Blank EXCEPT !.item = i, !.worker = w]
<1>1. StoresSound' /\ Stable
  BY NothingMoves DEF Choose, IInv
<1>2. /\ p \in Processes /\ p \notin Submitters
      /\ My(p) \in Locals /\ Fits(p, "scanning", My(p))
  BY AtWork DEF Choose, At
<1>3. CASE Goes(p, "running", Blank)
  BY <1>1, <1>2, <1>3, BlankTyped, Reading DEF Places
<1>4. CASE Choice(p) # {} /\ Goes(p, "finding", l)
  <2>1. Choice(p) \subseteq My(p).found /\ My(p).found \in SUBSET Items
    BY <1>2 DEF Choice, Locals
  <2>2. i \in My(p).found /\ i \in Items
    BY <1>4, <2>1, FirstIsOne
  <2>3. Met(i)
    BY <1>2, <2>2 DEF Fits
  <2>4. w \in Builders \cup {None}
    BY <1>2, <2>2, WorkerTyped
  <2> HIDE DEF i, w
  <2>5. /\ l \in Locals /\ l.item = i /\ l.seen = Blank.seen /\ l.found = Blank.found
    BY <2>2, <2>4, BlankTyped DEF Locals
  <2> HIDE DEF l
  <2>6. Fits(p, "finding", l)
    BY <1>2, <2>2, <2>3, <2>5 DEF Fits, Blank, NoEntry
  <2> QED
    BY <1>1, <1>4, <2>5, <2>6, Reading DEF Places
<1> QED
  BY <1>3, <1>4 DEF Choose

-----------------------------------------------------------------------------
(* Submitting *)

\* The task found under the key is the item's own.
LEMMA Taking ==
    ASSUME IInv, NEW p \in Processes, NEW r \in TasksOf(My(p).item), My(p).item \in Items,
           Takes(p, r), UNCHANGED <<roadmap, tasks, config, flags>>
    PROVE  IInv'
<1> DEFINE l == [My(p) EXCEPT !.row = r, !.outcome = tasks[r].state]
<1>1. StoresSound' /\ Stable
  BY NothingMoves DEF IInv
<1>2. p \in Actors /\ p \notin Submitters /\ My(p) \in Locals /\ Fits(p, session[p].at, My(p))
  BY AtWork DEF Actors
<1>3. r \in Rows /\ tasks[r].item = My(p).item /\ tasks[r] \in TaskRecords
  BY StoresTyped DEF TasksOf
<1>4. tasks[r].state \in States
  BY <1>2, <1>3, StoresTyped, RoadmapAssumptions DEF TaskRecords, RowSound, Exists
<1>5. CASE Goes(p, "linking", l)
  <2>1. /\ l \in Locals /\ l.row = r /\ l.item = My(p).item /\ l.seen = My(p).seen
        /\ l.found = My(p).found
    BY <1>2, <1>3, <1>4 DEF Locals
  <2> HIDE DEF l
  <2>2. Fits(p, "linking", l)
    BY <1>2, <1>3, <2>1 DEF Fits
  <2> QED
    BY <1>1, <1>2, <1>5, <2>1, <2>2, Reading DEF Places
<1>6. CASE Dies(p)
  BY <1>1, <1>2, <1>6, Dying
<1> QED
  BY <1>5, <1>6 DEF Takes

LEMMA FindStep ==
    ASSUME IInv, NEW p \in Actors, Find(p)
    PROVE  IInv'
<1>1. /\ session[p].at = "finding" /\ p \in Processes /\ p \notin Submitters
      /\ My(p) \in Locals /\ Fits(p, "finding", My(p)) /\ My(p).item \in Items
  BY AtWork DEF Find, At, Fits
<1>2. CASE Moves(p, "counting")
  <2>1. Fits(p, "counting", My(p))
    BY <1>1 DEF Fits
  <2>2. StoresSound' /\ Stable
    BY NothingMoves DEF IInv, Find
  <2> QED
    BY <1>1, <1>2, <2>1, <2>2, Reading DEF Places, Moves
<1>3. CASE \E r \in TasksOf(My(p).item) : Takes(p, r)
  BY <1>1, <1>3, Taking DEF Find
<1> QED
  BY <1>2, <1>3 DEF Find

LEMMA SubmitStep ==
    ASSUME IInv, NEW o \in Actors, Submit(o)
    PROVE  IInv'
<1>1. PICK b \in Builders : Goes(o, "counting", [Blank EXCEPT !.worker = b])
  BY DEF Submit
<1> DEFINE l == [Blank EXCEPT !.worker = b]
<1>2. StoresSound' /\ Stable
  BY NothingMoves DEF Submit, IInv
<1>3. l \in Locals /\ l.item = None
  BY BlankTyped DEF Locals, Blank
<1>4. o \in Submitters /\ o \notin Processes
  BY AtWork DEF Submit
<1>5. Fits(o, "counting", l)
  BY <1>4 DEF Fits, Blank, NoEntry
<1> QED
  BY <1>1, <1>2, <1>3, <1>5, Reading DEF Places

LEMMA CountStep ==
    ASSUME IInv, NEW p \in Actors, Count(p)
    PROVE  IInv'
<1>1. StoresSound' /\ Stable
  BY NothingMoves DEF Count, IInv
<1>2. CASE Dies(p)
  BY <1>1, <1>2, Dying
<1>3. CASE Moves(p, "creating")
  <2>1. Fits(p, "creating", My(p))
    BY AtWork DEF Count, Fits, At
  <2> QED
    BY <1>1, <1>3, <2>1, AtWork, Reading DEF Places, Moves
<1> QED
  BY <1>2, <1>3 DEF Count

LEMMA LinkStep ==
    ASSUME IInv, NEW p \in Actors, Link(p)
    PROVE  IInv'
<1> DEFINE m == My(p)
           status == IF m.outcome = "BLOCKED" THEN "BLOCKED" ELSE "ENQUEUED"
           l == [Blank EXCEPT !.worker = m.worker]
<1>1. /\ p \in Processes /\ p \notin Submitters
      /\ m \in Locals /\ Fits(p, "linking", m)
  BY AtWork DEF Link, At
<1>2. m.item \in Items /\ m.row \in Rows /\ tasks[m.row].item = m.item
  BY <1>1 DEF Fits
<1>3. roadmap' = [roadmap EXCEPT ![m.item] = [status |-> status, task |-> m.row]]
  BY DEF Link
<1>4. Goes(p, "running", l)
  BY DEF Link
<1>5. l \in Locals
  BY <1>1, BlankTyped DEF Locals
<1>6. Fits(p, "running", l)
  BY <1>1 DEF Fits, Blank, NoEntry
<1> HIDE DEF m, l
<1>7. /\ roadmap' \in [Items -> Entries]
      /\ roadmap'[m.item].task = m.row
      /\ roadmap'[m.item].status \in {"BLOCKED", "ENQUEUED"}
      /\ \A i \in Items : i # m.item => roadmap'[i] = roadmap[i]
  BY <1>2, <1>3, StoresTyped DEF Entries, Statuses
<1>8. m.row # None
  BY <1>2, RoadmapAssumptions
<1>9. /\ tasks' = tasks /\ config' = config /\ paused' = paused /\ draining' = draining
  BY DEF Link, flags
<1>10. \A i \in Items : (Done(i)' <=> Done(i)) /\ TasksOf(i)' = TasksOf(i)
  BY <1>9 DEF Done, TasksOf, Settled
<1>11. RoadmapSound'
  BY <1>2, <1>7, <1>10, StoresTyped DEF RoadmapSound, Linked, TasksOf
<1>12. TasksSound'
  BY <1>9 DEF IInv, StoresSound, TasksSound, RowSound, Exists, TasksOf, Met, Done, Settled
<1>13. Stable
  BY <1>7, <1>8, <1>9, <1>10 DEF Stable, Linked
<1>14. StoresSound'
  BY <1>9, <1>11, <1>12 DEF IInv, StoresSound
<1> QED
  BY <1>4, <1>5, <1>6, <1>13, <1>14, Reading DEF Places

\* An insert is the first task of its item, and waits for nothing.
LEMMA Inserting ==
    ASSUME IInv, NEW p \in Actors, At(p, "creating"), ~KeyTaken(My(p).item),
           NEW state \in {"READY", "BLOCKED"}, NEW r \in Rows,
           r - 1 = Cardinality({x \in Rows : Exists(x)}),
           tasks' = [tasks EXCEPT ![r] =
             [NoTask EXCEPT !.state = state, !.item = My(p).item, !.worker = My(p).worker]],
           UNCHANGED <<roadmap, config, flags>>
    PROVE  StoresSound' /\ Stable /\ tasks'[r].item = My(p).item
<1> DEFINE i == My(p).item
<1>1. My(p) \in Locals /\ Fits(p, "creating", My(p))
  BY AtWork DEF At
<1>2. ~Exists(r) /\ \A x \in 1..r : x # r => Exists(x)
  BY NextRow DEF IInv
<1>3. tasks[r].item = None
  BY <1>2, StoresTyped DEF RowSound
<1>4. /\ tasks' \in [Rows -> TaskRecords]
      /\ tasks'[r].state = state /\ tasks'[r].item = i /\ tasks'[r].owner = None
      /\ \A x \in Rows : x # r => tasks'[x] = tasks[x]
  <2>1. /\ My(p).item \in Items \cup {None} /\ My(p).worker \in Builders \cup {None}
        /\ tasks \in [Rows -> TaskRecords]
    BY <1>1, StoresTyped DEF Locals
  <2>2. [NoTask EXCEPT !.state = state, !.item = My(p).item, !.worker = My(p).worker] \in TaskRecords
    BY <2>1 DEF TaskRecords, NoTask, States
  <2> QED
    BY <2>1, <2>2 DEF NoTask
<1> HIDE DEF i
<1>5. i \in Items \cup {None} /\ None \notin Items /\ None \notin Processes
  BY <1>1, RoadmapAssumptions DEF i, Locals, Actors
<1>6. i # None => \A x \in Rows : tasks[x].item # i
  BY DEF KeyTaken, TasksOf, i
<1>7. i # None => Met(i)
  BY <1>1 DEF Fits, i
<1>8. \A d \in Items : TasksOf(d) \subseteq TasksOf(d)' /\ (d # i => TasksOf(d)' = TasksOf(d))
  BY <1>3, <1>4, <1>5 DEF TasksOf
<1>9. \A x \in Rows : Settled(x) => x # r
  BY <1>2 DEF Settled, Exists
<1>10. \A d \in Items : Done(d) => Done(d)'
  BY <1>4, <1>8, <1>9 DEF Done, TasksOf, Settled
<1>11. \A d \in Items : Met(d) => Met(d)'
  BY <1>10, DependenciesTyped DEF Met
<1>12. \A x \in Rows : RowSound(x)'
  <2>1. RowSound(r)'
    BY <1>4, <1>5 DEF RowSound, Running, Exists
  <2>2. ASSUME NEW x \in Rows, x # r PROVE RowSound(x)'
    BY <1>4, <2>2, StoresTyped DEF RowSound, Exists
  <2> QED
    BY <2>1, <2>2
<1>13. \A x \in Rows : Exists(x)' => \A y \in 1..x : Exists(y)'
  <2>1. \A x \in Rows : \A y \in 1..x : y \in Rows
    BY RowsFinite DEF Rows
  <2>2. \A x \in Rows : Exists(x) \/ x = r => Exists(x)'
    BY <1>4 DEF Exists
  <2>3. \A x \in Rows : Exists(x)' => Exists(x) \/ x = r
    BY <1>4 DEF Exists
  <2>4. \A x \in Rows : Exists(x) => \A y \in 1..x : Exists(y)
    BY DEF IInv, StoresSound, TasksSound
  <2> QED
    BY <1>2, <2>1, <2>2, <2>3, <2>4
<1>14. \A x, y \in Rows : tasks'[x].item = tasks'[y].item /\ tasks'[x].item # None => x = y
  BY <1>4, <1>6 DEF IInv, StoresSound, TasksSound
<1>15. \A d \in Items : TasksOf(d)' # {} => Met(d)'
  <2>1. \A d \in Items : d # i /\ TasksOf(d)' # {} => Met(d)
    BY <1>8 DEF IInv, StoresSound, TasksSound
  <2> QED
    BY <1>5, <1>7, <1>11, <2>1
<1>16. TasksSound'
  BY <1>4, <1>12, <1>13, <1>14, <1>15 DEF TasksSound
<1>17. /\ roadmap' = roadmap /\ config' = config /\ paused' = paused /\ draining' = draining
  BY DEF flags
<1>18. RoadmapSound'
  BY <1>8, <1>10, <1>17, StoresTyped DEF RoadmapSound, Linked
<1>19. Stable
  BY <1>3, <1>4, <1>10, <1>17 DEF Stable, Linked
<1> QED
  BY <1>4, <1>16, <1>17, <1>18, <1>19 DEF IInv, StoresSound, i

LEMMA CreateStep ==
    ASSUME IInv, NEW p \in Actors, Create(p)
    PROVE  IInv'
<1>1. /\ At(p, "creating") /\ session[p].at = "creating"
      /\ My(p) \in Locals /\ Fits(p, "creating", My(p))
      /\ p \in Submitters <=> p \notin Processes
  BY AtWork DEF Create, At
<1>2. CASE KeyTaken(My(p).item)
  <2>1. p \in Processes /\ My(p).item \in Items
    BY <1>1, <1>2 DEF Fits, KeyTaken
  <2> QED
    BY <1>2, <2>1, Taking DEF Create
<1>3. CASE ~KeyTaken(My(p).item)
  <2>1. PICK state \in {"READY", "BLOCKED"}, r \in Rows :
          /\ r - 1 = Cardinality({x \in Rows : Exists(x)})
          /\ tasks' = [tasks EXCEPT ![r] =
               [NoTask EXCEPT !.state = state, !.item = My(p).item, !.worker = My(p).worker]]
          /\ IF p \in Submitters THEN Dies(p)
             ELSE Goes(p, "linking", [My(p) EXCEPT !.row = r, !.outcome = state])
    BY <1>3 DEF Create
  <2>2. StoresSound' /\ Stable /\ tasks'[r].item = My(p).item
    BY <1>1, <1>3, <2>1, Inserting DEF Create
  <2>3. CASE p \in Submitters
    BY <2>1, <2>2, <2>3, Dying
  <2>4. CASE p \notin Submitters
    <3> DEFINE m == [My(p) EXCEPT !.row = r, !.outcome = state]
    <3>7. /\ m \in Locals /\ m.row = r /\ m.item = My(p).item
          /\ m.seen = My(p).seen /\ m.found = My(p).found
      BY <1>1 DEF Locals, States
    <3> HIDE DEF m
    <3>1. PICK l \in Locals :
             /\ l = m
             /\ l.row = r /\ l.item = My(p).item
             /\ l.seen = My(p).seen /\ l.found = My(p).found
      BY <3>7
    <3>2. My(p).item \in Items /\ p \in Processes
      BY <1>1, <2>4 DEF Fits
    <3>3. Goes(p, "linking", l)
      BY <2>1, <2>4, <3>1 DEF m
    <3>4. \A i \in Items : Met(i) => Met(i)'
      BY <2>2, DependenciesTyped DEF Stable, Met
    <3>5. Fits(p, "linking", l)'
      <4>1. \A d \in Items : l.seen[d].status = "COMPLETED" => Done(d)'
        BY <1>1, <2>2, <3>1 DEF Fits, Stable
      <4>2. \A i \in l.found : Met(i)'
        BY <1>1, <3>1, <3>4 DEF Fits, Locals
      <4> QED
        BY <2>2, <2>4, <3>1, <3>2, <4>1, <4>2 DEF Fits
    <3>6. "linking" \in Places
      BY DEF Places
    <3> QED
      BY <2>2, <3>1, <3>3, <3>5, <3>6, Advance
  <2> QED
    BY <2>3, <2>4
<1> QED
  BY <1>2, <1>3

-----------------------------------------------------------------------------
(* Running, and what operators do *)

\* One task goes from a state to another.
RowMoves(r) ==
    /\ tasks' \in [Rows -> TaskRecords]
    /\ \A x \in Rows : x # r => tasks'[x] = tasks[x]
    /\ RowSound(r)'
    /\ Exists(r) /\ Exists(r)'
    /\ tasks'[r].item = tasks[r].item
    /\ Settled(r) => Settled(r)'
    /\ UNCHANGED <<roadmap, config, flags>>

LEMMA RowMoving ==
    ASSUME IInv, NEW r \in Rows, RowMoves(r)
    PROVE  StoresSound' /\ Stable
<1>1. ASSUME NEW x \in Rows, x # r
      PROVE  RowSound(x)' /\ (Exists(x)' <=> Exists(x)) /\ (Settled(x) => Settled(x)')
             /\ tasks'[x].item = tasks[x].item
  BY <1>1, StoresTyped DEF RowMoves, RowSound, Exists, Settled
<1>2. TasksMove
  BY <1>1 DEF RowMoves, TasksMove
<1> QED
  BY <1>2, TasksMoving DEF IInv

LEMMA ClaimStep ==
    ASSUME IInv, NEW p \in Actors, Claim(p)
    PROVE  IInv'
<1>1. p \in Processes /\ p \notin Submitters
  BY AtWork DEF Claim, At
<1>2. CASE Goes(p, "idle", Blank) /\ UNCHANGED tasks
  <2>1. StoresSound' /\ Stable
    BY <1>2, NothingMoves DEF Claim, IInv
  <2> QED
    BY <1>1, <1>2, <2>1, BlankTyped, Reading DEF Places
<1>3. ASSUME NEW r \in Rows, Claimable(r),
             tasks' = [tasks EXCEPT ![r].state = "ACTIVE", ![r].owner = p, ![r].runs = @ + 1],
             Goes(p, "working", [Blank EXCEPT !.row = r])
      PROVE  IInv'
  <2> DEFINE l == [Blank EXCEPT !.row = r]
  <2>1. tasks[r] \in TaskRecords /\ RowSound(r) /\ tasks[r].state = "READY"
    BY <1>3, StoresTyped DEF Claimable
  <2>2. tasks' = [tasks EXCEPT ![r] = [tasks[r] EXCEPT !.state = "ACTIVE", !.owner = p,
                                                       !.runs = @ + 1]]
    BY <1>3, <2>1, StoresTyped DEF TaskRecords
  <2>3. [tasks[r] EXCEPT !.state = "ACTIVE", !.owner = p, !.runs = @ + 1] \in TaskRecords
    <3>1. tasks[r].runs + 1 \in Nat /\ "ACTIVE" \in States
      BY <2>1 DEF TaskRecords, States
    <3> QED
      BY <2>1, <3>1 DEF TaskRecords
  <2>4. tasks'[r] = [tasks[r] EXCEPT !.state = "ACTIVE", !.owner = p, !.runs = @ + 1]
    BY <2>2, <2>3, StoresTyped
  <2>5. RowMoves(r)
    BY <1>1, <2>1, <2>2, <2>3, <2>4, StoresTyped
       DEF RowMoves, Claim, RowSound, Exists, Settled, Running, TaskRecords
  <2>6. StoresSound' /\ Stable
    BY <2>5, RowMoving
  <2>7. l \in Locals /\ Fits(p, "working", l)
    BY <1>1, BlankTyped DEF Locals, Fits, Blank, NoEntry
  <2> QED
    BY <1>3, <2>6, <2>7, Reading DEF Places
<1> QED
  BY <1>2, <1>3 DEF Claim

LEMMA FinishStep ==
    ASSUME IInv, NEW p \in Actors, Finish(p)
    PROVE  IInv'
<1> DEFINE l == [Blank EXCEPT !.todo = {i \in Items : Linked(i)}]
<1>1. p \in Processes /\ p \notin Submitters /\ Fits(p, "working", My(p))
  BY AtWork DEF Finish, At
<1>2. PICK r \in Rows : r = My(p).row
  BY <1>1 DEF Fits
<1>3. l \in Locals /\ Fits(p, "refreshing", l)
  BY <1>1, BlankTyped DEF Locals, Fits, Blank, NoEntry
<1>4. CASE UNCHANGED tasks
  <2>1. StoresSound' /\ Stable
    BY <1>4, NothingMoves DEF Finish, IInv
  <2> QED
    BY <1>3, <2>1, Reading DEF Places, Finish
<1>5. ASSUME NEW s \in Outcomes(r), tasks[r].owner = p,
             tasks' = [tasks EXCEPT ![r].state = s, ![r].owner = None, ![r].pr = @ \/ s = "PR_READY"]
      PROVE  IInv'
  <2> DEFINE t == [tasks[r] EXCEPT !.state = s, !.owner = None, !.pr = @ \/ s = "PR_READY"]
  <2>1. tasks[r] \in TaskRecords /\ RowSound(r) /\ tasks[r].state \in Running
    BY <1>1, <1>5, StoresTyped DEF RowSound
  <2>2. /\ s \in {"PR_READY", "BLOCKED", "FAILED_SAFE", "READY", "COMPLETED"}
        /\ s = "COMPLETED" => tasks[r].item \in ReadOnly
    BY <1>5 DEF Outcomes
  <2>3. t \in TaskRecords
    BY <2>1, <2>2 DEF TaskRecords, States
  <2>4. tasks' = [tasks EXCEPT ![r] = t] /\ tasks'[r] = t
    BY <1>2, <1>5, <2>1, StoresTyped DEF TaskRecords
  <2>5. t.state = s /\ t.owner = None /\ t.item = tasks[r].item
    BY <2>1 DEF TaskRecords
  <2> HIDE DEF t
  <2>6. tasks' \in [Rows -> TaskRecords] /\ \A x \in Rows : x # r => tasks'[x] = tasks[x]
    BY <1>2, <2>3, <2>4, StoresTyped
  <2>7. None \notin Processes /\ s \notin Running
    BY <2>2, RoadmapAssumptions DEF Actors, Running
  <2>8. RowSound(r)'
    BY <2>2, <2>4, <2>5, <2>7 DEF RowSound, Running, Exists
  <2>9. RowMoves(r)
    BY <2>1, <2>2, <2>4, <2>5, <2>6, <2>8 DEF RowMoves, Finish, Exists, Settled, Running
  <2>10. StoresSound' /\ Stable
    BY <1>2, <2>9, RowMoving
  <2> QED
    BY <1>3, <2>10, Reading DEF Places, Finish
<1> QED
  BY <1>2, <1>4, <1>5 DEF Finish

\* What happens to a task while no process moves.
LEMMA Outside ==
    ASSUME IInv, NEW r \in Rows, RowMoves(r), UNCHANGED session
    PROVE  IInv'
  BY RowMoving, Resting

LEMMA DriftStep ==
    ASSUME IInv, NEW p \in Processes, Drift(p)
    PROVE  IInv'
<1>1. p \in Actors /\ Fits(p, "working", My(p))
  BY AtWork DEF Drift, At, Actors
<1>2. PICK r \in Rows : r = My(p).row
  BY <1>1 DEF Fits
<1> DEFINE t == [tasks[r] EXCEPT !.state = "DELIVERY_RECONCILING", !.recovered = TRUE]
<1>3. tasks[r] \in TaskRecords /\ RowSound(r) /\ tasks[r].state = "ACTIVE"
  BY <1>2, StoresTyped DEF Drift
<1>4. tasks' = [tasks EXCEPT ![r] = t] /\ t \in TaskRecords
  BY <1>2, <1>3, StoresTyped DEF Drift, TaskRecords, States
<1>5. tasks'[r] = t
  BY <1>2, <1>4, StoresTyped
<1>6. RowSound(r)'
  BY <1>3, <1>5 DEF RowSound, TaskRecords, Running, Exists
<1>7. RowMoves(r)
  BY <1>2, <1>3, <1>4, <1>5, <1>6, StoresTyped
     DEF RowMoves, Drift, TaskRecords, Exists, Settled, Running
<1> QED
  BY <1>2, <1>7, Outside DEF Drift

LEMMA ReapStep ==
    ASSUME IInv, NEW r \in Rows, Reap(r)
    PROVE  IInv'
<1>1. tasks[r] \in TaskRecords /\ RowSound(r) /\ tasks[r].state \in Running
  BY StoresTyped DEF Reap
<1>2. PICK s \in {"BLOCKED", "READY", "FAILED_SAFE"} :
        tasks' = [tasks EXCEPT ![r] = [tasks[r] EXCEPT !.state = s, !.owner = None]]
  <2>1. tasks \in [Rows -> TaskRecords]
    BY StoresTyped
  <2>2. tasks' = [tasks EXCEPT ![r] = [tasks[r] EXCEPT !.owner = None,
           !.state = IF tasks[r].state = "DELIVERY_RECONCILING" THEN "BLOCKED"
                     ELSE IF tasks[r].runs < MaxRuns THEN "READY" ELSE "FAILED_SAFE"]]
    BY <1>1, <2>1 DEF Reap, TaskRecords
  <2> QED
    BY <1>1, <2>1, <2>2 DEF TaskRecords
<1> DEFINE t == [tasks[r] EXCEPT !.state = s, !.owner = None]
<1>3. t \in TaskRecords
  BY <1>1 DEF TaskRecords, States
<1>4. tasks'[r] = t /\ tasks' \in [Rows -> TaskRecords]
      /\ \A x \in Rows : x # r => tasks'[x] = tasks[x]
  BY <1>2, <1>3, StoresTyped
<1>5. None \notin Processes
  BY RoadmapAssumptions DEF Actors
<1>6. RowSound(r)'
  BY <1>1, <1>4, <1>5 DEF RowSound, TaskRecords, Running, Exists
<1>7. RowMoves(r)
  BY <1>1, <1>4, <1>6 DEF RowMoves, Reap, TaskRecords, Exists, Settled, Running
<1> QED
  BY <1>7, Outside DEF Reap

LEMMA ReviewStep ==
    ASSUME IInv, NEW r \in Rows, Merge(r) \/ CeoReview(r) \/ Cancel(r)
    PROVE  IInv'
<1>1. tasks[r] \in TaskRecords /\ RowSound(r) /\ tasks \in [Rows -> TaskRecords]
  BY StoresTyped
<1>2. CASE Merge(r)
  <2> DEFINE t == [tasks[r] EXCEPT !.state = "COMPLETED", !.merged = TRUE]
  <2>1. t \in TaskRecords /\ tasks' = [tasks EXCEPT ![r] = t]
    BY <1>1, <1>2 DEF Merge, TaskRecords, States
  <2>2. tasks'[r] = t /\ tasks' \in [Rows -> TaskRecords]
        /\ \A x \in Rows : x # r => tasks'[x] = tasks[x]
    BY <1>1, <2>1
  <2>3. RowSound(r)'
    BY <1>1, <1>2, <2>2 DEF Merge, RowSound, TaskRecords, Running, Exists
  <2>4. RowMoves(r)
    BY <1>1, <1>2, <2>2, <2>3 DEF RowMoves, Merge, TaskRecords, Exists, Settled
  <2> QED
    BY <1>2, <2>4, Outside DEF Merge
<1>3. CASE CeoReview(r)
  <2> DEFINE t == [tasks[r] EXCEPT !.state = "CEO_REVIEW"]
  <2>1. t \in TaskRecords /\ tasks' = [tasks EXCEPT ![r] = t]
    BY <1>1, <1>3 DEF CeoReview, Moved, TaskRecords, States
  <2>2. tasks'[r] = t /\ tasks' \in [Rows -> TaskRecords]
        /\ \A x \in Rows : x # r => tasks'[x] = tasks[x]
    BY <1>1, <2>1
  <2>3. RowSound(r)'
    BY <1>1, <1>3, <2>2 DEF CeoReview, Moved, RowSound, TaskRecords, Running, Exists
  <2>4. RowMoves(r)
    BY <1>1, <1>3, <2>2, <2>3 DEF RowMoves, CeoReview, Moved, TaskRecords, Exists, Settled, RowSound
  <2> QED
    BY <1>3, <2>4, Outside DEF CeoReview, Moved
<1>4. CASE Cancel(r)
  <2> DEFINE t == [tasks[r] EXCEPT !.state = "CANCELLED"]
  <2>1. t \in TaskRecords /\ tasks' = [tasks EXCEPT ![r] = t]
    BY <1>1, <1>4 DEF Cancel, Moved, TaskRecords, States
  <2>2. tasks'[r] = t /\ tasks' \in [Rows -> TaskRecords]
        /\ \A x \in Rows : x # r => tasks'[x] = tasks[x]
    BY <1>1, <2>1
  <2>3. RowSound(r)'
    BY <1>1, <1>4, <2>2 DEF Cancel, Moved, RowSound, TaskRecords, Running, Exists
  <2>4. RowMoves(r)
    BY <1>1, <1>4, <2>2, <2>3 DEF RowMoves, Cancel, Moved, TaskRecords, Exists, Settled
  <2> QED
    BY <1>4, <2>4, Outside DEF Cancel, Moved
<1> QED
  BY <1>2, <1>3, <1>4

\* The file and the flags say nothing about tasks.
LEMMA ControlStep ==
    ASSUME IInv, (\E i \in Items : Edit(i)) \/ SetPaused \/ SetDraining
    PROVE  IInv'
<1>1. UNCHANGED <<roadmap, tasks, session>>
  BY DEF Edit, SetPaused, SetDraining, flags
<1>2. TasksSound' /\ RoadmapSound' /\ Stable
  BY <1>1 DEF IInv, StoresSound, TasksSound, RoadmapSound, RowSound, Stable, TasksOf, Linked,
              Exists, Done, Met, Settled
<1>3. config' \subseteq Items /\ paused' \in BOOLEAN /\ draining' \in BOOLEAN
  BY DEF Edit, SetPaused, SetDraining, flags, IInv, StoresSound
<1> QED
  BY <1>1, <1>2, <1>3, Resting DEF StoresSound

LEMMA CrashStep ==
    ASSUME IInv, NEW p \in Actors, Crash(p)
    PROVE  IInv'
<1>1. StoresSound' /\ Stable
  BY NothingMoves DEF Crash, IInv
<1> QED
  BY <1>1, Dying DEF Crash

-----------------------------------------------------------------------------
(* The invariant *)

LEMMA Initially == Init => IInv
<1> SUFFICES ASSUME Init PROVE IInv
  OBVIOUS
<1>1. None \notin Processes /\ \A p \in Actors : p \in Submitters <=> p \notin Processes
  BY RoadmapAssumptions DEF Actors
<1>2. TasksSound
  <2>1. NoTask \in TaskRecords
    BY DEF NoTask, TaskRecords
  <2>2. \A i \in Items : TasksOf(i) = {}
    BY RoadmapAssumptions DEF Init, TasksOf, NoTask
  <2>3. \A r \in Rows : RowSound(r) /\ ~Exists(r)
    BY <1>1 DEF Init, RowSound, NoTask, Running, Exists
  <2> QED
    BY <2>1, <2>2, <2>3 DEF Init, TasksSound, NoTask
<1>3. RoadmapSound
  BY DEF Init, RoadmapSound, NoEntry, Entries, Linked
<1>4. session \in [Actors -> Sessions]
  BY BlankTyped DEF Init, Down, Sessions, Places
<1>5. \A p \in Actors : Sound(p)
  BY <1>1 DEF Init, Sound, My, Down, Fits, Blank, NoEntry
<1> QED
  BY <1>2, <1>3, <1>4, <1>5 DEF Init, IInv, StoresSound

LEMMA StepKeeps ==
    ASSUME IInv, NEW p \in Actors, Step(p)
    PROVE  IInv'
<1>1. CASE Select(p)
  BY <1>1, BeginStep, AdmitStep, RefreshReadStep, RefreshWriteStep, ReadRecordsStep,
     ListTasksStep, ReviveStep, HoldRevivedStep, ChooseStep, HoldStep, ReadLinkedStep
     DEF Select
<1>2. CASE ~Select(p)
  BY <1>2, StartStep, SyncStep, FindStep, CountStep, CreateStep, LinkStep, ClaimStep, FinishStep
     DEF Step
<1> QED
  BY <1>1, <1>2

LEMMA NextKeeps == IInv /\ [Next]_vars => IInv'
<1> SUFFICES ASSUME IInv, [Next]_vars PROVE IInv'
  OBVIOUS
<1>1. CASE \E p \in Actors : Step(p) \/ Crash(p)
  BY <1>1, StepKeeps, CrashStep
<1>2. CASE \E p \in Processes : Drift(p)
  BY <1>2, DriftStep
<1>3. CASE \E o \in Submitters : Submit(o)
  BY <1>3, SubmitStep DEF Actors
<1>4. CASE \E r \in Rows : Reap(r)
  BY <1>4, ReapStep
<1>5. CASE Review
  BY <1>5, ReviewStep DEF Review
<1>6. CASE (\E i \in Items : Edit(i)) \/ SetPaused \/ SetDraining
  BY <1>6, ControlStep
<1>7. CASE UNCHANGED vars
  BY <1>7, NothingMoves, Resting DEF vars, flags, IInv
<1> QED
  BY <1>1, <1>2, <1>3, <1>4, <1>5, <1>6, <1>7 DEF Next

\* The stores and what the processes rely on stay sound, for every roadmap.
THEOREM AdmissionInvariance == Spec => []IInv
<1>1. Init => IInv
  BY Initially
<1>2. IInv /\ [Next]_vars => IInv'
  BY NextKeeps
<1> QED
  BY <1>1, <1>2, PTL DEF Spec

\* Every variable keeps its type, a running task has the process that claimed it
\* and tasks appear in order.
THEOREM AdmissionTyping == Spec => []TypeOK
<1>1. IInv => TypeOK
  <2> SUFFICES ASSUME IInv PROVE TypeOK
    OBVIOUS
  <2>1. \A r \in Rows : /\ tasks[r].state \in States \cup {"ABSENT"}
                        /\ tasks[r].item \in Items \cup {None}
                        /\ tasks[r].worker \in Builders \cup {None}
    BY StoresTyped DEF TaskRecords
  <2>2. \A p \in Actors : session[p].at \in Places /\ session[p].plan \subseteq Items
    BY DEF IInv, Sessions
  <2> QED
    BY <2>1, <2>2 DEF TypeOK, IInv, StoresSound, TasksSound, RoadmapSound, RowSound
<1> QED
  BY <1>1, AdmissionInvariance, PTL

\* However many processes materialise an item at once and wherever they die, it
\* has one task, and an item that is linked is linked to its own task.
THEOREM AdmissionOnce == Spec => []OneTaskPerItem
<1>1. IInv => OneTaskPerItem
  <2> SUFFICES ASSUME IInv, NEW i \in Items
               PROVE  Cardinality(TasksOf(i)) <= 1 /\ (Linked(i) => roadmap[i].task \in TasksOf(i))
    BY DEF OneTaskPerItem
  <2>1. i # None /\ \A r, x \in TasksOf(i) : r = x
    BY RoadmapAssumptions DEF IInv, StoresSound, TasksSound, TasksOf
  <2>2. TasksOf(i) = {} \/ \E r : TasksOf(i) = {r}
    BY <2>1
  <2>3. Cardinality(TasksOf(i)) \in {0, 1}
    BY <2>2, FS_EmptySet, FS_Singleton
  <2> QED
    BY <2>3, StoresTyped
<1> QED
  BY <1>1, AdmissionInvariance, PTL

\* An item has a task only after everything it depends on was merged, or
\* completed without a pull request.
THEOREM AdmissionOrder == Spec => []ItemsInOrder
<1>1. IInv => ItemsInOrder
  <2> SUFFICES ASSUME IInv, NEW i \in Items, TasksOf(i) # {}, NEW d \in DependsOn[i]
               PROVE  \E r \in TasksOf(d) :
                        \/ tasks[r].state = "COMPLETED"
                        \/ tasks[r].state = "CEO_REVIEW" /\ (tasks[r].merged \/ d \in ReadOnly)
    BY DEF ItemsInOrder
  <2>1. Done(d)
    BY DEF IInv, StoresSound, TasksSound, Met
  <2> QED
    BY <2>1 DEF Done, Settled, TasksOf
<1> QED
  BY <1>1, AdmissionInvariance, PTL

-----------------------------------------------------------------------------
(* The size of the queue *)

\* What the limit is about, and who is past the check of it.
Counted == {r \in Pending : ~tasks[r].recovered}
Creating == {p \in Actors : At(p, "creating")}

\* Room was found for everybody who is about to insert, one at a time, as long as
\* only A take part.
Room(A) ==
    /\ Creating \subseteq A
    /\ Cardinality(Counted) + Cardinality(Creating) <= MaxPending + Cardinality(A) - 1

Only(A) == \A p \in Actors \ A : UNCHANGED session[p]

LEMMA SetsFinite ==
    /\ IsFiniteSet(Counted) /\ Cardinality(Counted) \in Nat
    /\ IsFiniteSet(Creating) /\ Cardinality(Creating) \in Nat
    /\ MaxPending \in Nat /\ MaxPending >= 1
<1>1. Counted \in SUBSET Rows /\ Creating \in SUBSET Actors
  BY DEF Counted, Pending, Creating
<1>2. IsFiniteSet(Counted) /\ IsFiniteSet(Actors)
  BY <1>1, RowsFinite, RoadmapAssumptions
<1>3. IsFiniteSet(Creating)
  BY <1>1, <1>2, FS_Subset
<1>4. MaxPending \in Nat /\ MaxPending >= 1
  BY RoadmapAssumptions
<1> QED
  BY <1>2, <1>3, <1>4, FS_CardinalityType

LEMMA TakingPart ==
    ASSUME NEW A \in SUBSET Actors
    PROVE  IsFiniteSet(A) /\ Cardinality(A) \in Nat
  BY RoadmapAssumptions, FS_Subset, FS_CardinalityType

\* Neither set grows: there is room as before.
LEMMA RoomStays ==
    ASSUME NEW A \in SUBSET Actors, Room(A), Counted' \subseteq Counted,
           Creating' \subseteq Creating
    PROVE  Room(A)'
<1>1. Cardinality(Counted') <= Cardinality(Counted) /\ Cardinality(Counted') \in Nat
  BY SetsFinite, FS_Subset, FS_CardinalityType
<1>2. Cardinality(Creating') <= Cardinality(Creating) /\ Cardinality(Creating') \in Nat
  BY SetsFinite, FS_Subset, FS_CardinalityType
<1> QED
  BY <1>1, <1>2, SetsFinite, TakingPart DEF Room

\* Whoever finds room found fewer tasks than the limit, and no more than all the
\* actors can be about to insert.
LEMMA RoomFound ==
    ASSUME NEW A \in SUBSET Actors, Cardinality(Pending) < MaxPending,
           Counted' = Counted, Creating' \subseteq A
    PROVE  Room(A)'
<1>1. Cardinality(Counted) <= Cardinality(Pending) /\ Cardinality(Pending) \in Nat
  <2>1. Pending \in SUBSET Rows /\ Counted \in SUBSET Pending
    BY DEF Pending, Counted
  <2> QED
    BY <2>1, RowsFinite, FS_Subset, FS_CardinalityType
<1>2. Cardinality(Creating') <= Cardinality(A) /\ Cardinality(Creating') \in Nat
  BY TakingPart, FS_Subset, FS_CardinalityType
<1> QED
  BY <1>1, <1>2, SetsFinite, TakingPart DEF Room

\* An insert adds a task, and is one insert less to come.
LEMMA RoomTaken ==
    ASSUME NEW A \in SUBSET Actors, Room(A), NEW p \in Creating, NEW r,
           Counted' \subseteq Counted \cup {r},
           Creating' \subseteq Creating \ {p}
    PROVE  Room(A)'
<1>1. /\ IsFiniteSet(Counted \cup {r})
      /\ Cardinality(Counted \cup {r}) <= Cardinality(Counted) + 1
      /\ Cardinality(Counted \cup {r}) \in Nat
  <2>1. /\ IsFiniteSet(Counted \cup {r})
        /\ Cardinality(Counted \cup {r}) = IF r \in Counted THEN Cardinality(Counted)
                                            ELSE Cardinality(Counted) + 1
    BY SetsFinite, FS_AddElement
  <2>2. Cardinality(Counted \cup {r}) \in Nat
    BY <2>1, FS_CardinalityType
  <2> QED
    BY <2>1, <2>2, SetsFinite
<1>2. /\ IsFiniteSet(Creating \ {p})
      /\ Cardinality(Creating \ {p}) = Cardinality(Creating) - 1
  BY SetsFinite, FS_RemoveElement
<1>3. Cardinality(Counted') <= Cardinality(Counted \cup {r}) /\ Cardinality(Counted') \in Nat
  BY <1>1, FS_Subset, FS_CardinalityType
<1>4. Cardinality(Creating') <= Cardinality(Creating) - 1 /\ Cardinality(Creating') \in Nat
  BY <1>2, FS_Subset, FS_CardinalityType
<1> QED
  BY <1>1, <1>3, <1>4, SetsFinite, TakingPart DEF Room

\* Nobody but Count lets a process insert.
LEMMA CreatingShrinks ==
    ASSUME IInv, NEW p \in Actors, NEW place \in Places, NEW l, Goes(p, place, l),
           place # "creating"
    PROVE  Creating' \subseteq Creating \ {p}
<1>1. \A q \in Actors : q # p => session'[q] = session[q]
  BY DEF Goes, IInv
<1>2. session'[p].at = place
  BY DEF Goes, IInv, Sessions
<1> QED
  BY <1>1, <1>2 DEF Creating, At

LEMMA DyingShrinks ==
    ASSUME IInv, NEW p \in Actors, Dies(p)
    PROVE  Creating' \subseteq Creating \ {p}
  BY DEF IInv, Dies, Down, Creating, At

\* A step that leaves the tasks alone and lets nobody insert.
LEMMA RoomUntouched ==
    ASSUME IInv, NEW A \in SUBSET Actors, Room(A), NEW p \in Actors, UNCHANGED tasks,
           \/ Dies(p)
           \/ UNCHANGED session
           \/ \E place \in Places \ {"creating"} : \E l : Goes(p, place, l)
    PROVE  Room(A)'
<1>1. Counted' = Counted
  BY DEF Counted, Pending
<1>2. Creating' \subseteq Creating
  <2>1. CASE Dies(p)
    BY <2>1, DyingShrinks
  <2>2. CASE UNCHANGED session
    BY <2>2 DEF Creating, At
  <2>3. CASE \E place \in Places \ {"creating"} : \E l : Goes(p, place, l)
    BY <2>3, CreatingShrinks
  <2> QED
    BY <2>1, <2>2, <2>3
<1> QED
  BY <1>1, <1>2, RoomStays

\* A step of one task, which is counted or a recovery, and stays one.
LEMMA RoomOfTask ==
    ASSUME IInv, NEW A \in SUBSET Actors, Room(A), NEW r \in Rows,
           \A x \in Rows : x # r => tasks'[x] = tasks[x],
           \/ /\ tasks[r].state \in {"READY", "ACTIVE", "BLOCKED"} \/ tasks[r].recovered
              /\ tasks'[r].recovered = tasks[r].recovered
           \/ tasks'[r].recovered
           \/ tasks'[r].state \notin {"READY", "ACTIVE", "BLOCKED"},
           Creating' \subseteq Creating
    PROVE  Room(A)'
<1>1. Counted' \subseteq Counted
  BY DEF Counted, Pending
<1> QED
  BY <1>1, RoomStays

LEMMA RoomAfterSelect ==
    ASSUME IInv, NEW A \in SUBSET Actors, Room(A), NEW p \in Actors, Select(p)
    PROVE  Room(A)'
<1>1. CASE Begin(p)
  <2>1. Creating' \subseteq Creating
    BY <1>1, CreatingShrinks DEF Begin, Moves, Places
  <2>2. PICK released \in SUBSET {r \in Rows : tasks[r].state = "BLOCKED"} :
          tasks' = [r \in Rows |->
              IF r \in released THEN [tasks[r] EXCEPT !.state = "READY"] ELSE tasks[r]]
    BY <1>1 DEF Begin
  <2>3. ASSUME NEW r \in Rows, r \in Counted' PROVE r \in Counted
    <3>1. CASE r \in released
      <4>1. tasks'[r] = [tasks[r] EXCEPT !.state = "READY"] /\ tasks[r] \in TaskRecords
        BY <2>2, <3>1, StoresTyped
      <4>2. tasks'[r].recovered = tasks[r].recovered /\ tasks[r].state = "BLOCKED"
        BY <2>2, <3>1, <4>1 DEF TaskRecords
      <4> QED
        BY <2>3, <4>2 DEF Counted, Pending
    <3>2. CASE r \notin released
      BY <2>2, <2>3, <3>2 DEF Counted, Pending
    <3> QED
      BY <3>1, <3>2
  <2>4. Counted' \subseteq Counted
    BY <2>3 DEF Counted, Pending
  <2> QED
    BY <2>1, <2>4, RoomStays
<1>2. CASE Admit(p)
  BY <1>2, RoomUntouched DEF Admit, Moves, Places
<1>3. CASE RefreshRead(p)
  BY <1>3, RoomUntouched DEF RefreshRead, Places
<1>4. CASE RefreshWrite(p)
  BY <1>4, RoomUntouched DEF RefreshWrite, Places
<1>5. CASE ReadRecords(p)
  BY <1>5, RoomUntouched DEF ReadRecords, Places
<1>6. CASE ListTasks(p)
  BY <1>6, RoomUntouched DEF ListTasks, Places
<1>7. CASE Revive(p)
  BY <1>7, RoomUntouched DEF Revive, Moves, Places
<1>8. CASE HoldRevived(p)
  BY <1>8, RoomUntouched DEF HoldRevived, Places
<1>9. CASE Choose(p)
  BY <1>9, RoomUntouched DEF Choose, Places
<1>10. CASE \E i \in Items : Hold(p, i) \/ ReadLinked(p, i)
  BY <1>10, RoomUntouched DEF Hold, ReadLinked, Places
<1> QED
  BY <1>1, <1>2, <1>3, <1>4, <1>5, <1>6, <1>7, <1>8, <1>9, <1>10 DEF Select

LEMMA RoomAfterCount ==
    ASSUME IInv, NEW A \in SUBSET Actors, Room(A), NEW p \in Actors, Count(p), Only(A)
    PROVE  Room(A)'
<1>1. CASE Full
  BY <1>1, RoomUntouched DEF Count
<1>2. CASE ~Full
  <2>1. Counted' = Counted
    BY DEF Count, Counted, Pending
  <2>2. Cardinality(Pending) < MaxPending
    <3>1. Pending \in SUBSET Rows
      BY DEF Pending
    <3>2. Cardinality(Pending) \in Nat
      BY <3>1, RowsFinite, FS_CardinalityType
    <3> QED
      BY <1>2, <3>2, SetsFinite DEF Full
  <2>3. session[p].at = "counting" /\ session'[p].at = "creating"
    BY <1>2 DEF Count, At, Moves, Goes, IInv, Sessions
  <2>4. p \in A
    BY <2>3 DEF Only
  <2>5. Creating' \subseteq A
    <3>1. \A q \in Actors : q # p => session'[q] = session[q]
      BY <1>2 DEF Count, Moves, Goes, IInv
    <3> QED
      BY <2>4, <3>1 DEF Room, Creating, At
  <2> QED
    BY <2>1, <2>2, <2>5, RoomFound
<1> QED
  BY <1>1, <1>2

LEMMA RoomAfterTaking ==
    ASSUME IInv, NEW A \in SUBSET Actors, Room(A), NEW p \in Actors, NEW r, Takes(p, r),
           UNCHANGED tasks
    PROVE  Room(A)'
  BY RoomUntouched DEF Takes, Places

LEMMA RoomAfterCreate ==
    ASSUME IInv, NEW A \in SUBSET Actors, Room(A), NEW p \in Actors, Create(p)
    PROVE  Room(A)'
<1>1. CASE KeyTaken(My(p).item)
  BY <1>1, RoomAfterTaking DEF Create
<1>2. CASE ~KeyTaken(My(p).item)
  <2>1. PICK state \in {"READY", "BLOCKED"}, r \in Rows :
          /\ tasks' = [tasks EXCEPT ![r] =
               [NoTask EXCEPT !.state = state, !.item = My(p).item, !.worker = My(p).worker]]
          /\ IF p \in Submitters THEN Dies(p)
             ELSE Goes(p, "linking", [My(p) EXCEPT !.row = r, !.outcome = state])
    BY <1>2 DEF Create
  <2>2. Creating' \subseteq Creating \ {p}
    BY <2>1, DyingShrinks, CreatingShrinks DEF Places
  <2>3. Counted' \subseteq Counted \cup {r}
    BY <2>1, StoresTyped DEF Counted, Pending
  <2>4. p \in Creating
    BY DEF Creating, Create
  <2> QED
    BY <2>2, <2>3, <2>4, RoomTaken
<1> QED
  BY <1>1, <1>2

LEMMA RoomAfterRun ==
    ASSUME IInv, NEW A \in SUBSET Actors, Room(A), NEW p \in Actors, Claim(p) \/ Finish(p)
    PROVE  Room(A)'
<1>1. CASE UNCHANGED tasks
  BY <1>1, RoomUntouched DEF Claim, Finish, Places
<1>2. Creating' \subseteq Creating
  BY CreatingShrinks DEF Claim, Finish, Places
<1>3. ASSUME NEW r \in Rows, Claimable(r),
             tasks' = [tasks EXCEPT ![r].state = "ACTIVE", ![r].owner = p, ![r].runs = @ + 1]
      PROVE  Room(A)'
  <2>1. tasks[r] \in TaskRecords /\ tasks \in [Rows -> TaskRecords] /\ tasks[r].state = "READY"
    BY <1>3, StoresTyped DEF Claimable
  <2>2. tasks'[r].recovered = tasks[r].recovered /\ \A x \in Rows : x # r => tasks'[x] = tasks[x]
    BY <1>3, <2>1 DEF TaskRecords
  <2> QED
    BY <1>2, <2>1, <2>2, RoomOfTask
<1>4. ASSUME NEW r \in Rows, r = My(p).row, tasks[r].owner = p, p \in Processes, NEW s,
             tasks' = [tasks EXCEPT ![r].state = s, ![r].owner = None, ![r].pr = @ \/ s = "PR_READY"]
      PROVE  Room(A)'
  <2>1. tasks[r] \in TaskRecords /\ tasks \in [Rows -> TaskRecords]
        /\ RowSound(r) /\ tasks[r].state \in Running
    BY <1>4, StoresTyped DEF RowSound
  <2>2. tasks'[r].recovered = tasks[r].recovered /\ \A x \in Rows : x # r => tasks'[x] = tasks[x]
    BY <1>4, <2>1 DEF TaskRecords
  <2>3. tasks[r].state = "ACTIVE" \/ tasks[r].recovered
    BY <2>1 DEF RowSound, Running
  <2> QED
    BY <1>2, <2>2, <2>3, RoomOfTask
<1>5. CASE Claim(p)
  BY <1>1, <1>3, <1>5 DEF Claim
<1>6. CASE Finish(p)
  <2>1. p \in Processes /\ My(p).row \in Rows
    BY <1>6, AtWork DEF Finish, At, Fits
  <2> QED
    BY <1>1, <1>4, <1>6, <2>1 DEF Finish
<1> QED
  BY <1>5, <1>6

LEMMA RoomAfterStep ==
    ASSUME IInv, NEW A \in SUBSET Actors, Room(A), NEW p \in Actors, Step(p), Only(A)
    PROVE  Room(A)'
<1>1. CASE Start(p)
  <2>1. Counted' = Counted
    BY <1>1 DEF Start, Counted, Pending
  <2>2. Creating' \subseteq Creating
    BY <1>1 DEF Start, IInv, Sessions, Creating, At
  <2> QED
    BY <2>1, <2>2, RoomStays
<1>2. CASE Sync(p)
  BY <1>2, RoomUntouched DEF Sync, Moves, Places
<1>3. CASE Find(p)
  <2>1. CASE Moves(p, "counting")
    BY <1>3, <2>1, RoomUntouched DEF Find, Moves, Places
  <2>2. CASE \E r \in TasksOf(My(p).item) : Takes(p, r)
    BY <1>3, <2>2, RoomAfterTaking DEF Find
  <2> QED
    BY <1>3, <2>1, <2>2 DEF Find
<1>4. CASE Link(p)
  BY <1>4, RoomUntouched DEF Link, Places
<1> QED
  BY <1>1, <1>2, <1>3, <1>4, RoomAfterSelect, RoomAfterCount, RoomAfterCreate, RoomAfterRun
     DEF Step

LEMMA RoomAfterOthers ==
    ASSUME IInv, NEW A \in SUBSET Actors, Room(A), NEW r \in Rows,
           Reap(r) \/ Merge(r) \/ CeoReview(r) \/ Cancel(r)
    PROVE  Room(A)'
<1>1. Creating' \subseteq Creating
  BY DEF Reap, Merge, CeoReview, Cancel, Moved, Creating, At
<1>2. tasks[r] \in TaskRecords /\ tasks \in [Rows -> TaskRecords] /\ RowSound(r)
  BY StoresTyped
<1>3. CASE Reap(r)
  <2>1. tasks'[r].recovered = tasks[r].recovered /\ \A x \in Rows : x # r => tasks'[x] = tasks[x]
    BY <1>2, <1>3 DEF Reap, TaskRecords
  <2>2. tasks[r].state = "ACTIVE" \/ tasks[r].recovered
    BY <1>2, <1>3 DEF Reap, RowSound, Running
  <2> QED
    BY <1>1, <2>1, <2>2, RoomOfTask
<1>4. CASE Merge(r) \/ CeoReview(r) \/ Cancel(r)
  <2>1. /\ tasks'[r].state \in {"COMPLETED", "CEO_REVIEW", "CANCELLED"}
        /\ \A x \in Rows : x # r => tasks'[x] = tasks[x]
    BY <1>2, <1>4 DEF Merge, CeoReview, Cancel, Moved, TaskRecords
  <2> QED
    BY <1>1, <2>1, RoomOfTask
<1> QED
  BY <1>3, <1>4

LEMMA RoomKept ==
    ASSUME IInv, NEW A \in SUBSET Actors, Room(A), [Next /\ Only(A)]_vars
    PROVE  Room(A)'
<1>0. Only(A)
  BY DEF Only, vars
<1>1. CASE \E p \in Actors : Step(p)
  BY <1>0, <1>1, RoomAfterStep
<1>2. CASE \E p \in Actors : Crash(p)
  BY <1>2, RoomUntouched DEF Crash
<1>3. CASE \E p \in Processes : Drift(p)
  <2>1. PICK p \in Processes : Drift(p)
    BY <1>3
  <2>2. p \in Actors /\ My(p).row \in Rows
    BY <2>1, AtWork DEF Drift, At, Fits, Actors
  <2>3. PICK r \in Rows : r = My(p).row
    BY <2>2
  <2>4. /\ tasks'[r].recovered
        /\ \A x \in Rows : x # r => tasks'[x] = tasks[x]
    BY <2>1, <2>3, StoresTyped DEF Drift, TaskRecords
  <2>5. Creating' \subseteq Creating
    BY <2>1 DEF Drift, Creating, At
  <2> QED
    BY <2>4, <2>5, RoomOfTask
<1>4. CASE \E o \in Submitters : Submit(o)
  BY <1>4, RoomUntouched DEF Submit, Places, Actors
<1>5. CASE (\E r \in Rows : Reap(r)) \/ Review
  BY <1>5, RoomAfterOthers DEF Review
<1>6. CASE (\E i \in Items : Edit(i)) \/ SetPaused \/ SetDraining \/ UNCHANGED vars
  <2>1. Counted' = Counted /\ Creating' = Creating
    BY <1>6 DEF Edit, SetPaused, SetDraining, vars, flags, Counted, Pending, Creating, At
  <2> QED
    BY <2>1, RoomStays
<1> QED
  BY <1>1, <1>2, <1>3, <1>4, <1>5, <1>6 DEF Next

LEMMA RoomAtFirst ==
    ASSUME Init, NEW A \in SUBSET Actors
    PROVE  Room(A)
<1>1. Counted = {} /\ Creating = {}
  BY DEF Init, Counted, Pending, NoTask, Creating, At, Down
<1> QED
  BY <1>1, FS_EmptySet, SetsFinite, TakingPart DEF Room

LEMMA RoomBounds ==
    ASSUME NEW A \in SUBSET Actors, Room(A)
    PROVE  QueueBoundedBy(Cardinality(A))
  BY SetsFinite, TakingPart DEF Room, QueueBoundedBy, Counted

\* Submissions that meet exceed the limit of the queue by at most one task for
\* each actor but the first, however many tasks come and go, and whatever is
\* reaped or dies.  Only the actors that take part count.
THEOREM AdmissionBounded ==
    ASSUME NEW A \in SUBSET Actors
    PROVE  Init /\ [][Next /\ Only(A)]_vars => []QueueBoundedBy(Cardinality(A))
<1>1. Init => Room(A)
  BY RoomAtFirst
<1>2. IInv /\ Room(A) /\ [Next /\ Only(A)]_vars => Room(A)'
  BY RoomKept
<1>3. Room(A) => QueueBoundedBy(Cardinality(A))
  BY RoomBounds
<1>4. [Next /\ Only(A)]_vars => [Next]_vars
  OBVIOUS
<1> QED
  BY <1>1, <1>2, <1>3, <1>4, AdmissionInvariance, PTL DEF Spec

\* The bound when everybody may take part.
COROLLARY AdmissionBoundedForAll == Spec => []QueueBoundedBy(Cardinality(Actors))
<1>1. Init => Room(Actors)
  BY RoomAtFirst
<1>2. IInv /\ Room(Actors) /\ [Next]_vars => Room(Actors)'
  <2>1. [Next]_vars => [Next /\ Only(Actors)]_vars
    BY DEF Only
  <2> QED
    BY <2>1, RoomKept
<1>3. Room(Actors) => QueueBoundedBy(Cardinality(Actors))
  BY RoomBounds
<1> QED
  BY <1>1, <1>2, <1>3, AdmissionInvariance, PTL DEF Spec
=============================================================================
