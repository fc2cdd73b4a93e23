-------------------------- MODULE ActivationProofs --------------------------
(***************************************************************************)
(* Theorems about controlled activation for every set of plans, routes,    *)
(* nonces, scopes and processes, with any number of crashes and of         *)
(* interrupted rollbacks.                                                  *)
(*                                                                         *)
(* The inductive invariant has a part for every store, a part that ties    *)
(* the request to the signature, and for every process what it may rely    *)
(* on in its phase.  What a process relies on is never undone (Stable), so *)
(* a step has to be looked at for the process that takes it and for the    *)
(* stores it writes; the lemmas Stays... say that the rest is untouched.   *)
(***************************************************************************)
EXTENDS ActivationProperties, TLAPS

Types ==
    /\ record \in [Activations -> Pending \cup {"ABSENT", "ROLLED_BACK"}]
    /\ active \in Activations \cup {None}
    /\ routeRecord \in [Activations ->
         RoutePending \cup {"ABSENT", "PRODUCTION_VERIFIED", "ROLLBACK", "ROLLED_BACK"}]
    /\ route \in [Routes -> {Disabled} \cup {Executing(a) : a \in Activations}
                                       \cup {Verified(a) : a \in Activations}]
    /\ nonces \in [Routes -> SUBSET Nonces]
    /\ evidence \subseteq Activations
    /\ lifecycle \in [Scopes -> Seq(Activations)]
    /\ requests \in [Activations -> Nat]
    /\ artifacts \in BOOLEAN
    /\ session \in [Processes -> Sessions]

\* A plan whose record has left these states never executes (again).
Fresh(a) == routeRecord[a] \in {"ABSENT", "PREPARED", "AUTHORIZED"}

\* p may still send the request.
Paying(p) == In(p, {"executing", "sending"})

\* a was let through with its nonce.
Signed(a) ==
    \/ routeRecord[a] \in {"AUTHORIZED", "EXECUTING", "PRODUCTION_VERIFIED"}
    \/ requests[a] > 0
    \/ \E p \in Processes : Paying(p) /\ session[p].act = a

Written(a) == \E i \in 1..Len(Lifecycle(a)) : Lifecycle(a)[i] = a

\* The activation store: one activation at a time, and the active one is the
\* one that was accepted.
RecordsSound ==
    /\ \A a, b \in Activations : record[a] \in Pending /\ record[b] \in Pending => a = b
    /\ \A a \in Activations : record[a] = "PRODUCTION_VERIFIED" => a \in evidence
    /\ \A a \in Activations : record[a] = "PRODUCTION_VERIFIED" <=> active = a
    /\ \A a \in Batched : record[a] = "ABSENT"

\* A route store: who holds the route says so, nobody else is in progress.
RoutesSound ==
    /\ RouteIsRecorded
    /\ \A a, b \in Activations :
         /\ RouteOf[a] = RouteOf[b]
         /\ routeRecord[a] \in RoutePending
         /\ routeRecord[b] \in RoutePending \/ Route(b).id = b
         => a = b

\* One payer for a plan, one plan for a nonce.
PaymentsSound ==
    /\ \A a \in Activations : Signed(a) => NonceOf[a] \in nonces[RouteOf[a]]
    /\ \A a, b \in Activations :
         RouteOf[a] = RouteOf[b] /\ NonceOf[a] = NonceOf[b] /\ Signed(a) /\ Signed(b) => a = b
    /\ \A p, q \in Processes :
         Paying(p) /\ Paying(q) /\ session[p].act = session[q].act => p = q
    /\ \A p \in Processes : Paying(p) => requests[session[p].act] = 0
    /\ \A a \in Activations : requests[a] \in {0, 1} /\ (requests[a] = 1 => ~Fresh(a))

\* The provider and the lifecycle sets.
ResultsSound ==
    /\ LifecycleStaged
    /\ \A a \in evidence : requests[a] = 1 /\ Written(a)

Complete(a) == requests[a] = 1 /\ a \in evidence /\ ClosedRoute(a)

ArtifactsSound == artifacts => \A a \in Batched : Complete(a)

\* The plan p is at work on.
Bound(p) ==
    /\ session[p].act \in Activations
    /\ p \notin Batches => session[p].act \in Controlled
    /\ p \in Batches => session[p].done < Len(BatchRuns) /\ session[p].act = NextRun(p)

\* The captures a batch process holds.
Holds(p) ==
    /\ session[p].done <= Len(BatchRuns)
    /\ \A i \in 1..session[p].done : Complete(BatchRuns[i])

\* What p may rely on in its phase.
Relies(p) ==
    LET a == session[p].act IN
    /\ p \in Operators => In(p, {"idle", "reverting", "checking", "abandoning"})
    /\ p \in Batches =>
         /\ ~In(p, {"returned", "accepted", "abandoning"})
         /\ In(p, {"reverting", "checking", "reading"}) => a \in evidence
         /\ In(p, {"reading"}) => ClosedRoute(a)
    /\ p \notin Batches => ~In(p, {"reading"})
    /\ ~In(p, {"idle", "preflight", "opening", "abandoning"}) => routeRecord[a] # "ABSENT"
    /\ Paying(p) => ~Fresh(a)
    /\ In(p, {"opening", "prepared", "authorized", "executing", "sending", "waiting",
              "persisted", "confirmed"}) =>
         Len(session[p].seen) = IF a \in Refinements THEN 1 ELSE 0
    /\ In(p, {"waiting", "persisted", "confirmed"}) => requests[a] = 1
    /\ In(p, {"persisted", "confirmed"}) => Written(a)
    /\ In(p, {"verified", "returned"}) => a \in evidence

Sound(p) ==
    /\ ~In(p, {"idle"}) => Bound(p)
    /\ p \in Batches => Holds(p)
    /\ Relies(p)

IInv ==
    /\ Types /\ RecordsSound /\ RoutesSound /\ PaymentsSound /\ ResultsSound
    /\ ArtifactsSound /\ \A p \in Processes : Sound(p)

-----------------------------------------------------------------------------
(* What no step undoes *)

Stable ==
    /\ \A a \in Activations :
         /\ requests[a] = 1 => requests'[a] = 1
         /\ a \in evidence => a \in evidence'
         /\ Written(a) => Written(a)'
         /\ routeRecord[a] # "ABSENT" => routeRecord'[a] # "ABSENT"
         /\ ~Fresh(a) => ~Fresh(a)'
    /\ \A a \in Batched : ClosedRoute(a) => ClosedRoute(a)'

\* Only p moves.
Alone(p) ==
    /\ session' \in [Processes -> Sessions]
    /\ \A q \in Processes : q # p => session'[q] = session[q]

\* What p knows it keeps.
Keeps(p) ==
    /\ session'[p].act = session[p].act
    /\ session'[p].done = session[p].done

LEMMA BatchRunsTyped ==
    /\ Batched \subseteq Activations
    /\ \A i \in 1..Len(BatchRuns) : BatchRuns[i] \in Batched
BY ActivationAssumptions DEF ActivationAssumptions, Batched

LEMMA GoesOn ==
    ASSUME Types, NEW p \in Processes, NEW phase \in Phases, Goes(p, phase)
    PROVE  Alone(p) /\ Keeps(p) /\ session'[p].phase = phase /\ session'[p].seen = session[p].seen
BY DEF Types, Goes, Alone, Keeps, Sessions

LEMMA IdleTyped == Idle \in Sessions /\ Idle.phase = "idle" /\ Idle.done = 0
BY DEF Idle, Sessions, Phases

LEMMA EndsAll ==
    ASSUME Types, NEW p \in Processes, Ends(p)
    PROVE  Alone(p) /\ session'[p] = Idle
BY IdleTyped DEF Types, Ends, Alone

\* Who does nothing relies on nothing.
LEMMA IdleSound ==
    ASSUME NEW p \in Processes, session[p] = Idle
    PROVE  Sound(p) /\ ~Paying(p)
<1>1. session[p].phase = "idle" /\ session[p].done = 0
  BY IdleTyped
<1>2. Holds(p)
  BY <1>1, ActivationAssumptions DEF ActivationAssumptions, Holds
<1>. QED BY <1>1, <1>2 DEF Sound, Relies, In, Paying

\* A batch keeps its captures, whoever moves.
LEMMA HeldStays ==
    ASSUME Stable, NEW p \in Processes, session[p] \in Sessions, Holds(p),
           session'[p].done = session[p].done
    PROVE  Holds(p)'
BY BatchRunsTyped DEF Holds, Complete, Stable, Sessions

LEMMA BoundStays ==
    ASSUME NEW p \in Processes, Bound(p), Keeps(p)
    PROVE  Bound(p)'
BY DEF Bound, Keeps, NextRun

\* The run of a batch is one of its fixtures.
LEMMA RunBatched ==
    ASSUME NEW p \in Batches, session[p] \in Sessions, Bound(p)
    PROVE  session[p].act \in Batched
BY BatchRunsTyped DEF Bound, NextRun, Sessions

\* A process that does not move stays sound.
LEMMA Others ==
    ASSUME Stable, NEW p \in Processes, session[p] \in Sessions, Sound(p),
           session'[p] = session[p]
    PROVE  Sound(p)'
<1>1. p \in Batches => Holds(p)'
  BY HeldStays DEF Sound
<1>2. In(p, {"idle"})' <=> In(p, {"idle"})
  BY DEF In
<1>3. ~In(p, {"idle"}) => Bound(p)'
  BY BoundStays DEF Sound, Keeps
<1>4. Relies(p)'
  <2>1. CASE In(p, {"idle"})
    BY <2>1 DEF Sound, Relies, In, Paying
  <2>2. CASE ~In(p, {"idle"})
    <3>1. Bound(p) /\ session[p].act \in Activations
      BY <2>2 DEF Sound, Bound
    <3>2. p \in Batches /\ In(p, {"reading"}) => ClosedRoute(session[p].act)'
      BY <3>1, RunBatched DEF Sound, Relies, Stable
    <3>. QED BY <3>1, <3>2 DEF Sound, Relies, Stable, In, Paying
  <2>. QED BY <2>1, <2>2
<1>. QED BY <1>1, <1>2, <1>3, <1>4 DEF Sound

-----------------------------------------------------------------------------
(* Parts a step does not touch *)

LEMMA RecordsKept ==
    ASSUME RecordsSound, UNCHANGED stores, evidence \subseteq evidence'
    PROVE  RecordsSound'
BY DEF RecordsSound, stores

LEMMA RoutesKept ==
    ASSUME RoutesSound, UNCHANGED <<routeRecord, route>>
    PROVE  RoutesSound'
BY DEF RoutesSound, RouteIsRecorded, Route

LEMMA ResultsKept ==
    ASSUME ResultsSound, UNCHANGED <<lifecycle, requests, evidence>>
    PROVE  ResultsSound'
BY DEF ResultsSound, LifecycleStaged, Written, Lifecycle

\* No new payer, no new signature, no request.
LEMMA PaymentsKept ==
    ASSUME PaymentsSound, NEW p \in Processes, Alone(p), UNCHANGED requests,
           \A x \in Routes : nonces[x] \subseteq nonces'[x],
           \A a \in Activations :
             /\ routeRecord'[a] \in {"AUTHORIZED", "EXECUTING", "PRODUCTION_VERIFIED"} => Signed(a)
             /\ ~Fresh(a) => ~Fresh(a)',
           Paying(p)' => Paying(p) /\ session'[p].act = session[p].act
    PROVE  PaymentsSound'
<1>1. \A q \in Processes : Paying(q)' => Paying(q) /\ session'[q].act = session[q].act
  BY DEF Alone, Paying, In
<1>2. \A a \in Activations : Signed(a)' => Signed(a)
  BY <1>1 DEF Signed
<1>3. \A a \in Activations : RouteOf[a] \in Routes
  BY ActivationAssumptions DEF ActivationAssumptions
<1>. QED BY <1>1, <1>2, <1>3 DEF PaymentsSound

\* Everything but the sessions.
LEMMA StoresKept ==
    ASSUME IInv, NEW p \in Processes, Alone(p), UNCHANGED <<stores, routeStore, outside>>,
           Paying(p)' => Paying(p) /\ session'[p].act = session[p].act
    PROVE  /\ Types' /\ RecordsSound' /\ RoutesSound' /\ PaymentsSound' /\ ResultsSound'
           /\ ArtifactsSound' /\ Stable
<1>1. Types'
  BY DEF IInv, Types, Alone, stores, routeStore, outside
<1>2. Stable
  BY DEF Stable, routeStore, outside, Written, Lifecycle, Fresh, ClosedRoute, Route
<1>3. PaymentsSound'
  <2>1. \A a \in Activations : routeRecord'[a] \in {"AUTHORIZED", "EXECUTING", "PRODUCTION_VERIFIED"} => Signed(a)
    BY DEF routeStore, Signed
  <2>2. \A a \in Activations : ~Fresh(a) => ~Fresh(a)'
    BY DEF routeStore, Fresh
  <2>. QED BY <2>1, <2>2, PaymentsKept DEF IInv, routeStore, outside
<1>4. ArtifactsSound'
  BY DEF IInv, ArtifactsSound, Complete, ClosedRoute, Route, routeStore, outside
<1>. QED BY <1>1, <1>2, <1>3, <1>4, RecordsKept, RoutesKept, ResultsKept
        DEF IInv, routeStore, outside

\* A step of p is sound when the stores are and p is.
LEMMA Mover ==
    ASSUME IInv, NEW p \in Processes, Alone(p), Stable, Sound(p)'
    PROVE  \A q \in Processes : Sound(q)'
<1>. TAKE q \in Processes
<1>1. CASE q = p
  BY <1>1
<1>2. CASE q # p
  BY <1>2, Others DEF IInv, Alone, Types
<1>. QED BY <1>1, <1>2

\* A step that writes no store.
LEMMA SessionStep ==
    ASSUME IInv, NEW p \in Processes, Alone(p), UNCHANGED <<stores, routeStore, outside>>,
           Paying(p)' => Paying(p) /\ session'[p].act = session[p].act,
           Stable => Sound(p)'
    PROVE  IInv'
BY StoresKept, Mover DEF IInv

-----------------------------------------------------------------------------
(* Steps that only read the stores *)

\* A process that goes on with its plan; only what it relies on is new.
LEMMA WentOn ==
    ASSUME IInv, NEW p \in Processes, ~In(p, {"idle"}), Alone(p), Keeps(p), Stable, Relies(p)'
    PROVE  Sound(p)'
<1>1. session[p] \in Sessions /\ Sound(p) /\ Bound(p)
  BY DEF IInv, Types, Sound
<1>. QED BY <1>1, BoundStays, HeldStays DEF Sound, Keeps

\* What is known of a process at work.
LEMMA AtWork ==
    ASSUME IInv, NEW p \in Processes, ~In(p, {"idle"})
    PROVE  /\ session[p] \in Sessions /\ session[p].act \in Activations
           /\ Relies(p) /\ Bound(p)
BY DEF IInv, Types, Sound, Bound

\* A process that ends is sound.
LEMMA Ended ==
    ASSUME IInv, NEW p \in Processes, Ends(p)
    PROVE  Alone(p) /\ Sound(p)' /\ ~Paying(p)'
<1>1. Alone(p) /\ session'[p] = Idle /\ session'[p].phase = "idle" /\ session'[p].done = 0
  BY EndsAll, IdleTyped DEF IInv
<1>2. Holds(p)'
  BY <1>1, ActivationAssumptions DEF ActivationAssumptions, Holds
<1>. QED BY <1>1, <1>2 DEF Sound, Relies, In, Paying

LEMMA EndStep ==
    ASSUME IInv, NEW p \in Processes, Ends(p), UNCHANGED <<stores, routeStore, outside>>
    PROVE  IInv'
BY Ended, SessionStep

\* A phase in which p relies on what it relied on before.
LEMMA GoStep ==
    ASSUME IInv, NEW p \in Processes, ~In(p, {"idle"}), NEW phase \in Phases, Goes(p, phase),
           UNCHANGED <<stores, routeStore, outside>>,
           phase \in {"executing", "sending"} => Paying(p),
           session'[p].phase = phase /\ session'[p].act = session[p].act
             /\ session'[p].seen = session[p].seen => Relies(p)'
    PROVE  IInv'
<1>1. Alone(p) /\ Keeps(p) /\ session'[p].phase = phase /\ session'[p].seen = session[p].seen
  BY GoesOn DEF IInv
<1>2. Paying(p)' => Paying(p) /\ session'[p].act = session[p].act
  BY <1>1 DEF Paying, In, Keeps
<1>. QED BY <1>1, <1>2, WentOn, SessionStep DEF Keeps

LEMMA PreflightStep ==
    ASSUME IInv, NEW p \in Processes, Preflight(p)
    PROVE  IInv'
<1>. DEFINE a == session[p].act
<1>1. session[p].phase = "preflight" /\ ~In(p, {"idle"})
  BY DEF Preflight, In
<1>2. session[p] \in Sessions /\ a \in Activations /\ Relies(p)
  BY <1>1, AtWork
<1>3. Lifecycle(a) \in Seq(Activations)
  BY <1>2, ActivationAssumptions DEF ActivationAssumptions, IInv, Types, Lifecycle
<1>4. /\ Alone(p) /\ Keeps(p)
      /\ session'[p].phase = "opening" /\ session'[p].seen = Lifecycle(a)
  <2>1. [session[p] EXCEPT !.phase = "opening", !.seen = Lifecycle(a)] \in Sessions
    BY <1>2, <1>3 DEF Sessions, Phases
  <2>. QED BY <1>2, <2>1 DEF Preflight, IInv, Types, Alone, Keeps, Sessions
<1>5. ~Paying(p)'
  BY <1>4 DEF Paying, In
<1>6. Relies(p)'
  BY <1>1, <1>2, <1>4, <1>5 DEF Relies, In, Preflight, StageFits, Keeps
<1>. QED BY <1>1, <1>4, <1>5, <1>6, WentOn, SessionStep DEF Preflight

\* p has gone on to the next phase.
Went(p, phase) ==
    /\ session'[p].phase = phase
    /\ session'[p].act = session[p].act
    /\ session'[p].seen = session[p].seen

LEMMA ConsumeStep ==
    ASSUME IInv, NEW p \in Processes, Consume(p)
    PROVE  IInv'
<1>1. session[p].phase = "executing" /\ ~In(p, {"idle"})
  BY DEF Consume, In
<1>2. Relies(p) /\ Paying(p)
  BY <1>1, AtWork DEF Paying, In
<1>3. ASSUME Went(p, "sending") PROVE Relies(p)'
  BY <1>1, <1>2, <1>3 DEF Relies, In, Paying, Fresh, Consume, routeStore, Went
<1>. QED BY <1>1, <1>2, <1>3, GoStep DEF Consume, Phases, Went

LEMMA ConfirmStep ==
    ASSUME IInv, NEW p \in Processes, Confirm(p)
    PROVE  IInv'
<1>1. session[p].phase = "persisted" /\ ~In(p, {"idle"})
  BY DEF Confirm, In
<1>2. Relies(p)
  BY <1>1, AtWork
<1>3. ASSUME Went(p, "confirmed") PROVE Relies(p)'
  BY <1>1, <1>2, <1>3
     DEF Relies, In, Paying, Confirm, routeStore, outside, Written, Lifecycle, Went
<1>. QED BY <1>1, <1>3, GoStep DEF Confirm, Phases, Went

LEMMA ReadBackStep ==
    ASSUME IInv, NEW p \in Processes, ReadBack(p)
    PROVE  IInv'
<1>1. session[p].phase = "verified" /\ ~In(p, {"idle"})
  BY DEF ReadBack, In
<1>2. Relies(p)
  BY <1>1, AtWork
<1>3. CASE p \in Batches
  <2>1. ASSUME Went(p, "reverting") PROVE Relies(p)'
    BY <1>1, <1>2, <1>3, <2>1 DEF Relies, In, Paying, ReadBack, routeStore, Went
  <2>. QED BY <1>1, <1>3, <2>1, GoStep DEF ReadBack, Phases, Went
<1>4. CASE p \notin Batches
  <2>1. ASSUME Went(p, "returned") PROVE Relies(p)'
    BY <1>1, <1>2, <1>4, <2>1 DEF Relies, In, Paying, ReadBack, routeStore, Went
  <2>. QED BY <1>1, <1>4, <2>1, GoStep DEF ReadBack, Phases, Went
<1>. QED BY <1>3, <1>4

\* A run turns to the activation store, a batch is given up.
LEMMA GivesUpStep ==
    ASSUME IInv, NEW p \in Processes, ~In(p, {"idle"}), GivesUp(p),
           UNCHANGED <<stores, routeStore, outside>>
    PROVE  IInv'
<1>1. CASE p \in Batches
  BY <1>1, EndStep DEF GivesUp
<1>2. CASE p \notin Batches
  <2>1. Relies(p)
    BY AtWork
  <2>2. ASSUME Went(p, "abandoning") PROVE Relies(p)'
    BY <1>2, <2>1, <2>2 DEF Relies, In, Paying, Went
  <2>. QED BY <1>2, <2>2, GoStep DEF GivesUp, Phases, Went
<1>. QED BY <1>1, <1>2

LEMMA RaiseStep ==
    ASSUME IInv, NEW p \in Processes, Raise(p)
    PROVE  IInv'
<1>1. UNCHANGED <<stores, routeStore, outside>>
  BY DEF Raise
<1>2. CASE In(p, {"preflight", "opening"}) /\ GivesUp(p)
  BY <1>1, <1>2, GivesUpStep DEF In
<1>3. CASE /\ In(p, {"prepared", "authorized", "executing", "sending", "waiting",
                     "persisted", "confirmed", "verified"})
           /\ Goes(p, "restoring")
  <2>1. ~In(p, {"idle"})
    BY <1>3 DEF In
  <2>2. Relies(p)
    BY <2>1, AtWork
  <2>3. ASSUME Went(p, "restoring") PROVE Relies(p)'
    BY <1>1, <1>3, <2>2, <2>3 DEF Relies, In, Paying, Went, routeStore
  <2>. QED BY <1>1, <1>3, <2>1, <2>3, GoStep DEF Phases, Went
<1>4. CASE In(p, {"returned"}) /\ Goes(p, "reverting")
  <2>1. ~In(p, {"idle"})
    BY <1>4 DEF In
  <2>2. Relies(p)
    BY <2>1, AtWork
  <2>3. ASSUME Went(p, "reverting") PROVE Relies(p)'
    BY <1>1, <1>4, <2>2, <2>3 DEF Relies, In, Paying, Went, routeStore
  <2>. QED BY <1>1, <1>4, <2>1, <2>3, GoStep DEF Phases, Went
<1>. QED BY <1>2, <1>3, <1>4 DEF Raise

LEMMA CheckStep ==
    ASSUME IInv, NEW p \in Processes, Check(p)
    PROVE  IInv'
<1>. DEFINE a == session[p].act
<1>1. session[p].phase = "checking" /\ ~In(p, {"idle"}) /\ UNCHANGED <<stores, routeStore, outside>>
  BY DEF Check, In
<1>2. Relies(p)
  BY <1>1, AtWork
<1>3. CASE ~ClosedRoute(a)
  BY <1>1, <1>3, EndStep DEF Check
<1>4. CASE ClosedRoute(a) /\ p \in Batches
  <2>1. ASSUME Went(p, "reading") PROVE Relies(p)'
    BY <1>1, <1>2, <1>4, <2>1, ActivationAssumptions
       DEF ActivationAssumptions, Relies, In, Paying, Went, routeStore, ClosedRoute, Route
  <2>. QED BY <1>1, <1>4, <2>1, GoStep DEF Check, Phases, Went
<1>5. CASE ClosedRoute(a) /\ p \notin Batches
  BY <1>1, <1>5, GivesUpStep DEF Check, GivesUp
<1>. QED BY <1>3, <1>4, <1>5

\* A process takes up a plan.
LEMMA BeginStep ==
    ASSUME IInv, NEW p \in Processes, NEW s \in Sessions, session' = [session EXCEPT ![p] = s],
           s.phase \notin {"executing", "sending"},
           UNCHANGED <<stores, routeStore, outside>>,
           Stable /\ session'[p] = s => Sound(p)'
    PROVE  IInv'
<1>1. Alone(p) /\ session'[p] = s
  BY DEF IInv, Types, Alone
<1>2. ~Paying(p)'
  BY <1>1 DEF Paying, In
<1>. QED BY <1>1, <1>2, SessionStep

LEMMA CommandStep ==
    ASSUME IInv, NEW o \in Operators, NEW a \in Activations, Command(o, a)
    PROVE  IInv'
<1>. DEFINE s == [session[o] EXCEPT !.act = a,
              !.phase = CASE routeRecord[a] = "ABSENT" -> "abandoning"
                          [] routeRecord[a] = "ROLLED_BACK" -> "checking"
                          [] OTHER -> "reverting"]
<1>1. o \in Processes /\ o \notin Batches /\ a \in Controlled
  BY ActivationAssumptions
     DEF ActivationAssumptions, Processes, Controlled, Command, IInv, RecordsSound
<1>2. session[o] \in Sessions
  BY <1>1 DEF IInv, Types
<1>3. /\ s \in Sessions /\ s.act = a
      /\ s.phase \in {"abandoning", "checking", "reverting"}
      /\ routeRecord[a] = "ABSENT" => s.phase = "abandoning"
  BY <1>2 DEF Sessions, Phases
<1>4. session' = [session EXCEPT ![o] = s]
  BY <1>2 DEF Command, Sessions
<1>5. ASSUME session'[o] = s PROVE Sound(o)'
  BY <1>1, <1>3, <1>5 DEF Sound, Bound, Relies, In, Paying, Command, routeStore
<1>. HIDE DEF s
<1>. QED BY <1>1, <1>3, <1>4, <1>5, BeginStep DEF Command

LEMMA CaptureStep ==
    ASSUME IInv, NEW b \in Batches, Capture(b)
    PROVE  IInv'
<1>. DEFINE a == NextRun(b)
            s(phase, resumed) == [session[b] EXCEPT !.act = a, !.phase = phase, !.resumed = resumed]
<1>1. b \in Processes /\ b \notin Operators
  BY ActivationAssumptions DEF ActivationAssumptions, Processes
<1>2. session[b] \in Sessions /\ Sound(b) /\ session[b].done < Len(BatchRuns)
  BY <1>1 DEF IInv, Types, Capture
<1>3. a \in Batched /\ a \in Activations
  BY <1>2, BatchRunsTyped DEF NextRun, Sessions
<1>4. ASSUME NEW phase, NEW resumed \in BOOLEAN,
             session' = [session EXCEPT ![b] = s(phase, resumed)],
             \/ phase = "preflight"
             \/ phase \in {"checking", "reverting"} /\ routeRecord[a] # "ABSENT" /\ a \in evidence
      PROVE  IInv'
  <2>1. /\ s(phase, resumed) \in Sessions
        /\ s(phase, resumed).act = a
        /\ s(phase, resumed).phase = phase
        /\ s(phase, resumed).done = session[b].done
    BY <1>2, <1>3, <1>4 DEF Sessions, Phases
  <2>. HIDE DEF s
  <2>2. ASSUME Stable, session'[b] = s(phase, resumed) PROVE Sound(b)'
    <3>1. Bound(b)'
      BY <1>1, <1>2, <1>3, <2>1, <2>2 DEF Bound, NextRun
    <3>2. Holds(b)'
      BY <1>1, <1>2, <2>1, <2>2, HeldStays DEF Sound
    <3>3. Relies(b)'
      BY <1>1, <1>4, <2>1, <2>2 DEF Relies, In, Paying, Capture, routeStore
    <3>. QED BY <3>1, <3>2, <3>3 DEF Sound
  <2>. QED BY <1>1, <1>4, <2>1, <2>2, BeginStep DEF Capture
<1>5. CASE /\ routeRecord[a] = "ABSENT"
           /\ session' = [session EXCEPT ![b] = s("preflight", FALSE)]
  BY <1>4, <1>5
<1>6. CASE /\ Recoverable(a)
           /\ session' = [session EXCEPT ![b] =
                s(IF routeRecord[a] = "ROLLED_BACK" THEN "checking" ELSE "reverting", TRUE)]
  BY <1>4, <1>6 DEF Recoverable
<1>. QED BY <1>5, <1>6 DEF Capture

LEMMA ReadLifecycleStep ==
    ASSUME IInv, NEW p \in Processes, ReadLifecycle(p)
    PROVE  IInv'
<1>. DEFINE a == session[p].act
            s == [Idle EXCEPT !.done = session[p].done + 1]
<1>1. session[p].phase = "reading" /\ ~In(p, {"idle"}) /\ UNCHANGED <<stores, routeStore, outside>>
  BY DEF ReadLifecycle, In
<1>2. Relies(p) /\ Bound(p) /\ session[p] \in Sessions /\ a \in Activations
  BY <1>1, AtWork
<1>3. CASE session' = [session EXCEPT ![p] = Idle]
  BY <1>1, <1>3, EndStep DEF Ends
<1>4. CASE p \notin Batches
  <2>1. FALSE
    BY <1>1, <1>2, <1>4 DEF Relies, In
  <2>. QED BY <2>1
<1>5. CASE p \in Batches /\ session' = [session EXCEPT ![p] = s]
  <2>1. s \in Sessions /\ s.phase = "idle" /\ s.done = session[p].done + 1
    BY <1>2, IdleTyped DEF Sessions
  <2>. HIDE DEF s
  <2>2. ASSUME Stable, session'[p] = s PROVE Sound(p)'
    <3>1. Holds(p) /\ session[p].done \in Nat /\ session[p].done < Len(BatchRuns)
      BY <1>2, <1>5 DEF IInv, Sound, Bound, Sessions
    <3>2. ASSUME NEW i, i = session[p].done + 1 PROVE Complete(BatchRuns[i])'
      <4>1. ClosedRoute(a) /\ a \in evidence /\ a = BatchRuns[i]
        BY <1>1, <1>2, <1>5, <3>2 DEF Relies, In, Bound, NextRun
      <4>2. Complete(BatchRuns[i])
        BY <4>1 DEF IInv, ResultsSound, Complete
      <4>. QED BY <1>1, <4>2 DEF Complete, ClosedRoute, Route, routeStore, outside
    <3>3. \A i \in 1..session[p].done : Complete(BatchRuns[i])'
      BY <1>1, <3>1 DEF Holds, Complete, ClosedRoute, Route, routeStore, outside
    <3>4. Len(BatchRuns) \in Nat
      BY ActivationAssumptions DEF ActivationAssumptions
    <3>5. Holds(p)'
      <4>1. \A i \in 1..(session[p].done + 1) : Complete(BatchRuns[i])'
        <5>. TAKE i \in 1..(session[p].done + 1)
        <5>1. i \in 1..session[p].done \/ i = session[p].done + 1
          BY <3>1
        <5>. QED BY <5>1, <3>2, <3>3
      <4>. QED BY <2>1, <2>2, <3>1, <3>4, <4>1 DEF Holds
    <3>6. Relies(p)'
      BY <2>1, <2>2, <1>5, ActivationAssumptions DEF ActivationAssumptions, Relies, In, Paying
    <3>. QED BY <2>1, <2>2, <3>5, <3>6 DEF Sound, In
  <2>. QED BY <1>1, <1>5, <2>1, <2>2, BeginStep
<1>. QED BY <1>3, <1>4, <1>5 DEF ReadLifecycle

LEMMA CrashStep ==
    ASSUME IInv, NEW p \in Processes, Crash(p)
    PROVE  IInv'
BY EndStep DEF Crash

-----------------------------------------------------------------------------
(* Steps that write the activation store *)

\* What a step beside the route stores leaves alone.
LEMMA RecordStep ==
    ASSUME IInv, NEW p \in Processes, Alone(p), UNCHANGED <<routeStore, outside>>,
           Paying(p)' => Paying(p) /\ session'[p].act = session[p].act,
           record' \in [Activations -> Pending \cup {"ABSENT", "ROLLED_BACK"}],
           active' \in Activations \cup {None},
           RecordsSound',
           Stable => Sound(p)'
    PROVE  IInv'
<1>1. Types'
  BY DEF IInv, Types, Alone, routeStore, outside
<1>2. Stable
  BY DEF Stable, routeStore, outside, Written, Lifecycle, Fresh, ClosedRoute, Route
<1>3. PaymentsSound'
  <2>1. \A a \in Activations : routeRecord'[a] \in {"AUTHORIZED", "EXECUTING", "PRODUCTION_VERIFIED"} => Signed(a)
    BY DEF routeStore, Signed
  <2>2. \A a \in Activations : ~Fresh(a) => ~Fresh(a)'
    BY DEF routeStore, Fresh
  <2>. QED BY <2>1, <2>2, PaymentsKept DEF IInv, routeStore, outside
<1>4. ArtifactsSound'
  BY DEF IInv, ArtifactsSound, Complete, ClosedRoute, Route, routeStore, outside
<1>. QED BY <1>1, <1>2, <1>3, <1>4, RoutesKept, ResultsKept, Mover
        DEF IInv, routeStore, outside

LEMMA PrepareStep ==
    ASSUME IInv, NEW a \in Activations, Prepare(a)
    PROVE  IInv'
<1>1. Types' /\ UNCHANGED <<routeStore, outside, session>>
  BY DEF IInv, Types, Prepare, routeStore, outside, Pending
<1>2. RecordsSound'
  BY DEF IInv, RecordsSound, Types, Prepare, routeStore, Pending, Controlled
<1>3. PaymentsSound'
  BY <1>1 DEF IInv, PaymentsSound, Signed, Paying, In, Fresh, routeStore, outside
<1>4. ArtifactsSound'
  BY <1>1 DEF IInv, ArtifactsSound, Complete, ClosedRoute, Route, routeStore, outside
<1>5. \A p \in Processes : Sound(p)'
  BY <1>1 DEF IInv, Sound, Bound, Holds, Relies, In, Paying, Fresh, Complete, ClosedRoute, Route,
     Written, Lifecycle, NextRun, routeStore, outside
<1>. QED BY <1>1, <1>2, <1>3, <1>4, <1>5, RoutesKept, ResultsKept DEF IInv, routeStore, outside

LEMMA ExecuteStep ==
    ASSUME IInv, NEW r \in Runners, NEW a \in Activations, Execute(r, a)
    PROVE  IInv'
<1>1. r \in Processes /\ r \notin Batches /\ r \notin Operators /\ a \in Controlled
  BY ActivationAssumptions
     DEF ActivationAssumptions, Processes, Controlled, Execute, IInv, RecordsSound
<1>2. session[r] \in Sessions
  BY <1>1 DEF IInv, Types
<1>3. Alone(r) /\ session'[r].act = a /\ session'[r].phase = "preflight"
  <2>1. [session[r] EXCEPT !.phase = "preflight", !.act = a] \in Sessions
    BY <1>2 DEF Sessions, Phases
  <2>. QED BY <1>1, <1>2, <2>1 DEF Execute, IInv, Types, Alone, Sessions
<1>4. ~Paying(r)'
  BY <1>3 DEF Paying, In
<1>5. Sound(r)'
  BY <1>1, <1>3, <1>4 DEF Sound, Bound, Relies, In
<1>6. record' \in [Activations -> Pending \cup {"ABSENT", "ROLLED_BACK"}]
  BY DEF IInv, Types, Execute, Pending
<1>7. RecordsSound'
  BY <1>1 DEF IInv, RecordsSound, Types, Execute, routeStore, Pending, Controlled
<1>. QED BY <1>1, <1>3, <1>4, <1>5, <1>6, <1>7, RecordStep DEF Execute, IInv, Types

LEMMA AcceptStep ==
    ASSUME IInv, NEW p \in Processes, Accept(p)
    PROVE  IInv'
<1>. DEFINE a == session[p].act
<1>1. session[p].phase = "returned" /\ ~In(p, {"idle"})
  BY DEF Accept, In
<1>2. Relies(p) /\ Bound(p) /\ a \in Activations
  BY <1>1, AtWork
<1>3. CASE record[a] = "EXECUTING"
  <2>1. /\ record' = [record EXCEPT ![a] = "PRODUCTION_VERIFIED"] /\ active' = a
        /\ Goes(p, "accepted") /\ UNCHANGED <<routeStore, outside>>
    BY <1>3 DEF Accept
  <2>2. a \in evidence /\ a \notin Batched
    BY <1>1, <1>2, <1>3 DEF Relies, In, IInv, RecordsSound
  <2>3. RecordsSound'
    BY <1>2, <1>3, <2>1, <2>2, ActivationAssumptions
       DEF ActivationAssumptions, IInv, RecordsSound, Types, routeStore, Pending
  <2>4. record' \in [Activations -> Pending \cup {"ABSENT", "ROLLED_BACK"}]
    BY <2>1 DEF IInv, Types, Pending
  <2>5. Alone(p) /\ Keeps(p) /\ Went(p, "accepted")
    BY <2>1, GoesOn DEF IInv, Phases, Went, Keeps
  <2>6. ~Paying(p)' /\ Relies(p)'
    BY <1>1, <1>2, <2>1, <2>5 DEF Relies, In, Paying, Went, routeStore
  <2>7. Stable
    BY <2>1 DEF Stable, routeStore, outside, Written, Lifecycle, Fresh, ClosedRoute, Route
  <2>. QED BY <1>1, <1>2, <2>1, <2>3, <2>4, <2>5, <2>6, <2>7, WentOn, RecordStep
<1>4. CASE record[a] # "EXECUTING"
  <2>1. Goes(p, "reverting") /\ UNCHANGED <<stores, routeStore, outside>>
    BY <1>4 DEF Accept
  <2>2. ASSUME Went(p, "reverting") PROVE Relies(p)'
    BY <1>1, <1>2, <2>1, <2>2 DEF Relies, In, Paying, Went, routeStore
  <2>. QED BY <1>1, <2>1, <2>2, GoStep DEF Phases, Went
<1>. QED BY <1>3, <1>4

LEMMA AbandonStep ==
    ASSUME IInv, NEW p \in Processes, Abandon(p)
    PROVE  IInv'
<1>. DEFINE a == session[p].act
<1>1. ~In(p, {"idle"}) /\ Ends(p) /\ UNCHANGED <<routeStore, outside>>
  BY DEF Abandon, In
<1>2. a \in Activations
  BY <1>1, AtWork
<1>3. CASE record[a] \in Pending
  <2>1. /\ record' = [record EXCEPT ![a] = "ROLLED_BACK"]
        /\ active' = IF active = a THEN None ELSE active
    BY <1>3 DEF Abandon
  <2>2. RecordsSound'
    BY <1>1, <1>2, <1>3, <2>1, ActivationAssumptions
       DEF ActivationAssumptions, IInv, RecordsSound, Types, routeStore, Pending
  <2>3. record' \in [Activations -> Pending \cup {"ABSENT", "ROLLED_BACK"}]
    BY <2>1 DEF IInv, Types
  <2>4. active' \in Activations \cup {None}
    BY <2>1 DEF IInv, Types
  <2>. QED BY <1>1, <2>2, <2>3, <2>4, Ended, RecordStep
<1>4. CASE record[a] \notin Pending
  BY <1>1, <1>4, EndStep DEF Abandon
<1>. QED BY <1>3, <1>4

-----------------------------------------------------------------------------
(* Steps that write a route store *)

RouteTypes ==
    /\ routeRecord \in [Activations ->
         RoutePending \cup {"ABSENT", "PRODUCTION_VERIFIED", "ROLLBACK", "ROLLED_BACK"}]
    /\ route \in [Routes -> {Disabled} \cup {Executing(a) : a \in Activations}
                                       \cup {Verified(a) : a \in Activations}]
    /\ nonces \in [Routes -> SUBSET Nonces]

\* What a transition of one record does not undo.
Forward ==
    /\ \A a \in Activations :
         /\ routeRecord[a] # "ABSENT" => routeRecord'[a] # "ABSENT"
         /\ ~Fresh(a) => ~Fresh(a)'
    /\ \A a \in Batched : ClosedRoute(a) => ClosedRoute(a)'

LEMMA Isolated ==
    ASSUME NEW a \in Batched, NEW b \in Activations, RouteOf[a] = RouteOf[b]
    PROVE  a = b
BY ActivationAssumptions DEF ActivationAssumptions

LEMMA RouteTyped ==
    ASSUME NEW a \in Activations
    PROVE  /\ RouteOf[a] \in Routes /\ NonceOf[a] \in Nonces /\ ScopeOf[a] \in Scopes
           /\ a # None
BY ActivationAssumptions DEF ActivationAssumptions

\* The three shapes of a route.
LEMMA RouteShapes ==
    /\ Disabled.id = None /\ Disabled.mode = "DISABLED"
    /\ \A a : /\ Executing(a).id = a /\ Executing(a).mode = "EXECUTING"
              /\ Verified(a).id = a /\ Verified(a).mode = "PRODUCTION_VERIFIED"
              /\ Executing(a) # Disabled /\ Verified(a) # Disabled
              /\ \A b : Executing(a) # Verified(b)
BY DEF Disabled, Executing, Verified

\* A step of p in the route store that leaves the evidence alone.
LEMMA RouteStep ==
    ASSUME IInv, NEW p \in Processes, Alone(p), UNCHANGED <<stores, evidence, outside>>,
           RouteTypes', RoutesSound', PaymentsSound', Forward, Stable => Sound(p)'
    PROVE  IInv'
<1>1. Types'
  BY DEF IInv, Types, RouteTypes, Alone, stores, outside
<1>2. Stable
  BY DEF Stable, Forward, Written, Lifecycle, outside
<1>3. ArtifactsSound'
  BY <1>2 DEF IInv, ArtifactsSound, Complete, Stable, outside, Batched, Types
<1>. QED BY <1>1, <1>2, <1>3, RecordsKept, ResultsKept, Mover
        DEF IInv, outside

LEMMA PrepareRouteStep ==
    ASSUME IInv, NEW p \in Processes, PrepareRoute(p)
    PROVE  IInv'
<1>. DEFINE a == session[p].act
<1>1. session[p].phase = "opening" /\ ~In(p, {"idle"}) /\ Goes(p, "prepared")
  BY DEF PrepareRoute, In
<1>2. Relies(p) /\ a \in Activations
  BY <1>1, AtWork
<1>3. Alone(p) /\ Keeps(p) /\ Went(p, "prepared")
  BY <1>1, GoesOn DEF IInv, Phases, Went, Keeps
<1>4. /\ routeRecord' = [routeRecord EXCEPT ![a] = "PREPARED"]
      /\ routeRecord[a] \in {"ABSENT", "PREPARED"}
      /\ Route(a) = Disabled
      /\ UNCHANGED <<route, nonces>>
  BY DEF PrepareRoute
<1>5. RouteTypes'
  BY <1>4 DEF IInv, Types, RouteTypes, RoutePending
<1>6. RoutesSound'
  <2>1. RouteIsRecorded'
    BY <1>2, <1>4, RouteTyped, RouteShapes
       DEF IInv, RoutesSound, RouteIsRecorded, Types, RoutePending, Route
  <2>2. ASSUME NEW b \in Activations, NEW c \in Activations, RouteOf[b] = RouteOf[c],
               routeRecord'[b] \in RoutePending,
               routeRecord'[c] \in RoutePending \/ route[RouteOf[c]].id = c
        PROVE  b = c
    <3>1. CASE routeRecord[a] = "PREPARED"
      BY <1>2, <1>4, <2>2, <3>1 DEF IInv, RoutesSound, Types, Route, RoutePending
    <3>2. CASE routeRecord[a] # "PREPARED"
      <4>1. \A d \in Activations : RouteOf[d] = RouteOf[a] => routeRecord[d] \notin RoutePending
        BY <3>2 DEF PrepareRoute, Beside
      <4>2. CASE RouteOf[b] = RouteOf[a]
        <5>1. \A d \in Activations : d # a => routeRecord'[d] = routeRecord[d]
          BY <1>4 DEF IInv, Types
        <5>2. b = a
          BY <2>2, <4>1, <4>2, <5>1
        <5>3. route[RouteOf[c]].id # c
          BY <1>4, <2>2, <4>2, RouteTyped, RouteShapes DEF Route
        <5>. QED BY <2>2, <4>1, <4>2, <5>1, <5>2, <5>3
      <4>3. CASE RouteOf[b] # RouteOf[a]
        BY <1>2, <1>4, <2>2, <4>3 DEF IInv, RoutesSound, Types, Route
      <4>. QED BY <4>2, <4>3
    <3>. QED BY <3>1, <3>2
  <2>. QED BY <1>4, <2>1, <2>2 DEF RoutesSound, Route
<1>7. Forward
  BY <1>2, <1>4 DEF Forward, Fresh, IInv, Types, ClosedRoute, Route
<1>8. ~Paying(p)'
  BY <1>3 DEF Paying, In, Went
<1>9. PaymentsSound'
  <2>1. \A b \in Activations :
          routeRecord'[b] \in {"AUTHORIZED", "EXECUTING", "PRODUCTION_VERIFIED"} => Signed(b)
    BY <1>2, <1>4 DEF IInv, Types, Signed
  <2>. QED BY <1>3, <1>4, <1>7, <1>8, <2>1, PaymentsKept
           DEF IInv, PrepareRoute, outside, Forward
<1>10. Relies(p)'
  BY <1>1, <1>2, <1>3, <1>4, <1>8 DEF Relies, In, Went, IInv, Types
<1>. QED BY <1>1, <1>3, <1>5, <1>6, <1>7, <1>9, <1>10, RouteStep, WentOn DEF PrepareRoute

LEMMA AuthorizeStep ==
    ASSUME IInv, NEW p \in Processes, Authorize(p)
    PROVE  IInv'
<1>. DEFINE a == session[p].act
            x == RouteOf[a]
<1>1. session[p].phase = "prepared" /\ ~In(p, {"idle"}) /\ Goes(p, "authorized")
  BY DEF Authorize, In
<1>2. Relies(p) /\ a \in Activations
  BY <1>1, AtWork
<1>3. Alone(p) /\ Keeps(p) /\ Went(p, "authorized")
  BY <1>1, GoesOn DEF IInv, Phases, Went, Keeps
<1>4. ~Paying(p)'
  BY <1>3 DEF Paying, In, Went
<1>5. CASE routeRecord[a] = "AUTHORIZED" /\ UNCHANGED <<routeRecord, nonces>>
  <2>1. UNCHANGED <<stores, routeStore, outside>>
    BY <1>5 DEF Authorize, routeStore
  <2>2. Relies(p)'
    BY <1>1, <1>2, <1>3, <1>4, <1>5 DEF Relies, In, Went
  <2>. QED BY <1>1, <1>3, <1>4, <2>1, <2>2, WentOn, SessionStep
<1>6. CASE /\ routeRecord[a] = "PREPARED"
           /\ NonceOf[a] \notin nonces[x]
           /\ nonces' = [nonces EXCEPT ![x] = @ \cup {NonceOf[a]}]
           /\ routeRecord' = [routeRecord EXCEPT ![a] = "AUTHORIZED"]
  <2>1. UNCHANGED <<stores, route, evidence, outside>>
    BY DEF Authorize
  <2>2. RouteTypes'
    BY <1>2, <1>6, <2>1, RouteTyped DEF IInv, Types, RouteTypes, RoutePending
  <2>3. RoutesSound'
    <3>1. RouteIsRecorded'
      BY <1>2, <1>6, <2>1, RouteTyped, RouteShapes
         DEF IInv, RoutesSound, RouteIsRecorded, Types, RoutePending
    <3>. QED BY <1>2, <1>6, <2>1, <3>1 DEF IInv, RoutesSound, Types, Route, RoutePending
  <2>4. Forward
    BY <1>2, <1>6, <2>1 DEF Forward, Fresh, IInv, Types, ClosedRoute, Route
  <2>5. PaymentsSound'
    <3>1. \A b \in Activations : Signed(b)' => Signed(b) \/ b = a
      <4>1. \A q \in Processes : Paying(q)' => Paying(q) /\ session'[q].act = session[q].act
        BY <1>3, <1>4 DEF Alone, Paying, In
      <4>. QED BY <1>2, <1>6, <2>1, <4>1 DEF Signed, IInv, Types, outside
    <3>2. \A b \in Activations : RouteOf[b] = x /\ Signed(b) => NonceOf[b] # NonceOf[a]
      BY <1>6 DEF IInv, PaymentsSound
    <3>3. \A b \in Activations : NonceOf[b] \in nonces[RouteOf[b]] => NonceOf[b] \in nonces'[RouteOf[b]]
      BY <1>6, RouteTyped DEF IInv, Types
    <3>4. NonceOf[a] \in nonces'[x]
      BY <1>2, <1>6, RouteTyped DEF IInv, Types
    <3>5. \A q \in Processes : Paying(q)' => Paying(q) /\ session'[q].act = session[q].act
      BY <1>3, <1>4 DEF Alone, Paying, In
    <3>6. /\ \A b \in Activations : Signed(b)' => NonceOf[b] \in nonces'[RouteOf[b]]
          /\ \A b, c \in Activations :
               RouteOf[b] = RouteOf[c] /\ NonceOf[b] = NonceOf[c] /\ Signed(b)' /\ Signed(c)'
               => b = c
      <4>1. ASSUME NEW b \in Activations, Signed(b)'
            PROVE  NonceOf[b] \in nonces'[RouteOf[b]] /\ (Signed(b) \/ b = a)
        <5>1. Signed(b) \/ b = a
          BY <3>1, <4>1
        <5>2. Signed(b) => NonceOf[b] \in nonces[RouteOf[b]]
          BY DEF IInv, PaymentsSound
        <5>. QED BY <3>3, <3>4, <5>1, <5>2
      <4>2. \A b, c \in Activations :
              RouteOf[b] = RouteOf[c] /\ NonceOf[b] = NonceOf[c] /\ Signed(b) /\ Signed(c) => b = c
        BY DEF IInv, PaymentsSound
      <4>3. ASSUME NEW b \in Activations, NEW c \in Activations, Signed(b)', Signed(c)',
                   RouteOf[b] = RouteOf[c], NonceOf[b] = NonceOf[c]
            PROVE  b = c
        BY <3>2, <4>1, <4>2, <4>3
      <4>. QED BY <4>1, <4>3
    <3>7. /\ \A q, r \in Processes :
               Paying(q)' /\ Paying(r)' /\ session'[q].act = session'[r].act => q = r
          /\ \A q \in Processes : Paying(q)' => requests'[session'[q].act] = 0
      BY <2>1, <3>5 DEF IInv, PaymentsSound, outside
    <3>8. \A b \in Activations : requests'[b] \in {0, 1} /\ (requests'[b] = 1 => ~Fresh(b)')
      BY <2>1, <2>4 DEF IInv, PaymentsSound, outside, Forward
    <3>. QED BY <3>6, <3>7, <3>8 DEF PaymentsSound
  <2>6. Relies(p)'
    BY <1>1, <1>2, <1>3, <1>4, <1>6 DEF Relies, In, Went, IInv, Types
  <2>. QED BY <1>1, <1>3, <2>1, <2>2, <2>3, <2>4, <2>5, <2>6, RouteStep, WentOn
<1>. QED BY <1>5, <1>6 DEF Authorize

LEMMA BeginExecutionStep ==
    ASSUME IInv, NEW p \in Processes, BeginExecution(p)
    PROVE  IInv'
<1>. DEFINE a == session[p].act
            x == RouteOf[a]
<1>1. session[p].phase = "authorized" /\ ~In(p, {"idle"}) /\ Goes(p, "executing")
  BY DEF BeginExecution, In
<1>2. Relies(p) /\ a \in Activations
  BY <1>1, AtWork
<1>3. Alone(p) /\ Keeps(p) /\ Went(p, "executing")
  BY <1>1, GoesOn DEF IInv, Phases, Went, Keeps
<1>4. /\ routeRecord[a] = "AUTHORIZED" /\ Route(a) = Disabled
      /\ routeRecord' = [routeRecord EXCEPT ![a] = "EXECUTING"]
      /\ route' = [route EXCEPT ![x] = Executing(a)]
      /\ UNCHANGED <<stores, nonces, evidence, outside>>
  BY DEF BeginExecution
<1>5. RouteTypes'
  BY <1>2, <1>4, RouteTyped DEF IInv, Types, RouteTypes, RoutePending
<1>6. RoutesSound'
  <2>1. RouteIsRecorded'
    <3>. SUFFICES ASSUME NEW y \in Routes, route'[y] # Disabled
                  PROVE  LET b == route'[y].id IN
                         /\ b \in Activations /\ RouteOf[b] = y
                         /\ routeRecord'[b] \in {route'[y].mode, "ROLLBACK"}
      BY DEF RouteIsRecorded
    <3>1. CASE y = x
      BY <1>2, <1>4, <3>1, RouteTyped, RouteShapes DEF IInv, Types
    <3>2. CASE y # x
      BY <1>2, <1>4, <3>2, RouteTyped DEF IInv, Types, RoutesSound, RouteIsRecorded
    <3>. QED BY <3>1, <3>2
  <2>2. ASSUME NEW b \in Activations, NEW c \in Activations, RouteOf[b] = RouteOf[c],
               routeRecord'[b] \in RoutePending,
               routeRecord'[c] \in RoutePending \/ route'[RouteOf[c]].id = c
        PROVE  b = c
    <3>1. routeRecord[b] \in RoutePending
      BY <1>2, <1>4, <2>2 DEF IInv, Types, RoutePending
    <3>2. routeRecord[c] \in RoutePending \/ Route(c).id = c
      BY <1>2, <1>4, <2>2, RouteTyped, RouteShapes DEF IInv, Types, RoutePending, Route
    <3>. QED BY <2>2, <3>1, <3>2 DEF IInv, RoutesSound
  <2>. QED BY <2>1, <2>2 DEF RoutesSound, Route
<1>7. Forward
  <2>1. ASSUME NEW b \in Batched, ClosedRoute(b) PROVE ClosedRoute(b)'
    BY <1>2, <1>4, <2>1, Isolated, BatchRunsTyped, RouteTyped DEF ClosedRoute, Route, IInv, Types
  <2>. QED BY <1>2, <1>4, <2>1 DEF Forward, Fresh, IInv, Types
<1>8. PaymentsSound'
  <2>1. Signed(a) /\ requests[a] = 0 /\ Fresh(a)
    BY <1>2, <1>4 DEF Signed, Fresh, IInv, Types, PaymentsSound
  <2>2. \A q \in Processes : Paying(q) => session[q].act # a
    BY <1>2, <2>1 DEF IInv, Sound, Relies
  <2>3. \A q \in Processes : Paying(q)' =>
          session'[q].act = session[q].act /\ (Paying(q) \/ q = p)
    BY <1>3 DEF Alone, Paying, In, Went
  <2>4. \A b \in Activations : Signed(b)' => Signed(b)
    BY <1>2, <1>4, <2>1, <2>3 DEF Signed, IInv, Types, outside
  <2>5. \A q, r \in Processes :
          Paying(q)' /\ Paying(r)' /\ session'[q].act = session'[r].act => q = r
    BY <2>2, <2>3 DEF IInv, PaymentsSound
  <2>6. \A q \in Processes : Paying(q)' => requests'[session'[q].act] = 0
    BY <1>4, <2>1, <2>3 DEF IInv, PaymentsSound, outside
  <2>7. \A b \in Activations : requests'[b] \in {0, 1} /\ (requests'[b] = 1 => ~Fresh(b)')
    BY <1>4, <1>7 DEF IInv, PaymentsSound, outside, Forward
  <2>. QED BY <1>4, <2>4, <2>5, <2>6, <2>7 DEF IInv, PaymentsSound
<1>9. Relies(p)'
  BY <1>1, <1>2, <1>3, <1>4 DEF Relies, In, Went, IInv, Types, Paying, Fresh
<1>. QED BY <1>1, <1>3, <1>4, <1>5, <1>6, <1>7, <1>8, <1>9, RouteStep, WentOn

\* Two of the stores' parts move: the route is verified, and there is evidence.
LEMMA MarkVerifiedStep ==
    ASSUME IInv, NEW p \in Processes, MarkVerified(p)
    PROVE  IInv'
<1>. DEFINE a == session[p].act
            x == RouteOf[a]
<1>1. session[p].phase = "confirmed" /\ ~In(p, {"idle"}) /\ Goes(p, "verified")
  BY DEF MarkVerified, In
<1>2. Relies(p) /\ a \in Activations
  BY <1>1, AtWork
<1>3. Alone(p) /\ Keeps(p) /\ Went(p, "verified")
  BY <1>1, GoesOn DEF IInv, Phases, Went, Keeps
<1>4. /\ routeRecord[a] = "EXECUTING" /\ Route(a) = Executing(a)
      /\ routeRecord' = [routeRecord EXCEPT ![a] = "PRODUCTION_VERIFIED"]
      /\ route' = [route EXCEPT ![x] = Verified(a)]
      /\ evidence' = evidence \cup {a}
      /\ UNCHANGED <<stores, nonces, outside>>
  BY DEF MarkVerified
<1>5. Types'
  BY <1>2, <1>3, <1>4, RouteTyped DEF IInv, Types, Alone, RoutePending, stores, outside
<1>6. RoutesSound'
  <2>1. RouteIsRecorded'
    <3>. SUFFICES ASSUME NEW y \in Routes, route'[y] # Disabled
                  PROVE  LET b == route'[y].id IN
                         /\ b \in Activations /\ RouteOf[b] = y
                         /\ routeRecord'[b] \in {route'[y].mode, "ROLLBACK"}
      BY DEF RouteIsRecorded
    <3>1. CASE y = x
      BY <1>2, <1>4, <3>1, RouteTyped, RouteShapes DEF IInv, Types
    <3>2. CASE y # x
      BY <1>2, <1>4, <3>2, RouteTyped DEF IInv, Types, RoutesSound, RouteIsRecorded
    <3>. QED BY <3>1, <3>2
  <2>2. ASSUME NEW b \in Activations, NEW c \in Activations, RouteOf[b] = RouteOf[c],
               routeRecord'[b] \in RoutePending,
               routeRecord'[c] \in RoutePending \/ route'[RouteOf[c]].id = c
        PROVE  b = c
    <3>1. routeRecord[b] \in RoutePending
      BY <1>2, <1>4, <2>2 DEF IInv, Types, RoutePending
    <3>2. routeRecord[c] \in RoutePending \/ Route(c).id = c
      BY <1>2, <1>4, <2>2, RouteTyped, RouteShapes DEF IInv, Types, RoutePending, Route
    <3>. QED BY <2>2, <3>1, <3>2 DEF IInv, RoutesSound
  <2>. QED BY <2>1, <2>2 DEF RoutesSound, Route
<1>7. Forward
  <2>1. ASSUME NEW b \in Batched, ClosedRoute(b) PROVE ClosedRoute(b)'
    BY <1>2, <1>4, <2>1, Isolated, BatchRunsTyped, RouteTyped DEF ClosedRoute, Route, IInv, Types
  <2>. QED BY <1>2, <1>4, <2>1 DEF Forward, Fresh, IInv, Types
<1>8. Stable
  BY <1>4, <1>7 DEF Stable, Forward, Written, Lifecycle, outside
<1>9. ~Paying(p)'
  BY <1>3 DEF Paying, In, Went
<1>10. PaymentsSound'
  <2>1. Signed(a)
    BY <1>4 DEF Signed
  <2>2. \A b \in Activations :
          routeRecord'[b] \in {"AUTHORIZED", "EXECUTING", "PRODUCTION_VERIFIED"} => Signed(b)
    BY <1>2, <1>4, <2>1 DEF IInv, Types, Signed
  <2>. QED BY <1>3, <1>4, <1>7, <1>9, <2>2, PaymentsKept DEF IInv, outside, Forward
<1>11. ResultsSound'
  BY <1>1, <1>2, <1>4
     DEF IInv, ResultsSound, LifecycleStaged, Relies, In, Written, Lifecycle, outside
<1>12. ArtifactsSound'
  BY <1>4, <1>8, BatchRunsTyped DEF IInv, ArtifactsSound, Complete, Stable, outside
<1>13. Relies(p)'
  BY <1>1, <1>2, <1>3, <1>4, <1>9 DEF Relies, In, Went, IInv, Types
<1>14. RecordsSound'
  BY <1>4, RecordsKept DEF IInv
<1>. QED BY <1>1, <1>3, <1>5, <1>6, <1>8, <1>10, <1>11, <1>12, <1>13, <1>14, Mover, WentOn DEF IInv

\* Closing a route, whole or interrupted, leaves the other records alone and
\* the baseline or the same route behind.
Closes(a) ==
    /\ routeRecord' \in {routeRecord, [routeRecord EXCEPT ![a] = "ROLLED_BACK"],
                         [routeRecord EXCEPT ![a] = "ROLLBACK"]}
    /\ route' \in {route, [route EXCEPT ![RouteOf[a]] = Disabled]}
    /\ routeRecord[a] = "ROLLED_BACK" => routeRecord' = routeRecord
    /\ routeRecord'[a] = "ROLLED_BACK" =>
         route' = [route EXCEPT ![RouteOf[a]] = Disabled] \/ routeRecord' = routeRecord

LEMMA RollbackCloses ==
    ASSUME IInv, NEW a \in Activations, Rollback(a) \/ RollbackInterrupted(a)
    PROVE  Closes(a)
BY DEF Rollback, RollbackInterrupted, Closes, IInv, Types

LEMMA ClosingStep ==
    ASSUME IInv, NEW p \in Processes, NEW a \in Activations, a = session[p].act,
           routeRecord[a] # "ABSENT", Closes(a),
           UNCHANGED <<stores, nonces, evidence, outside>>,
           Alone(p), ~Paying(p)', Stable => Sound(p)'
    PROVE  IInv'
<1>1. RouteTypes'
  BY DEF Closes, IInv, Types, RouteTypes
<1>2. /\ \A b \in Activations : b # a => routeRecord'[b] = routeRecord[b]
      /\ routeRecord'[a] \in {routeRecord[a], "ROLLBACK", "ROLLED_BACK"}
      /\ \A y \in Routes : route'[y] \in {route[y], Disabled}
  BY DEF Closes, IInv, Types
<1>3. RoutesSound'
  <2>1. RouteIsRecorded'
    <3>. SUFFICES ASSUME NEW y \in Routes, route'[y] # Disabled
                  PROVE  LET b == route'[y].id IN
                         /\ b \in Activations /\ RouteOf[b] = y
                         /\ routeRecord'[b] \in {route'[y].mode, "ROLLBACK"}
      BY DEF RouteIsRecorded
    <3>. DEFINE b == route[y].id
    <3>1. /\ route'[y] = route[y] /\ b \in Activations /\ RouteOf[b] = y
          /\ routeRecord[b] \in {route[y].mode, "ROLLBACK"}
      BY <1>2 DEF IInv, RoutesSound, RouteIsRecorded
    <3>2. CASE b # a
      BY <1>2, <3>1, <3>2
    <3>3. CASE b = a
      <4>1. routeRecord'[a] \in {routeRecord[a], "ROLLBACK"}
        BY <1>2, <3>1, <3>3, RouteTyped DEF Closes, IInv, Types
      <4>. QED BY <3>1, <3>3, <4>1
    <3>. QED BY <3>2, <3>3
  <2>2. ASSUME NEW b \in Activations, NEW c \in Activations, RouteOf[b] = RouteOf[c],
               routeRecord'[b] \in RoutePending,
               routeRecord'[c] \in RoutePending \/ route'[RouteOf[c]].id = c
        PROVE  b = c
    <3>1. routeRecord[b] \in RoutePending /\ (routeRecord'[c] \in RoutePending => routeRecord[c] \in RoutePending)
      BY <1>2, <2>2 DEF RoutePending
    <3>2. route'[RouteOf[c]].id = c => Route(c).id = c
      BY <1>2, RouteTyped, RouteShapes DEF Route
    <3>. QED BY <2>2, <3>1, <3>2 DEF IInv, RoutesSound
  <2>. QED BY <2>1, <2>2 DEF RoutesSound, Route
<1>4. Forward
  <2>1. ASSUME NEW b \in Batched, ClosedRoute(b) PROVE ClosedRoute(b)'
    <3>1. b \in Activations /\ routeRecord'[b] = "ROLLED_BACK"
      BY <1>2, <2>1, BatchRunsTyped DEF ClosedRoute, Closes
    <3>. QED BY <1>2, <2>1, <3>1, RouteTyped DEF ClosedRoute, Route
  <2>. QED BY <1>2, <2>1 DEF Forward, Fresh
<1>5. PaymentsSound'
  <2>1. \A b \in Activations :
          routeRecord'[b] \in {"AUTHORIZED", "EXECUTING", "PRODUCTION_VERIFIED"} => Signed(b)
    BY <1>2 DEF Signed
  <2>. QED BY <1>4, <2>1, PaymentsKept DEF IInv, outside, Forward
<1>. QED BY <1>1, <1>3, <1>4, <1>5, RouteStep

\* The runtime's own handler.
LEMMA RestoreStep ==
    ASSUME IInv, NEW p \in Processes, Restore(p) \/ RestoreFails(p)
    PROVE  IInv'
<1>. DEFINE a == session[p].act
<1>1. session[p].phase = "restoring" /\ ~In(p, {"idle"}) /\ GivesUp(p)
      /\ UNCHANGED <<stores, nonces, evidence, outside>>
  BY DEF Restore, RestoreFails, In
<1>2. Relies(p) /\ a \in Activations
  BY <1>1, AtWork
<1>3. routeRecord[a] # "ABSENT" /\ Closes(a)
  BY <1>1, <1>2, RollbackCloses DEF Relies, In, Restore, RestoreFails
<1>4. CASE p \in Batches
  <2>1. Ends(p)
    BY <1>1, <1>4 DEF GivesUp
  <2>. QED BY <1>1, <1>2, <1>3, <2>1, Ended, ClosingStep
<1>5. CASE p \notin Batches
  <2>1. Alone(p) /\ Keeps(p) /\ Went(p, "abandoning")
    BY <1>1, <1>5, GoesOn DEF GivesUp, IInv, Phases, Went, Keeps
  <2>2. ~Paying(p)' /\ Relies(p)'
    BY <1>2, <1>5, <2>1 DEF Relies, In, Paying, Went
  <2>. QED BY <1>1, <1>2, <1>3, <2>1, <2>2, ClosingStep, WentOn
<1>. QED BY <1>4, <1>5

\* rollback_execution called from outside the runtime.
LEMMA RevertStep ==
    ASSUME IInv, NEW p \in Processes, Revert(p)
    PROVE  IInv'
<1>. DEFINE a == session[p].act
<1>1. session[p].phase = "reverting" /\ ~In(p, {"idle"}) /\ Goes(p, "checking")
      /\ UNCHANGED <<stores, nonces, evidence, outside>>
  BY DEF Revert, In
<1>2. Relies(p) /\ a \in Activations
  BY <1>1, AtWork
<1>3. routeRecord[a] # "ABSENT" /\ Closes(a)
  BY <1>1, <1>2, RollbackCloses DEF Relies, In, Revert
<1>4. Alone(p) /\ Keeps(p) /\ Went(p, "checking")
  BY <1>1, GoesOn DEF IInv, Phases, Went, Keeps
<1>5. ~Paying(p)'
  BY <1>4 DEF In, Paying, Went
<1>6. ASSUME Stable PROVE Relies(p)'
  BY <1>1, <1>2, <1>3, <1>4, <1>5, <1>6 DEF Relies, In, Went, Stable
<1>. QED BY <1>1, <1>2, <1>3, <1>4, <1>5, <1>6, ClosingStep, WentOn

\* A route closed by a process that ends with it, or dies half way.
LEMMA LastRollbackStep ==
    ASSUME IInv, NEW p \in Processes, FallThrough(p) \/ RevertFails(p)
    PROVE  IInv'
<1>. DEFINE a == session[p].act
<1>1. session[p].phase \in {"accepted", "reverting"} /\ ~In(p, {"idle"}) /\ Ends(p)
      /\ UNCHANGED <<stores, nonces, evidence, outside>>
  BY DEF FallThrough, RevertFails, In
<1>2. Relies(p) /\ a \in Activations
  BY <1>1, AtWork
<1>3. routeRecord[a] # "ABSENT" /\ Closes(a)
  BY <1>1, <1>2, RollbackCloses DEF Relies, In, FallThrough, RevertFails
<1>. QED BY <1>1, <1>2, <1>3, Ended, ClosingStep

-----------------------------------------------------------------------------
(* The provider, the lifecycle sets and the batch *)

\* What holds of the route stores and of the activation store stays.
LEMMA OutsideStep ==
    ASSUME IInv, NEW p \in Processes, Alone(p), UNCHANGED <<stores, routeStore, artifacts>>,
           requests' \in [Activations -> Nat], lifecycle' \in [Scopes -> Seq(Activations)],
           PaymentsSound', ResultsSound', Stable, Sound(p)'
    PROVE  IInv'
<1>1. Types'
  BY DEF IInv, Types, Alone, stores, routeStore
<1>2. ArtifactsSound'
  BY BatchRunsTyped DEF IInv, ArtifactsSound, Complete, Stable
<1>. QED BY <1>1, <1>2, RecordsKept, RoutesKept, Mover DEF IInv, routeStore

LEMMA RequestStep ==
    ASSUME IInv, NEW p \in Processes, Request(p)
    PROVE  IInv'
<1>. DEFINE a == session[p].act
<1>1. /\ session[p].phase = "sending" /\ ~In(p, {"idle"}) /\ Goes(p, "waiting") /\ Paying(p)
      /\ requests' = [requests EXCEPT ![a] = @ + 1]
      /\ UNCHANGED <<stores, routeStore, lifecycle, artifacts>>
  BY DEF Request, In, Paying
<1>2. Relies(p) /\ a \in Activations
  BY <1>1, AtWork
<1>3. Alone(p) /\ Keeps(p) /\ Went(p, "waiting")
  BY <1>1, GoesOn DEF IInv, Phases, Went, Keeps
<1>4. requests[a] = 0 /\ ~Fresh(a) /\ Signed(a)
  BY <1>1, <1>2 DEF IInv, PaymentsSound, Relies, Signed
<1>5. /\ requests' \in [Activations -> Nat] /\ requests'[a] = 1
      /\ \A b \in Activations : b # a => requests'[b] = requests[b]
  BY <1>1, <1>2, <1>4 DEF IInv, Types
<1>6. PaymentsSound'
  <2>1. \A q \in Processes : Paying(q)' => Paying(q) /\ q # p /\ session'[q].act = session[q].act
    BY <1>3 DEF Alone, Paying, In, Went
  <2>2. \A q \in Processes : Paying(q)' => session'[q].act # a
    BY <1>1, <2>1 DEF IInv, PaymentsSound
  <2>3. \A q \in Processes : Paying(q) => session[q].act \in Activations
    BY AtWork DEF Paying, In
  <2>4. \A b \in Activations : Signed(b)' => Signed(b)
    BY <1>1, <1>4, <1>5, <2>1 DEF Signed, routeStore
  <2>5. \A q \in Processes : Paying(q)' => requests'[session'[q].act] = 0
    BY <1>5, <2>1, <2>2, <2>3 DEF IInv, PaymentsSound
  <2>6. \A b \in Activations : requests'[b] \in {0, 1} /\ (requests'[b] = 1 => ~Fresh(b)')
    BY <1>1, <1>4, <1>5 DEF IInv, PaymentsSound, Fresh, routeStore
  <2>7. \A q, r \in Processes :
          Paying(q)' /\ Paying(r)' /\ session'[q].act = session'[r].act => q = r
    BY <2>1 DEF IInv, PaymentsSound
  <2>. QED BY <1>1, <2>4, <2>5, <2>6, <2>7 DEF IInv, PaymentsSound, routeStore
<1>7. Stable
  BY <1>1, <1>4, <1>5 DEF Stable, routeStore, Written, Lifecycle, Fresh, ClosedRoute, Route
<1>8. ResultsSound'
  <2>1. \A b \in Activations : requests[b] = 1 => requests'[b] = 1
    BY <1>7 DEF Stable
  <2>2. \A s \in Scopes : \A i \in 1..Len(lifecycle[s]) : lifecycle[s][i] \in Activations
    BY DEF IInv, Types
  <2>3. LifecycleStaged'
    BY <1>1, <2>1, <2>2 DEF IInv, ResultsSound, LifecycleStaged
  <2>4. \A b \in evidence' : requests'[b] = 1 /\ Written(b)'
    BY <1>1, <2>1 DEF IInv, Types, ResultsSound, Written, Lifecycle, routeStore
  <2>. QED BY <2>3, <2>4 DEF ResultsSound
<1>9. Relies(p)'
  BY <1>1, <1>2, <1>3, <1>5 DEF Relies, In, Went, Paying, routeStore
<1>. QED BY <1>1, <1>3, <1>5, <1>6, <1>7, <1>8, <1>9, OutsideStep, WentOn DEF IInv, Types

LEMMA CommitLifecycleStep ==
    ASSUME IInv, NEW p \in Processes, CommitLifecycle(p)
    PROVE  IInv'
<1>. DEFINE a == session[p].act
            s == ScopeOf[a]
            old == lifecycle[s]
<1>1. /\ session[p].phase = "waiting" /\ ~In(p, {"idle"}) /\ Goes(p, "persisted")
      /\ session[p].seen = old
      /\ lifecycle' = [lifecycle EXCEPT ![s] = Append(old, a)]
      /\ UNCHANGED <<stores, routeStore, requests, artifacts>>
  BY DEF CommitLifecycle, In, Lifecycle
<1>2. Relies(p) /\ a \in Activations
  BY <1>1, AtWork
<1>3. Alone(p) /\ Keeps(p) /\ Went(p, "persisted")
  BY <1>1, GoesOn DEF IInv, Phases, Went, Keeps
<1>4. s \in Scopes /\ old \in Seq(Activations)
  BY <1>2, RouteTyped DEF IInv, Types
<1>5. requests[a] = 1 /\ Len(old) = IF a \in Refinements THEN 1 ELSE 0
  BY <1>1, <1>2 DEF Relies, In
<1>. DEFINE new == Append(old, a)
<1>6. /\ new \in Seq(Activations) /\ Len(new) = Len(old) + 1 /\ new[Len(old) + 1] = a
      /\ \A i \in 1..Len(old) : new[i] = old[i]
  BY <1>2, <1>4
<1>7. lifecycle' \in [Scopes -> Seq(Activations)] /\ lifecycle'[s] = new
      /\ \A t \in Scopes : t # s => lifecycle'[t] = lifecycle[t]
  BY <1>1, <1>4, <1>6 DEF IInv, Types
<1>. HIDE DEF new
<1>8. ASSUME NEW b \in Activations, Written(b) PROVE Written(b)'
  <2>1. ScopeOf[b] \in Scopes
    BY RouteTyped
  <2>2. CASE ScopeOf[b] = s
    BY <1>4, <1>6, <1>7, <1>8, <2>2 DEF Written, Lifecycle
  <2>3. CASE ScopeOf[b] # s
    BY <1>7, <1>8, <2>1, <2>3 DEF Written, Lifecycle
  <2>. QED BY <2>2, <2>3
<1>9. ASSUME NEW b, b = a PROVE Written(b)'
  BY <1>4, <1>6, <1>7, <1>9 DEF Written, Lifecycle
<1>10. Stable
  BY <1>1, <1>8 DEF Stable, routeStore, Fresh, ClosedRoute, Route
<1>11. ~Paying(p)'
  BY <1>3 DEF In, Paying, Went
<1>12. PaymentsSound'
  BY <1>1, <1>3, <1>11, PaymentsKept DEF IInv, routeStore, Fresh, Signed
<1>13. ResultsSound'
  <2>1. LifecycleStaged'
    <3>. SUFFICES ASSUME NEW t \in Scopes
                  PROVE  /\ Len(lifecycle'[t]) <= 2
                         /\ \A i \in 1..Len(lifecycle'[t]) :
                              /\ ScopeOf[lifecycle'[t][i]] = t
                              /\ lifecycle'[t][i] \in Refinements <=> i = 2
                              /\ requests'[lifecycle'[t][i]] = 1
      BY DEF LifecycleStaged
    <3>1. CASE t # s
      BY <1>1, <1>7, <3>1 DEF IInv, ResultsSound, LifecycleStaged
    <3>2. CASE t = s
      <4>1. Len(new) <= 2
        BY <1>5, <1>6
      <4>2. ASSUME NEW i \in 1..Len(old)
            PROVE  ScopeOf[new[i]] = s /\ (new[i] \in Refinements <=> i = 2) /\ requests[new[i]] = 1
        BY <1>4, <1>6 DEF IInv, ResultsSound, LifecycleStaged
      <4>3. a \in Refinements <=> Len(old) + 1 = 2
        BY <1>5
      <4>4. ASSUME NEW i \in 1..Len(new)
            PROVE  ScopeOf[new[i]] = s /\ (new[i] \in Refinements <=> i = 2) /\ requests[new[i]] = 1
        <5>1. i \in 1..Len(old) \/ i = Len(old) + 1
          BY <1>4, <1>6
        <5>2. CASE i = Len(old) + 1
          BY <1>5, <1>6, <4>3, <5>2
        <5>. QED BY <4>2, <5>1, <5>2
      <4>. QED BY <1>1, <1>7, <3>2, <4>1, <4>4
    <3>. QED BY <3>1, <3>2
  <2>2. \A b \in evidence' : requests'[b] = 1 /\ Written(b)'
    BY <1>1, <1>8 DEF IInv, Types, ResultsSound, routeStore
  <2>. QED BY <2>1, <2>2 DEF ResultsSound
<1>14. Relies(p)'
  <2>1. Written(session[p].act)'
    BY <1>3, <1>9 DEF Went
  <2>. QED BY <1>1, <1>2, <1>3, <1>9, <1>11 DEF Relies, In, Went, routeStore
<1>. QED BY <1>1, <1>3, <1>7, <1>10, <1>12, <1>13, <1>14, OutsideStep, WentOn DEF IInv, Types

LEMMA PublishStep ==
    ASSUME IInv, NEW b \in Batches, Publish(b)
    PROVE  IInv'
<1>1. b \in Processes /\ Ends(b) /\ UNCHANGED <<stores, routeStore, lifecycle, requests>>
  BY DEF Publish, Processes
<1>2. Alone(b) /\ Sound(b)' /\ ~Paying(b)'
  BY <1>1, Ended
<1>3. \A a \in Batched : Complete(a)
  BY <1>1 DEF Publish, IInv, Sound, Holds, Batched
<1>4. ArtifactsSound'
  BY <1>1, <1>3 DEF ArtifactsSound, Complete, ClosedRoute, Route, routeStore
<1>5. Types'
  BY <1>1, <1>2 DEF IInv, Types, Alone, stores, routeStore, Publish
<1>6. Stable
  BY <1>1 DEF Stable, routeStore, Written, Lifecycle, Fresh, ClosedRoute, Route
<1>7. PaymentsSound'
  BY <1>1, <1>2, PaymentsKept DEF IInv, routeStore, Fresh, Signed
<1>. QED BY <1>1, <1>2, <1>4, <1>5, <1>6, <1>7, RecordsKept, RoutesKept, ResultsKept, Mover
        DEF IInv, routeStore

-----------------------------------------------------------------------------
(* The theorems *)

LEMMA InitSound == Init => IInv
<1>. SUFFICES ASSUME Init PROVE IInv
  OBVIOUS
<1>1. Types
  <2>1. session \in [Processes -> Sessions] /\ lifecycle \in [Scopes -> Seq(Activations)]
    BY IdleTyped DEF Init
  <2>2. /\ nonces \in [Routes -> SUBSET Nonces] /\ evidence \subseteq Activations
        /\ requests \in [Activations -> Nat] /\ artifacts \in BOOLEAN
        /\ active \in Activations \cup {None}
    BY DEF Init
  <2>. QED BY <2>1, <2>2 DEF Init, Types, Pending, RoutePending
<1>2. \A p \in Processes : Sound(p) /\ ~Paying(p)
  BY IdleSound DEF Init
<1>3. RecordsSound /\ PaymentsSound /\ ResultsSound /\ ArtifactsSound
  BY <1>2, ActivationAssumptions
     DEF ActivationAssumptions, Init, RecordsSound, PaymentsSound, ResultsSound, ArtifactsSound,
         LifecycleStaged, Signed, Fresh, Pending, Batched
<1>4. RoutesSound
  BY RouteShapes, RouteTyped DEF Init, RoutesSound, RouteIsRecorded, RoutePending
<1>. QED BY <1>1, <1>2, <1>3, <1>4 DEF IInv

LEMMA CallStep ==
    ASSUME IInv, Call
    PROVE  IInv'
BY PrepareStep, ExecuteStep, CommandStep, CaptureStep, PublishStep DEF Call

LEMMA ProcessStep ==
    ASSUME IInv, NEW p \in Processes, Step(p) \/ Fault(p)
    PROVE  IInv'
<1>1. CASE Accept(p) \/ Abandon(p)
  BY <1>1, AcceptStep, AbandonStep
<1>2. CASE Preflight(p) \/ PrepareRoute(p) \/ Authorize(p) \/ BeginExecution(p)
  BY <1>2, PreflightStep, PrepareRouteStep, AuthorizeStep, BeginExecutionStep
<1>3. CASE Consume(p) \/ Request(p) \/ CommitLifecycle(p) \/ Confirm(p)
  BY <1>3, ConsumeStep, RequestStep, CommitLifecycleStep, ConfirmStep
<1>4. CASE MarkVerified(p) \/ ReadBack(p) \/ Raise(p)
  BY <1>4, MarkVerifiedStep, ReadBackStep, RaiseStep
<1>5. CASE Restore(p) \/ Revert(p) \/ RestoreFails(p) \/ FallThrough(p) \/ RevertFails(p)
  BY <1>5, RestoreStep, RevertStep, LastRollbackStep
<1>6. CASE Check(p) \/ ReadLifecycle(p) \/ Crash(p)
  BY <1>6, CheckStep, ReadLifecycleStep, CrashStep
<1>. QED BY <1>1, <1>2, <1>3, <1>4, <1>5, <1>6 DEF Step, Fault

LEMMA StutterStep ==
    ASSUME IInv, UNCHANGED vars
    PROVE  IInv'
BY DEF IInv, vars, Types, RecordsSound, RoutesSound, RouteIsRecorded, PaymentsSound,
   ResultsSound, LifecycleStaged, ArtifactsSound, Complete, ClosedRoute, Route, Sound, Bound,
   Holds, Relies, In, Paying, Fresh, Signed, Written, Lifecycle, NextRun

\* The stores and the sessions stay sound together, whatever the processes do
\* and wherever they die.
THEOREM ActivationInvariance == Spec => []IInv
<1>1. IInv /\ [Next]_vars => IInv'
  BY CallStep, ProcessStep, StutterStep DEF Next
<1>. QED BY InitSound, <1>1, PTL DEF Spec

\* The stores hold what they may hold; only a controlled activation has an
\* activation record.
THEOREM ActivationTyping == Spec => []TypeOK
<1>1. IInv => TypeOK
  <2>. SUFFICES ASSUME IInv PROVE TypeOK
    OBVIOUS
  <2>1. route \in [Routes -> [mode : {"DISABLED", "EXECUTING", "PRODUCTION_VERIFIED"},
                              id : Activations \cup {None}]]
    BY DEF IInv, Types, Disabled, Executing, Verified
  <2>2. \A p \in Processes : ~In(p, {"idle"}) => session[p].act \in Activations
    BY AtWork
  <2>. QED BY <2>1, <2>2 DEF IInv, Types, RecordsSound, TypeOK
<1>. QED BY <1>1, ActivationInvariance, PTL

\* One signature pays for one request, however many runs of however many plans
\* overlap, crash and start again.
THEOREM OneRequest == Spec => []OneRequestPerNonce
<1>1. IInv => OneRequestPerNonce
  BY DEF IInv, PaymentsSound, OneRequestPerNonce, Signed
<1>. QED BY <1>1, ActivationInvariance, PTL

\* Production evidence stands for a request and for a set its run wrote, an
\* accepted activation for such evidence.
THEOREM VerifiedBacked == Spec => []VerifiedIsBacked
<1>1. IInv => VerifiedIsBacked
  BY DEF IInv, ResultsSound, RecordsSound, VerifiedIsBacked, Written
<1>. QED BY <1>1, ActivationInvariance, PTL

\* A scope's set is one INITIAL version and at most one REFINEMENT of it.
THEOREM Staged == Spec => []LifecycleStaged
<1>1. IInv => LifecycleStaged
  BY DEF IInv, ResultsSound
<1>. QED BY <1>1, ActivationInvariance, PTL

\* A live route is accounted for by its own record.
THEOREM RoutesRecorded == Spec => []RouteIsRecorded
<1>1. IInv => RouteIsRecorded
  BY DEF IInv, RoutesSound
<1>. QED BY <1>1, ActivationInvariance, PTL

\* An artifact is published only from a complete set of captures.
THEOREM CapturesComplete == Spec => []ArtifactsComplete
<1>1. IInv => ArtifactsComplete
  BY DEF IInv, ArtifactsSound, ArtifactsComplete, Complete
<1>. QED BY <1>1, ActivationInvariance, PTL

-----------------------------------------------------------------------------
(* Who may take a route *)

\* The state and step of one route transition, as RouteLostToRollback has it.
LostToRollback(a) ==
    Route(a).id = a /\ Route(a)'.id # a =>
      \E b \in Beside(a) :
        /\ routeRecord'[b] = "ROLLED_BACK"
        /\ b = a \/ routeRecord[b] \in {"ROLLBACK", "PRODUCTION_VERIFIED"}

\* A rollback that takes a route is of its holder, or of a plan that was not in
\* progress: two plans of one route store never are.
LEMMA RollbackTakes ==
    ASSUME IInv, NEW b \in Activations, routeRecord[b] # "ABSENT", Rollback(b),
           NEW a \in Activations
    PROVE  LostToRollback(a)
<1>1. CASE routeRecord[b] = "ROLLED_BACK"
  BY <1>1 DEF Rollback, LostToRollback, Route
<1>2. CASE routeRecord[b] # "ROLLED_BACK"
  <2>1. routeRecord' = [routeRecord EXCEPT ![b] = "ROLLED_BACK"]
        /\ route' = [route EXCEPT ![RouteOf[b]] = Disabled]
    BY <1>2 DEF Rollback
  <2>2. CASE RouteOf[a] # RouteOf[b]
    BY <2>1, <2>2, RouteTyped DEF IInv, Types, LostToRollback, Route
  <2>3. CASE RouteOf[a] = RouteOf[b] /\ Route(a).id = a
    <3>1. a = b \/ routeRecord[b] \notin RoutePending
      BY <2>3 DEF IInv, RoutesSound, Route
    <3>2. b \in Beside(a) /\ routeRecord'[b] = "ROLLED_BACK"
      BY <2>1, <2>3 DEF Beside, IInv, Types
    <3>3. b = a \/ routeRecord[b] \in {"ROLLBACK", "PRODUCTION_VERIFIED"}
      BY <1>2, <3>1 DEF IInv, Types
    <3>. QED BY <3>2, <3>3 DEF LostToRollback
  <2>. QED BY <2>2, <2>3 DEF LostToRollback
<1>. QED BY <1>1, <1>2

\* Every other step leaves a held route with its holder.
LEMMA RouteStays ==
    ASSUME UNCHANGED route, NEW a \in Activations
    PROVE  LostToRollback(a)
BY DEF LostToRollback, Route

LEMMA ProcessTakes ==
    ASSUME IInv, NEW p \in Processes, Step(p) \/ Fault(p), NEW a \in Activations
    PROVE  LostToRollback(a)
<1>1. CASE Restore(p) \/ FallThrough(p) \/ Revert(p)
  <2>1. /\ ~In(p, {"idle"}) /\ In(p, {"restoring", "accepted", "reverting"})
        /\ Rollback(session[p].act)
    BY <1>1 DEF Restore, FallThrough, Revert, In
  <2>2. session[p].act \in Activations /\ routeRecord[session[p].act] # "ABSENT"
    BY <2>1, AtWork DEF Relies, In
  <2>. QED BY <2>1, <2>2, RollbackTakes
<1>2. CASE BeginExecution(p)
  <2>1. ~In(p, {"idle"})
    BY <1>2 DEF BeginExecution, In
  <2>2. session[p].act \in Activations
    BY <2>1, AtWork
  <2>. QED BY <1>2, <2>2, RouteTyped, RouteShapes
           DEF BeginExecution, IInv, Types, LostToRollback, Route
<1>3. CASE MarkVerified(p)
  <2>1. ~In(p, {"idle"})
    BY <1>3 DEF MarkVerified, In
  <2>2. session[p].act \in Activations
    BY <2>1, AtWork
  <2>. QED BY <1>3, <2>2, RouteTyped, RouteShapes
           DEF MarkVerified, IInv, Types, LostToRollback, Route
<1>4. CASE \/ Accept(p) \/ Abandon(p) \/ Preflight(p) \/ PrepareRoute(p) \/ Authorize(p)
           \/ Consume(p) \/ Request(p) \/ CommitLifecycle(p) \/ Confirm(p) \/ ReadBack(p)
           \/ Raise(p) \/ Check(p) \/ ReadLifecycle(p) \/ Fault(p)
  <2>1. UNCHANGED route
    BY <1>4 DEF Accept, Abandon, Preflight, PrepareRoute, Authorize, Consume, Request,
       CommitLifecycle, Confirm, ReadBack, Raise, Check, ReadLifecycle, Fault, RestoreFails,
       RevertFails, Crash, RollbackInterrupted, routeStore
  <2>. QED BY <2>1, RouteStays
<1>. QED BY <1>1, <1>2, <1>3, <1>4 DEF Step

\* No plan in progress takes a live route from another: only a rollback of its
\* holder, of a plan whose rollback was interrupted, or of a verified plan does.
THEOREM RouteKept == Spec => RouteLostToRollback
<1>1. ASSUME IInv, [Next]_vars, NEW a \in Activations PROVE LostToRollback(a)
  <2>1. CASE Call
    <3>1. UNCHANGED route
      BY <2>1 DEF Call, Prepare, Execute, Command, Capture, Publish, routeStore
    <3>. QED BY <3>1, RouteStays
  <2>2. CASE \E p \in Processes : Step(p) \/ Fault(p)
    BY <1>1, <2>2, ProcessTakes
  <2>3. CASE UNCHANGED vars
    BY <2>3, RouteStays DEF vars
  <2>. QED BY <1>1, <2>1, <2>2, <2>3 DEF Next
<1>2. IInv /\ [Next]_vars => [\A a \in Activations : LostToRollback(a)]_vars
  BY <1>1
<1>3. [][\A a \in Activations : LostToRollback(a)]_vars => RouteLostToRollback
  BY PTL DEF RouteLostToRollback, LostToRollback
<1>. QED BY <1>2, <1>3, ActivationInvariance, PTL DEF Spec

=============================================================================
