----------------------------- MODULE Activation -----------------------------
(***************************************************************************)
(* The controlled activation of a Top-5 league: a signed authorization     *)
(* opens a route, pays for one provider request, stores the signal         *)
(* lifecycle it yields, and the route is closed again.                     *)
(*                                                                         *)
(* Four durable stores, each a file behind its own lock, take part:        *)
(*   record, active         DurableTop5ActivationStore                     *)
(*   routeRecord, route,    DurableTop5ProductionRouteStateStore (one per  *)
(*   nonces, evidence       element of Routes)                             *)
(*   lifecycle              Top5SignalLifecycleSetStore, per scope         *)
(* Nothing locks two of them together, so every action reads or writes one *)
(* store, and a process may die between any two actions.  The processes    *)
(* are runs of the CLI's execute and rollback commands and of the          *)
(* five-fixture orchestrator, which uses a route store per fixture and no  *)
(* activation record.                                                      *)
(***************************************************************************)
EXTENDS Naturals, Sequences

CONSTANTS
    Activations,    \* activation plans, each with its signed authorization
    BatchRuns,      \* those of the orchestrator's batch, in its order
    Runners,        \* processes of `top5_controlled_activation.py execute`
    Operators,      \* processes of `top5_controlled_activation.py rollback`
    Batches,        \* processes of capture_top5_canary_batch
    Routes, RouteOf,
    Nonces, NonceOf,
    Scopes, ScopeOf,
    Refinements,    \* activations whose lifecycle stage is REFINEMENT
    None

Batched == {BatchRuns[i] : i \in 1..Len(BatchRuns)}
Controlled == Activations \ Batched
Processes == Runners \cup Operators \cup Batches

ASSUME ActivationAssumptions ==
    /\ BatchRuns \in Seq(Activations)
    /\ RouteOf \in [Activations -> Routes]
    /\ NonceOf \in [Activations -> Nonces]
    /\ ScopeOf \in [Activations -> Scopes]
    /\ Refinements \subseteq Activations
    /\ None \notin Activations
    /\ Runners \cap Operators = {}
    /\ Runners \cap Batches = {}
    /\ Operators \cap Batches = {}
    \* _validate_runs: isolated route state for every fixture of a batch
    /\ \A a \in Batched, b \in Activations : RouteOf[a] = RouteOf[b] => a = b
    /\ \A i, j \in 1..Len(BatchRuns) : BatchRuns[i] = BatchRuns[j] => i = j

VARIABLES
    record,         \* activation store: status of every plan
    active,         \* activation store: active_activation_id
    routeRecord,    \* route store: status of every plan's record
    route,          \* route store: current_route
    nonces,         \* route store: consumed nonces
    evidence,       \* route store: plans with production evidence
    lifecycle,      \* lifecycle store: the activations that wrote a scope's set
    requests,       \* provider requests sent for every plan
    artifacts,      \* batches of captures that were published in memory
    session         \* what every process is doing, lost when it dies

stores == <<record, active>>
routeStore == <<routeRecord, route, nonces, evidence>>
outside == <<lifecycle, requests, artifacts>>
vars == <<record, active, routeRecord, route, nonces, evidence, lifecycle,
          requests, artifacts, session>>

Disabled == [mode |-> "DISABLED", id |-> None]
Executing(a) == [mode |-> "EXECUTING", id |-> a]
Verified(a) == [mode |-> "PRODUCTION_VERIFIED", id |-> a]

\* What counts as pending in either store.  The route store's list does not
\* name ROLLBACK, the state an interrupted rollback leaves behind.
Pending == {"PREPARED", "EXECUTING", "PRODUCTION_VERIFIED"}
RoutePending == {"PREPARED", "AUTHORIZED", "EXECUTING"}

\* Nobody is at work; done counts the captures a batch process holds.
Idle == [phase |-> "idle", act |-> None, seen |-> <<>>, done |-> 0, resumed |-> FALSE]

Init ==
    /\ record = [a \in Activations |-> "ABSENT"]
    /\ active = None
    /\ routeRecord = [a \in Activations |-> "ABSENT"]
    /\ route = [x \in Routes |-> Disabled]
    /\ nonces = [x \in Routes |-> {}]
    /\ evidence = {}
    /\ lifecycle = [s \in Scopes |-> <<>>]
    /\ requests = [a \in Activations |-> 0]
    /\ artifacts = FALSE
    /\ session = [p \in Processes |-> Idle]

Route(a) == route[RouteOf[a]]
Lifecycle(a) == lifecycle[ScopeOf[a]]
In(p, phases) == session[p].phase \in phases
Goes(p, phase) == session' = [session EXCEPT ![p].phase = phase]
Ends(p) == session' = [session EXCEPT ![p] = Idle]

\* A run that failed before its route was opened, or whose route was closed
\* again, leaves the rest to the activation store; the orchestrator has none
\* and gives the batch up.
GivesUp(p) == IF p \in Batches THEN Ends(p) ELSE Goes(p, "abandoning")

-----------------------------------------------------------------------------
(* The activation store *)

Prepare(a) ==
    /\ a \in Controlled
    /\ record[a] = "ABSENT"
    /\ active = None
    /\ \A b \in Activations : record[b] \notin Pending
    /\ record' = [record EXCEPT ![a] = "PREPARED"]
    /\ UNCHANGED <<active, routeStore, outside, session>>

\* Fault: the run forgets which plan it executes.
ExecuteUnbound(r, a) ==
    /\ r \in Runners
    /\ In(r, {"idle"})
    /\ record[a] = "PREPARED"
    /\ record' = [record EXCEPT ![a] = "EXECUTING"]
    /\ Goes(r, "preflight")
    /\ UNCHANGED <<active, routeStore, outside>>

Execute(r, a) ==
    /\ r \in Runners
    /\ In(r, {"idle"})
    /\ record[a] = "PREPARED"
    /\ record' = [record EXCEPT ![a] = "EXECUTING"]
    /\ session' = [session EXCEPT ![r].phase = "preflight", ![r].act = a]
    /\ UNCHANGED <<active, routeStore, outside>>

\* The runtime's result is accepted.
Accept(r) ==
    LET a == session[r].act IN
    /\ In(r, {"returned"})
    /\ IF record[a] = "EXECUTING"
         THEN /\ record' = [record EXCEPT ![a] = "PRODUCTION_VERIFIED"]
              /\ active' = a
              /\ Goes(r, "accepted")
         ELSE /\ Goes(r, "reverting")
              /\ UNCHANGED stores
    /\ UNCHANGED <<routeStore, outside>>

\* Fault: the rolled back activation stays the active one.
AbandonActive(p) ==
    /\ In(p, {"abandoning"})
    /\ record' = [record EXCEPT ![session[p].act] = IF @ \in Pending THEN "ROLLED_BACK" ELSE @]
    /\ Ends(p)
    /\ UNCHANGED <<active, routeStore, outside>>

\* rollback, of a failed run or of the operator.
Abandon(p) ==
    LET a == session[p].act IN
    /\ In(p, {"abandoning"})
    /\ IF record[a] \in Pending
         THEN /\ record' = [record EXCEPT ![a] = "ROLLED_BACK"]
              /\ active' = IF active = a THEN None ELSE active
         ELSE UNCHANGED stores
    /\ Ends(p)
    /\ UNCHANGED <<routeStore, outside>>

-----------------------------------------------------------------------------
(* The one-shot runtime *)

\* What has to hold before the route is touched: an INITIAL finds no set, a
\* REFINEMENT the complete initial one.
StageFits(a) == Len(Lifecycle(a)) = IF a \in Refinements THEN 1 ELSE 0

Preflight(p) ==
    LET a == session[p].act IN
    /\ In(p, {"preflight"})
    /\ StageFits(a)
    /\ session' = [session EXCEPT ![p].phase = "opening", ![p].seen = Lifecycle(a)]
    /\ UNCHANGED <<stores, routeStore, outside>>

\* Every record the same route store holds.
Beside(a) == {b \in Activations : RouteOf[b] = RouteOf[a]}

\* A prepared record is handed out again, to whoever asks; the baseline is
\* compared first.
PrepareRoute(p) ==
    LET a == session[p].act IN
    /\ In(p, {"opening"})
    /\ Route(a) = Disabled
    /\ \/ routeRecord[a] = "PREPARED"
       \/ /\ routeRecord[a] = "ABSENT"
          /\ \A b \in Beside(a) : routeRecord[b] \notin RoutePending
    /\ routeRecord' = [routeRecord EXCEPT ![a] = "PREPARED"]
    /\ Goes(p, "prepared")
    /\ UNCHANGED <<stores, route, nonces, evidence, outside>>

\* Fault: the nonce is recorded and never looked up.
AuthorizeReplayed(p) ==
    LET a == session[p].act
        x == RouteOf[a] IN
    /\ In(p, {"prepared"})
    /\ routeRecord[a] \in {"PREPARED", "AUTHORIZED"}
    /\ nonces' = [nonces EXCEPT ![x] = @ \cup {NonceOf[a]}]
    /\ routeRecord' = [routeRecord EXCEPT ![a] = "AUTHORIZED"]
    /\ Goes(p, "authorized")
    /\ UNCHANGED <<stores, route, evidence, outside>>

\* The second of two runs is let through with the signature of the first.
Authorize(p) ==
    LET a == session[p].act
        x == RouteOf[a] IN
    /\ In(p, {"prepared"})
    /\ \/ /\ routeRecord[a] = "AUTHORIZED"
          /\ UNCHANGED <<routeRecord, nonces>>
       \/ /\ routeRecord[a] = "PREPARED"
          /\ NonceOf[a] \notin nonces[x]
          /\ nonces' = [nonces EXCEPT ![x] = @ \cup {NonceOf[a]}]
          /\ routeRecord' = [routeRecord EXCEPT ![a] = "AUTHORIZED"]
    /\ Goes(p, "authorized")
    /\ UNCHANGED <<stores, route, evidence, outside>>

BeginExecution(p) ==
    LET a == session[p].act IN
    /\ In(p, {"authorized"})
    /\ routeRecord[a] = "AUTHORIZED"
    /\ Route(a) = Disabled
    /\ routeRecord' = [routeRecord EXCEPT ![a] = "EXECUTING"]
    /\ route' = [route EXCEPT ![RouteOf[a]] = Executing(a)]
    /\ Goes(p, "executing")
    /\ UNCHANGED <<stores, nonces, evidence, outside>>

\* consume_exact; the clock, the stage and the budget are looked at again.
Consume(p) ==
    LET a == session[p].act IN
    /\ In(p, {"executing"})
    /\ Route(a) = Executing(a)
    /\ routeRecord[a] = "EXECUTING"
    /\ NonceOf[a] \in nonces[RouteOf[a]]
    /\ Goes(p, "sending")
    /\ UNCHANGED <<stores, routeStore, outside>>

Request(p) ==
    LET a == session[p].act IN
    /\ In(p, {"sending"})
    /\ requests' = [requests EXCEPT ![a] = @ + 1]
    /\ Goes(p, "waiting")
    /\ UNCHANGED <<stores, routeStore, lifecycle, artifacts>>

\* Fault: the new histories replace whatever set is stored.
CommitBlindly(p) ==
    LET a == session[p].act IN
    /\ In(p, {"waiting"})
    /\ lifecycle' = [lifecycle EXCEPT ![ScopeOf[a]] = Append(@, a)]
    /\ Goes(p, "persisted")
    /\ UNCHANGED <<stores, routeStore, requests, artifacts>>

\* The response is turned into the three next histories and committed: the
\* stored set must still be the one the run started from.
CommitLifecycle(p) ==
    LET a == session[p].act IN
    /\ In(p, {"waiting"})
    /\ Lifecycle(a) = session[p].seen
    /\ lifecycle' = [lifecycle EXCEPT ![ScopeOf[a]] = Append(session[p].seen, a)]
    /\ Goes(p, "persisted")
    /\ UNCHANGED <<stores, routeStore, requests, artifacts>>

\* The evidence is assembled from a fresh read of the committed set.
Confirm(p) ==
    LET a == session[p].act IN
    /\ In(p, {"persisted"})
    /\ Lifecycle(a) = Append(session[p].seen, a)
    /\ Goes(p, "confirmed")
    /\ UNCHANGED <<stores, routeStore, outside>>

MarkVerified(p) ==
    LET a == session[p].act IN
    /\ In(p, {"confirmed"})
    /\ routeRecord[a] = "EXECUTING"
    /\ Route(a) = Executing(a)
    /\ routeRecord' = [routeRecord EXCEPT ![a] = "PRODUCTION_VERIFIED"]
    /\ route' = [route EXCEPT ![RouteOf[a]] = Verified(a)]
    /\ evidence' = evidence \cup {a}
    /\ Goes(p, "verified")
    /\ UNCHANGED <<stores, nonces, outside>>

\* verify_production_verified; the orchestrator closes the route at once.
ReadBack(p) ==
    LET a == session[p].act IN
    /\ In(p, {"verified"})
    /\ Route(a) = Verified(a)
    /\ routeRecord[a] = "PRODUCTION_VERIFIED"
    /\ Goes(p, IF p \in Batches THEN "reverting" ELSE "returned")
    /\ UNCHANGED <<stores, routeStore, outside>>

\* Any step may raise: its guard above does not hold, the budget is spent, the
\* authorization has expired, the provider answers with an error or not at all.
Raise(p) ==
    /\ \/ /\ In(p, {"preflight", "opening"})
          /\ GivesUp(p)
       \/ /\ In(p, {"prepared", "authorized", "executing", "sending", "waiting",
                    "persisted", "confirmed", "verified"})
          /\ Goes(p, "restoring")
       \/ /\ In(p, {"returned"})
          /\ Goes(p, "reverting")
    /\ UNCHANGED <<stores, routeStore, outside>>

-----------------------------------------------------------------------------
(* Closing a route *)

\* Fault: a record that was rolled back is rolled back again.
RollbackAgain(a) ==
    /\ routeRecord' = [routeRecord EXCEPT ![a] = "ROLLED_BACK"]
    /\ route' = [route EXCEPT ![RouteOf[a]] = Disabled]

\* DurableTop5ProductionRouteStateStore.rollback: the record is marked, then
\* the saved baseline replaces whatever route is current.
Rollback(a) ==
    IF routeRecord[a] = "ROLLED_BACK"
      THEN UNCHANGED <<routeRecord, route>>
      ELSE /\ routeRecord' = [routeRecord EXCEPT ![a] = "ROLLED_BACK"]
           /\ route' = [route EXCEPT ![RouteOf[a]] = Disabled]

\* Fault: the record is finished before the route is restored.
InterruptedAfterRecord(a) ==
    /\ routeRecord[a] # "ROLLED_BACK"
    /\ routeRecord' = [routeRecord EXCEPT ![a] = "ROLLED_BACK"]
    /\ UNCHANGED route

\* The second of the two writes fails.
RollbackInterrupted(a) ==
    /\ routeRecord[a] # "ROLLED_BACK"
    /\ routeRecord' = [routeRecord EXCEPT ![a] = "ROLLBACK"]
    /\ UNCHANGED route

\* The runtime's own handler: the run has failed whether or not the route
\* could be closed.
Restore(p) ==
    /\ In(p, {"restoring"})
    /\ Rollback(session[p].act)
    /\ GivesUp(p)
    /\ UNCHANGED <<stores, nonces, evidence, outside>>

RestoreFails(p) ==
    /\ In(p, {"restoring"})
    /\ RollbackInterrupted(session[p].act)
    /\ GivesUp(p)
    /\ UNCHANGED <<stores, nonces, evidence, outside>>

\* The execute branch of main does not return: it reads the route store and goes
\* on like the rollback command, closes the route of the activation just accepted
\* and dies, once it has checked that, of an argument only that command has.  The
\* activation store is not told.
FallThrough(r) ==
    /\ In(r, {"accepted"})
    /\ Rollback(session[r].act)
    /\ Ends(r)
    /\ UNCHANGED <<stores, nonces, evidence, outside>>

\* rollback_execution called from outside the runtime: by the activation store
\* for a result it does not accept, by the orchestrator, by the operator.
Revert(p) ==
    /\ In(p, {"reverting"})
    /\ Rollback(session[p].act)
    /\ Goes(p, "checking")
    /\ UNCHANGED <<stores, nonces, evidence, outside>>

RevertFails(p) ==
    /\ In(p, {"reverting", "accepted"})
    /\ RollbackInterrupted(session[p].act)
    /\ Ends(p)
    /\ UNCHANGED <<stores, nonces, evidence, outside>>

\* verify_disabled_after_rollback.
ClosedRoute(a) == Route(a) = Disabled /\ routeRecord[a] = "ROLLED_BACK"

Check(p) ==
    LET a == session[p].act IN
    /\ In(p, {"checking"})
    /\ IF ~ClosedRoute(a) THEN Ends(p)
       ELSE IF p \in Batches THEN Goes(p, "reading")
       ELSE Goes(p, "abandoning")
    /\ UNCHANGED <<stores, routeStore, outside>>

\* Fault: the command does not take up an interrupted rollback.
CommandForgets(o, a) ==
    /\ o \in Operators
    /\ In(o, {"idle"})
    /\ record[a] # "ABSENT"
    /\ session' = [session EXCEPT
         ![o].act = a,
         ![o].phase = CASE routeRecord[a] \in {"ABSENT", "ROLLBACK"} -> "abandoning"
                        [] routeRecord[a] = "ROLLED_BACK" -> "checking"
                        [] OTHER -> "reverting"]
    /\ UNCHANGED <<stores, routeStore, outside>>

\* The operator's rollback command reads the route store, closes the route if
\* there is a record, and turns to the activation store afterwards.
Command(o, a) ==
    /\ o \in Operators
    /\ In(o, {"idle"})
    /\ record[a] # "ABSENT"
    /\ session' = [session EXCEPT
         ![o].act = a,
         ![o].phase = CASE routeRecord[a] = "ABSENT" -> "abandoning"
                        [] routeRecord[a] = "ROLLED_BACK" -> "checking"
                        [] OTHER -> "reverting"]
    /\ UNCHANGED <<stores, routeStore, outside>>

-----------------------------------------------------------------------------
(* The five-fixture orchestrator *)

\* The newest version of the scope's set was written by a.
Newest(a) == Lifecycle(a) # <<>> /\ Lifecycle(a)[Len(Lifecycle(a))] = a

\* Fault: a capture is taken over for its lifecycle set alone.
RecoverableUnproven(a) ==
    /\ routeRecord[a] \in {"PRODUCTION_VERIFIED", "ROLLED_BACK"}
    /\ Newest(a)

\* _recover_capture: a fixture without a record is run, one with complete
\* evidence is taken over, anything else is refused.
Recoverable(a) ==
    /\ routeRecord[a] \in {"PRODUCTION_VERIFIED", "ROLLED_BACK"}
    /\ a \in evidence
    /\ Newest(a)

NextRun(b) == BatchRuns[session[b].done + 1]

Capture(b) ==
    /\ b \in Batches
    /\ In(b, {"idle"})
    /\ session[b].done < Len(BatchRuns)
    /\ LET a == NextRun(b)
           Takes(phase, resumed) ==
             session' = [session EXCEPT ![b].act = a, ![b].phase = phase, ![b].resumed = resumed]
       IN  \/ routeRecord[a] = "ABSENT" /\ Takes("preflight", FALSE)
           \/ /\ Recoverable(a)
              /\ Takes(IF routeRecord[a] = "ROLLED_BACK" THEN "checking" ELSE "reverting", TRUE)
    /\ UNCHANGED <<stores, routeStore, outside>>

\* A recovered set was compared before its route was closed, a new one is
\* compared now.
ReadLifecycle(b) ==
    LET a == session[b].act IN
    /\ In(b, {"reading"})
    /\ session' = [session EXCEPT
         ![b] = IF session[b].resumed \/ Newest(a)
                  THEN [Idle EXCEPT !.done = session[b].done + 1]
                  ELSE Idle]
    /\ UNCHANGED <<stores, routeStore, outside>>

Publish(b) ==
    /\ b \in Batches
    /\ In(b, {"idle"})
    /\ session[b].done = Len(BatchRuns)
    /\ artifacts' = TRUE
    /\ Ends(b)
    /\ UNCHANGED <<stores, routeStore, lifecycle, requests>>

-----------------------------------------------------------------------------

\* A process is killed, a handler raises itself, or a batch is refused.
Crash(p) ==
    /\ session[p] # Idle
    /\ Ends(p)
    /\ UNCHANGED <<stores, routeStore, outside>>

Fault(p) == RestoreFails(p) \/ RevertFails(p) \/ Crash(p)

\* What a live process does next.
Step(p) ==
    \/ Accept(p) \/ FallThrough(p) \/ Abandon(p) \/ Preflight(p) \/ PrepareRoute(p)
    \/ Authorize(p) \/ BeginExecution(p) \/ Consume(p) \/ Request(p)
    \/ CommitLifecycle(p) \/ Confirm(p) \/ MarkVerified(p) \/ ReadBack(p)
    \/ Raise(p) \/ Restore(p) \/ Revert(p) \/ Check(p) \/ ReadLifecycle(p)

\* What somebody asks for.
Call ==
    \/ \E a \in Activations : Prepare(a)
    \/ \E r \in Runners, a \in Activations : Execute(r, a)
    \/ \E o \in Operators, a \in Activations : Command(o, a)
    \/ \E b \in Batches : Capture(b) \/ Publish(b)

Next == Call \/ \E p \in Processes : Step(p) \/ Fault(p)

Spec == Init /\ [][Next]_vars

\* What the status command shows an operator: an activation is still pending
\* or its route record was never rolled back.
Unclosed(a) ==
    \/ record[a] \in Pending
    \/ routeRecord[a] \notin {"ABSENT", "ROLLED_BACK"}

\* A live process goes on, and the operator keeps issuing the rollback the
\* runbook orders for every activation the stores show open.
Fairness ==
    /\ \A p \in Processes : WF_vars(Step(p))
    /\ \A o \in Operators, a \in Controlled : SF_vars(Unclosed(a) /\ Command(o, a))

FairSpec == Spec /\ Fairness
=============================================================================
