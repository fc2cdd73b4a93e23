------------------------ MODULE ActivationProperties ------------------------
(***************************************************************************)
(* What a controlled activation promises.                                  *)
(***************************************************************************)
EXTENDS Activation

Phases == {"idle", "preflight", "opening", "prepared", "authorized", "executing",
           "sending", "waiting", "persisted", "confirmed", "verified", "returned",
           "accepted", "restoring", "reverting", "checking", "reading", "abandoning"}
Sessions == [phase : Phases, act : Activations \cup {None}, seen : Seq(Activations),
             done : Nat, resumed : BOOLEAN]

\* The stores hold what they may hold; whoever is at work has a plan, and only
\* a controlled activation has an activation record.
TypeOK ==
    /\ record \in [Activations -> Pending \cup {"ABSENT", "ROLLED_BACK"}]
    /\ active \in Activations \cup {None}
    /\ routeRecord \in [Activations ->
         RoutePending \cup {"ABSENT", "PRODUCTION_VERIFIED", "ROLLBACK", "ROLLED_BACK"}]
    /\ route \in [Routes -> [mode : {"DISABLED", "EXECUTING", "PRODUCTION_VERIFIED"},
                             id : Activations \cup {None}]]
    /\ nonces \in [Routes -> SUBSET Nonces]
    /\ evidence \subseteq Activations
    /\ lifecycle \in [Scopes -> Seq(Activations)]
    /\ requests \in [Activations -> Nat]
    /\ artifacts \in BOOLEAN
    /\ session \in [Processes -> Sessions]
    /\ \A p \in Processes : ~In(p, {"idle"}) => session[p].act \in Activations
    /\ \A b \in Batched : record[b] = "ABSENT"

-----------------------------------------------------------------------------
(* The paid request *)

\* One signature pays for one request on one route store: two runs of a plan,
\* runs resumed after a crash and plans signed with the same nonce never send a
\* second one.  What another route store consumed is not known to this one.
OneRequestPerNonce ==
    \A a, b \in Activations :
        /\ RouteOf[a] = RouteOf[b]
        /\ NonceOf[a] = NonceOf[b]
        /\ requests[a] > 0
        /\ requests[b] > 0
        => a = b /\ requests[a] = 1

\* Production evidence stands for a request that was sent and a lifecycle set
\* its run wrote, and an accepted activation for such evidence.
VerifiedIsBacked ==
    /\ \A a \in evidence :
         /\ requests[a] = 1
         /\ \E i \in 1..Len(Lifecycle(a)) : Lifecycle(a)[i] = a
    /\ \A a \in Activations :
         record[a] = "PRODUCTION_VERIFIED" <=> active = a /\ a \in evidence

\* A scope's set is one INITIAL version and at most one REFINEMENT of it, each
\* paid for once, though runs started from the same set may overlap.
LifecycleStaged ==
    \A s \in Scopes :
        /\ Len(lifecycle[s]) <= 2
        /\ \A i \in 1..Len(lifecycle[s]) :
             /\ ScopeOf[lifecycle[s][i]] = s
             /\ lifecycle[s][i] \in Refinements <=> i = 2
             /\ requests[lifecycle[s][i]] = 1

-----------------------------------------------------------------------------
(* The route *)

\* A live route is accounted for by its own record; only a rollback that was
\* interrupted leaves it behind.
RouteIsRecorded ==
    \A x \in Routes :
        route[x] # Disabled =>
          LET a == route[x].id IN
          /\ a \in Activations
          /\ RouteOf[a] = x
          /\ routeRecord[a] \in {route[x].mode, "ROLLBACK"}

\* Nobody takes a live route from an activation but a rollback of its own, the
\* completion of one that was interrupted before it began, or the rollback of a
\* verified activation that lost its own route so: the baseline is restored
\* whatever route is current, but no plan in progress takes it from another.
RouteLostToRollback ==
    [][\A a \in Activations :
         Route(a).id = a /\ Route(a)'.id # a =>
           \E b \in Beside(a) :
             /\ routeRecord'[b] = "ROLLED_BACK"
             /\ b = a \/ routeRecord[b] \in {"ROLLBACK", "PRODUCTION_VERIFIED"}]_vars

\* Every activation that was started, or that left a route behind, is closed in
\* both stores in the end, wherever its run or an earlier rollback died: an accepted
\* one, whose run closes its route and dies before it says so, by an operator.
ActivationsClose ==
    \A a \in Controlled :
        record[a] = "EXECUTING" ~>
          /\ record[a] = "ROLLED_BACK"
          /\ routeRecord[a] \in {"ABSENT", "ROLLED_BACK"}
          /\ Route(a).id # a

-----------------------------------------------------------------------------
(* The batch *)

\* An artifact is published only from a complete set of captures: every fixture
\* has sent its one request, kept its evidence and closed its route.
ArtifactsComplete ==
    artifacts =>
      \A a \in Batched :
        /\ requests[a] = 1
        /\ a \in evidence
        /\ ClosedRoute(a)
=============================================================================
