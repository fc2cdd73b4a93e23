---------------------- MODULE BatchDeliveryProperties ----------------------
(***************************************************************************)
(* What the public delivery of a batch promises.                           *)
(***************************************************************************)
EXTENDS BatchDelivery, FiniteSets

States == {"ABSENT", "PREPARING", "COMMITTED"} \cup Terminal
Questions == {"entry", "guard", "refused", "delivered", "undone", "required",
              "ordered", "restored"}
Paying == {"staging", "writing", "committing", "unwriting", "unstaging"}
Restoring == {"restaging", "rewriting", "recommitting"}
Phases == {"idle", "loading", "reading", "comparing", "recording", "consuming"}
          \cup Paying \cup Restoring
Sessions == [phase : Phases, gen : Generations \cup {None}, snap : Products \cup {None},
             token : Capabilities \cup {None}, why : Questions \cup {"none"},
             static : Products \cup {None}, verdict : States \cup {None}]

\* The stores and the targets hold what they may hold; whoever is at work has
\* a generation and a product to go back to, and a deliverer its capability.
TypeOK ==
    /\ batch \in [Generations -> States]
    /\ previous \in [Generations -> Products \cup {None}]
    /\ capability \in Capabilities \cup {None}
    /\ consumed \subseteq Capabilities
    /\ {checkout, origin, worker} \subseteq Products
    /\ publisher \in {"aligned", "stuck"}
    /\ staged \in [Generations -> Products \cup {None}]
    /\ drift \in Nat
    /\ session \in [Processes -> Sessions]
    /\ \A p \in Processes : ~In(p, "idle") =>
         /\ session[p].gen \in Generations
         /\ batch[session[p].gen] # "ABSENT"
         /\ session[p].snap = previous[session[p].gen]
         /\ session[p].snap \in Products
         /\ p \in Deliverers => session[p].token \in Capabilities
         /\ In(p, "recording") => session[p].verdict \in {"COMMITTED"} \cup Terminal

-----------------------------------------------------------------------------
(* The capability *)

\* A deliverer that may have written a target or the stage.
Paid(p) ==
    /\ p \in Deliverers
    /\ \/ session[p].phase \in Paying \cup Restoring
       \/ session[p].why \in {"delivered", "undone", "required", "restored"}

\* However many deliverers overlap, crash and are started again, at most one
\* ever gets past the checks on one capability, and it has consumed it.
OneWriterPerCapability ==
    \A p \in Deliverers :
        Paid(p) =>
          /\ session[p].token \in consumed
          /\ \A q \in Deliverers : Paid(q) /\ session[q].token = session[p].token => q = p

\* No generation is on the static site, in the checkout, on the Worker or in
\* the hands of the publisher that was not paid for, and that does not have the
\* product it replaced on record for a rollback.
PublicIsAccounted ==
    \A g \in Generations :
        g \in {origin, checkout, worker, staged[g]} =>
          /\ \E k \in consumed : Attests[k] = g
          /\ batch[g] # "ABSENT"
          /\ previous[g] = Source[g]

-----------------------------------------------------------------------------
(* The verdict *)

\* No scheduled job interfered, and no second capability was used.  Nothing in
\* the code keeps either from overwriting a delivery that is under way.
Undisturbed == drift = 0 /\ Cardinality(consumed) = 1

\* The process that delivered g, or was ordered to restore, records a verdict.
Decides(p, g, verdict) ==
    /\ In(p, "recording")
    /\ session[p].gen = g
    /\ session[p].why \notin {"entry", "refused"}
    /\ session'[p] = Idle
    /\ batch[g] # verdict
    /\ batch'[g] = verdict

\* A delivery that its own process finds COMMITTED is on the static site, in
\* the checkout and on the Worker, though they were read one after another and
\* other commands went on meanwhile; one that its own process, or the operator's
\* command, finds ROLLED_BACK is gone from the static site and the Worker,
\* whichever of their writes failed or were applied in spite of an error.
VerdictIsReal ==
    [][\A p \in Processes, g \in Generations : Undisturbed =>
         /\ Decides(p, g, "COMMITTED") => {origin, checkout, worker} = {g}
         /\ Decides(p, g, "ROLLED_BACK") => g \notin {origin, worker}]_vars

\* A batch does not stay PREPARING while its delivery command is repeated,
\* wherever an earlier one died and whatever its targets hold by then.
DeliveryConcludes ==
    \A g \in Generations : batch[g] = "PREPARING" ~> batch[g] # "PREPARING"
=============================================================================
