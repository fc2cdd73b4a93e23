--------------------------- MODULE BatchDelivery ---------------------------
(***************************************************************************)
(* The public delivery of a five-fixture batch: one authorized generation  *)
(* replaces the public product on the static site and on the Worker, and   *)
(* an operator may put the previous product back.                          *)
(*                                                                         *)
(*   batch, previous      Top5CanaryBatchStore, one locked file per batch  *)
(*   capability, consumed FileControlledPublicationCapabilityStore         *)
(*   checkout             docs/data/signals.json of the active checkout,   *)
(*                        which is what the static readback reads          *)
(*   origin, publisher    origin/main, to which publish_runtime_artifacts  *)
(*                        pushes from a checkout of its own                *)
(*   worker               the product the Worker serves                    *)
(*   staged               the stage directory of a generation              *)
(* No lock is held across two of them, and none across a delivery.  A      *)
(* product is a generation, or one of the products the scheduled jobs      *)
(* publish; bytes, digests and signatures are left out, and so is a target *)
(* that holds no product at all.                                           *)
(***************************************************************************)
EXTENDS Naturals

CONSTANTS
    Generations,    \* authorized artifacts, each with its plan
    Deliverers,     \* processes of `top5_public_delivery.py execute`
    Rollbackers,    \* processes of `top5_public_delivery.py rollback`
    Capabilities,   \* one-time tokens that may be issued
    Attests,        \* the generation a token's attestation is bound to
    Ordinary,       \* products without a Top-5 generation
    Source,         \* the product a generation's plan was built from
    Initially,      \* the product that is public at first
    None

Products == Generations \cup Ordinary
Processes == Deliverers \cup Rollbackers

ASSUME DeliveryAssumptions ==
    /\ Generations \cap Ordinary = {}
    /\ Deliverers \cap Rollbackers = {}
    /\ Attests \in [Capabilities -> Generations]
    \* build_plan refuses a snapshot that holds another generation
    /\ Source \in [Generations -> Ordinary]
    /\ Initially \in Ordinary
    /\ None \notin Products \cup Capabilities

VARIABLES
    batch, previous, capability, consumed,
    checkout, origin, publisher, worker, staged,
    drift,          \* how often a scheduled job wrote a target
    session         \* what every process is doing, lost when it dies

store == <<batch, previous>>
tokens == <<capability, consumed>>
targets == <<checkout, origin, publisher, worker, staged>>
vars == <<batch, previous, capability, consumed, checkout, origin, publisher,
          worker, staged, drift, session>>

Terminal == {"FAILED", "ROLLED_BACK"}

\* allowed transitions of Top5CanaryBatchStore.transition
Allowed(from) == CASE from = "PREPARING" -> {"COMMITTED"} \cup Terminal
                   [] from = "COMMITTED" -> Terminal
                   [] OTHER -> {}

\* why names the question a readback answers, static is the first of its two
\* answers, and verdict the state to record.
Idle == [phase |-> "idle", gen |-> None, snap |-> None, token |-> None,
         why |-> "none", static |-> None, verdict |-> None]

Init ==
    /\ batch = [g \in Generations |-> "ABSENT"]
    /\ previous = [g \in Generations |-> None]
    /\ capability = None
    /\ consumed = {}
    /\ checkout = Initially
    /\ origin = Initially
    /\ publisher = "aligned"
    /\ worker = Initially
    /\ staged = [g \in Generations |-> None]
    /\ drift = 0
    /\ session = [p \in Processes |-> Idle]

In(p, phase) == session[p].phase = phase
Goes(p, phase) == session' = [session EXCEPT ![p].phase = phase]
Turns(p, phase, why) == session' = [session EXCEPT ![p].phase = phase, ![p].why = why]
Looks(p, why) == Turns(p, "reading", why)
Records(p, verdict) ==
    session' = [session EXCEPT ![p].phase = "recording", ![p].verdict = verdict]
Ends(p) == session' = [session EXCEPT ![p] = Idle]

-----------------------------------------------------------------------------
(* The batch store *)

\* Fault: a second preparation replaces the snapshot of the first.
PrepareOver(p, s, k) ==
    LET g == Attests[k] IN
    /\ p \in Deliverers
    /\ In(p, "idle")
    /\ batch[g] # "COMMITTED"
    /\ batch' = [batch EXCEPT ![g] = IF @ = "ABSENT" THEN "PREPARING" ELSE @]
    /\ previous' = [previous EXCEPT ![g] = s]
    /\ session' = [session EXCEPT ![p] =
         [Idle EXCEPT !.phase = "loading", !.gen = g, !.snap = s, !.token = k]]
    /\ UNCHANGED <<tokens, targets, drift>>

\* A deliverer is started with a saved snapshot of the public product and a
\* capability.  A batch that was loaded as COMMITTED is only read back.
Prepare(p, s, k) ==
    LET g == Attests[k] IN
    /\ p \in Deliverers
    /\ In(p, "idle")
    /\ batch[g] # "COMMITTED"
    /\ batch[g] = "ABSENT" \/ previous[g] = s
    /\ batch' = [batch EXCEPT ![g] = IF @ = "ABSENT" THEN "PREPARING" ELSE @]
    /\ previous' = [previous EXCEPT ![g] = s]
    /\ session' = [session EXCEPT ![p] =
         [Idle EXCEPT !.phase = "loading", !.gen = g, !.snap = s, !.token = k]]
    /\ UNCHANGED <<tokens, targets, drift>>

\* The record is loaded again; another process may have decided the batch.
Load(p) ==
    /\ In(p, "loading")
    /\ IF batch[session[p].gen] = "PREPARING" THEN Looks(p, "entry") ELSE Ends(p)
    /\ UNCHANGED <<store, tokens, targets, drift>>

\* The operator's rollback needs a committed batch.
Command(p, g) ==
    /\ p \in Rollbackers
    /\ In(p, "idle")
    /\ batch[g] = "COMMITTED"
    /\ session' = [session EXCEPT ![p] =
         [Idle EXCEPT !.phase = "reading", !.gen = g, !.snap = previous[g], !.why = "ordered"]]
    /\ UNCHANGED <<store, tokens, targets, drift>>

\* transition: the same state again is accepted, an invalid one is an error.
Transition(p) ==
    LET g == session[p].gen
        verdict == session[p].verdict
    IN
    /\ In(p, "recording")
    /\ batch' = [batch EXCEPT ![g] = IF verdict \in Allowed(@) THEN verdict ELSE @]
    /\ Ends(p)
    /\ UNCHANGED <<previous, tokens, targets, drift>>

-----------------------------------------------------------------------------
(* Readbacks: the active checkout first, the Worker after it *)

ReadStatic(p) ==
    /\ In(p, "reading")
    /\ session' = [session EXCEPT ![p].phase = "comparing", ![p].static = checkout]
    /\ UNCHANGED <<store, tokens, targets, drift>>

\* Fault: the Worker's answer is taken for both.
AnsweredByWorker(p, product) == worker = product

Answered(p, product) == session[p].static = product /\ worker = product

\* Fault: targets that were left half written are only reported.
InterruptedOpen(p) == Ends(p)

\* An attempt found the targets of an interrupted one in disagreement.
Interrupted(p) == Records(p, "FAILED")

\* What follows from both answers, for every question.
Concluded(p) ==
    LET g == session[p].gen
        s == session[p].snap
    IN  CASE session[p].why = "entry" ->
               IF Answered(p, g) THEN Records(p, "COMMITTED")
               ELSE IF ~Answered(p, s) THEN Interrupted(p)
               \* a snapshot the plan was not built from is refused
               ELSE Looks(p, IF s = Source[g] THEN "guard" ELSE "refused")
          [] session[p].why = "guard" ->
               IF Answered(p, s) THEN Goes(p, "consuming") ELSE Looks(p, "refused")
          [] session[p].why = "delivered" ->
               IF Answered(p, g) THEN Records(p, "COMMITTED") ELSE Goes(p, "restaging")
          [] session[p].why = "ordered" ->
               IF Answered(p, g) THEN Goes(p, "restaging") ELSE Ends(p)
          [] OTHER ->
               Records(p, IF Answered(p, s) THEN "ROLLED_BACK" ELSE "FAILED")

ReadWorker(p) ==
    /\ In(p, "comparing")
    /\ Concluded(p)
    /\ UNCHANGED <<store, tokens, targets, drift>>

\* A readback that raises: the executor's own is a refusal, the one after a
\* restoration by the deliverer a failure, and any other ends the process.
ReadFails(p) ==
    /\ session[p].phase \in {"reading", "comparing"}
    /\ CASE session[p].why = "guard" -> Looks(p, "refused")
         [] session[p].why = "restored" /\ p \in Deliverers -> Records(p, "FAILED")
         [] OTHER -> Ends(p)
    /\ UNCHANGED <<store, tokens, targets, drift>>

-----------------------------------------------------------------------------
(* The capability *)

\* issue: never while a token is unconsumed, never twice for one proof.
Issue(k) ==
    /\ capability \in consumed \cup {None}
    /\ k \notin consumed
    /\ capability' = k
    /\ UNCHANGED <<store, consumed, targets, drift, session>>

Usable(k) == capability = k /\ k \notin consumed

\* Fault: the token is checked, not taken.
ConsumeNothing(p) ==
    LET k == session[p].token IN
    /\ In(p, "consuming")
    /\ IF Usable(k) THEN Goes(p, "staging") ELSE Looks(p, "refused")
    /\ UNCHANGED <<store, tokens, targets, drift>>

\* Fault: a token that was consumed for the same generation is good enough.
ConsumeAgain(p) ==
    LET k == session[p].token IN
    /\ In(p, "consuming")
    /\ IF capability = k
         THEN consumed' = consumed \cup {k} /\ Goes(p, "staging")
         ELSE Looks(p, "refused") /\ UNCHANGED consumed
    /\ UNCHANGED <<store, capability, targets, drift>>

Consume(p) ==
    LET k == session[p].token IN
    /\ In(p, "consuming")
    /\ IF Usable(k)
         THEN consumed' = consumed \cup {k} /\ Goes(p, "staging")
         ELSE Looks(p, "refused") /\ UNCHANGED consumed
    /\ UNCHANGED <<store, capability, targets, drift>>

-----------------------------------------------------------------------------
(* The executor: stage, write the Worker, commit the static site *)

\* A failed stage is cleaned up; when that fails too, nothing is verified.
Stage(p) ==
    LET g == session[p].gen IN
    /\ In(p, "staging")
    /\ \/ staged' = [staged EXCEPT ![g] = g] /\ Goes(p, "writing")
       \/ staged' = [staged EXCEPT ![g] = None] /\ Looks(p, "undone")
       \/ staged' \in {staged, [staged EXCEPT ![g] = g]} /\ Records(p, "FAILED")
    /\ UNCHANGED <<store, tokens, checkout, origin, publisher, worker, drift>>

\* A write that reports an error may have been applied.
Write(p) ==
    /\ In(p, "writing")
    /\ \/ worker' = session[p].gen /\ Goes(p, "committing")
       \/ worker' \in {worker, session[p].gen} /\ Turns(p, "unwriting", "undone")
    /\ UNCHANGED <<store, tokens, checkout, origin, publisher, staged, drift>>

\* publish-staged pushes what the stage directory holds.  It fails when there
\* is nothing staged, when its lock or checkout are in a state it cannot
\* explain, and when its push is rejected, which leaves it such a state; the
\* last of its pushes may have arrived and still be reported as an error.
Published(g) ==
    /\ publisher = "aligned"
    /\ staged[g] # None
    /\ origin' = staged[g]
    /\ UNCHANGED publisher

NotPublished(g) ==
    \/ UNCHANGED <<origin, publisher>>
    \/ /\ publisher = "aligned"
       /\ staged[g] # None
       /\ \/ publisher' = "stuck" /\ UNCHANGED origin
          \/ origin' = staged[g] /\ UNCHANGED publisher

\* Fault: a static site whose commit failed is thought to be untouched.
CommitUndone(p) ==
    /\ In(p, "committing")
    /\ \/ Published(session[p].gen) /\ Looks(p, "delivered")
       \/ NotPublished(session[p].gen) /\ Turns(p, "unwriting", "undone")
    /\ UNCHANGED <<store, tokens, checkout, worker, staged, drift>>

\* After a failed commit the Worker is restored, and that is never trusted.
Commit(p) ==
    /\ In(p, "committing")
    /\ \/ Published(session[p].gen) /\ Looks(p, "delivered")
       \/ NotPublished(session[p].gen) /\ Turns(p, "unwriting", "required")
    /\ UNCHANGED <<store, tokens, checkout, worker, staged, drift>>

\* The executor restores the Worker ...
Unwrite(p) ==
    /\ In(p, "unwriting")
    /\ \/ worker' = session[p].snap /\ Goes(p, "unstaging")
       \/ worker' \in {worker, session[p].snap} /\ Turns(p, "unstaging", "required")
    /\ UNCHANGED <<store, tokens, checkout, origin, publisher, staged, drift>>

\* ... and removes the stage; only if both succeeded is a readback worthwhile.
Unstage(p) ==
    LET g == session[p].gen IN
    /\ In(p, "unstaging")
    /\ \/ /\ staged' = [staged EXCEPT ![g] = None]
          /\ IF session[p].why = "undone" THEN Looks(p, "undone") ELSE Records(p, "FAILED")
       \/ UNCHANGED staged /\ Records(p, "FAILED")
    /\ UNCHANGED <<store, tokens, checkout, origin, publisher, worker, drift>>

-----------------------------------------------------------------------------
(* Restoring the previous product, by a deliverer whose readback failed and *)
(* by the operator                                                          *)

\* After an error the operator's command reads the targets once more; the
\* deliverer's does not.
Gives(p) == IF p \in Rollbackers THEN Looks(p, "restored") ELSE Records(p, "FAILED")

\* The stage is removed after an error, or an error prevents that as well.
Cleaned(g) == staged' \in {staged, [staged EXCEPT ![g] = None]}

Restage(p) ==
    LET g == session[p].gen IN
    /\ In(p, "restaging")
    /\ \/ staged' = [staged EXCEPT ![g] = session[p].snap] /\ Goes(p, "rewriting")
       \/ staged' \in {staged, [staged EXCEPT ![g] = session[p].snap]} /\ Gives(p)
       \/ p \in Deliverers /\ staged' = [staged EXCEPT ![g] = None] /\ Gives(p)
    /\ UNCHANGED <<store, tokens, checkout, origin, publisher, worker, drift>>

Rewrite(p) ==
    /\ In(p, "rewriting")
    /\ \/ worker' = session[p].snap /\ Goes(p, "recommitting") /\ UNCHANGED staged
       \/ worker' \in {worker, session[p].snap} /\ Gives(p) /\ Cleaned(session[p].gen)
    /\ UNCHANGED <<store, tokens, checkout, origin, publisher, drift>>

Recommit(p) ==
    /\ In(p, "recommitting")
    /\ \/ Published(session[p].gen) /\ Looks(p, "restored") /\ UNCHANGED staged
       \/ NotPublished(session[p].gen) /\ Gives(p) /\ Cleaned(session[p].gen)
    /\ UNCHANGED <<store, tokens, checkout, worker, drift>>

-----------------------------------------------------------------------------
(* The rest of the world *)

\* A scheduled job pulls origin/main into the active checkout.
Pull ==
    /\ checkout # origin
    /\ checkout' = origin
    /\ UNCHANGED <<store, tokens, origin, publisher, worker, staged, drift, session>>

\* A scheduled job publishes a product of its own, one target at a time.
Drift(product) ==
    /\ \/ checkout' = product /\ UNCHANGED <<origin, worker>>
       \/ origin' = product /\ UNCHANGED <<checkout, worker>>
       \/ worker' = product /\ UNCHANGED <<checkout, origin>>
    /\ drift' = drift + 1
    /\ UNCHANGED <<store, tokens, publisher, staged, session>>

\* A process is killed.  A publisher killed with it leaves its lock behind.
Crash(p) ==
    /\ session[p] # Idle
    /\ Ends(p)
    /\ publisher' \in IF session[p].phase \in {"committing", "recommitting"}
                        THEN {publisher, "stuck"} ELSE {publisher}
    /\ UNCHANGED <<store, tokens, checkout, origin, worker, staged, drift>>

-----------------------------------------------------------------------------

\* What a live process does next.
Step(p) ==
    \/ Load(p) \/ ReadStatic(p) \/ ReadWorker(p) \/ Transition(p) \/ Consume(p)
    \/ Stage(p) \/ Write(p) \/ Commit(p) \/ Unwrite(p) \/ Unstage(p)
    \/ Restage(p) \/ Rewrite(p) \/ Recommit(p)

\* What befalls it.
Fault(p) == ReadFails(p) \/ Crash(p)

\* What somebody asks for.
Call ==
    \/ \E k \in Capabilities : Issue(k)
    \/ \E p \in Deliverers, s \in Products, k \in Capabilities : Prepare(p, s, k)
    \/ \E p \in Rollbackers, g \in Generations : Command(p, g)

World == Pull \/ \E product \in Ordinary : Drift(product)

Next == Call \/ World \/ \E p \in Processes : Step(p) \/ Fault(p)

Spec == Init /\ [][Next]_vars

\* The delivery command is issued again for a batch that is still PREPARING.
Again(g) == \E p \in Deliverers, k \in Capabilities :
    batch[g] = "PREPARING" /\ Attests[k] = g /\ Prepare(p, previous[g], k)

Fairness ==
    /\ \A p \in Processes : WF_vars(Step(p))
    /\ \A g \in Generations : SF_vars(Again(g))

FairSpec == Spec /\ Fairness
=============================================================================
