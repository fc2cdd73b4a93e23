------------------------ MODULE BatchDeliveryProofs ------------------------
(***************************************************************************)
(* Theorems about the public delivery for every set of generations,        *)
(* capabilities, deliverers and operators, with any number of crashes and  *)
(* of writes by the scheduled jobs.                                        *)
(*                                                                         *)
(* The inductive invariant says of the stores and targets that whatever    *)
(* generation they hold is accounted for, of every process by itself that  *)
(* its session is sound, and of every two deliverers that they do not use  *)
(* one capability.  A step writes the session of one process only, so the  *)
(* sessions of the others need one lemma (Others) and its own needs one    *)
(* case for every action.                                                  *)
(*                                                                         *)
(* The truth of verdicts needs a second invariant, VInv, which follows the *)
(* one delivery there is while nobody disturbs it: what Moves says of a    *)
(* step keeps the targets as every other process needs them (OtherFits),   *)
(* and every action Suits the process that takes it.                       *)
(***************************************************************************)
EXTENDS BatchDeliveryProperties, TLAPS, FiniteSetTheorems

\* What PublicIsAccounted says of a generation that is public.
Accounted(g) ==
    /\ \E k \in consumed : Attests[k] = g
    /\ batch[g] # "ABSENT"
    /\ previous[g] = Source[g]

Counted(product) == product \in Generations => Accounted(product)

StoresSound ==
    /\ batch \in [Generations -> States]
    /\ previous \in [Generations -> Products \cup {None}]
    /\ capability \in Capabilities \cup {None}
    /\ consumed \subseteq Capabilities
    /\ {checkout, origin, worker} \subseteq Products
    /\ publisher \in {"aligned", "stuck"}
    /\ staged \in [Generations -> Products \cup {None}]
    /\ drift \in Nat
    /\ session \in [Processes -> Sessions]
    /\ \A g \in Generations : batch[g] # "ABSENT" => previous[g] \in Products
    /\ \A g \in Generations : batch[g] = "COMMITTED" => Accounted(g)
    /\ Counted(origin) /\ Counted(checkout) /\ Counted(worker)
    /\ \A g \in Generations : Counted(staged[g])

\* What a process knows and may do.
Sound(p) ==
    /\ session[p].phase # "idle" =>
         /\ session[p].gen \in Generations
         /\ batch[session[p].gen] # "ABSENT"
         /\ session[p].snap = previous[session[p].gen]
         /\ session[p].snap \in Products
         /\ p \in Rollbackers => Accounted(session[p].gen)
         /\ p \in Deliverers => /\ session[p].token \in Capabilities
                                /\ Attests[session[p].token] = session[p].gen
    /\ session[p].phase = "recording" =>
         /\ session[p].verdict \in {"COMMITTED"} \cup Terminal
         /\ session[p].verdict = "COMMITTED" => Accounted(session[p].gen)
    /\ Counted(session[p].static)
    /\ p \in Rollbackers =>
         /\ session[p].why \notin {"entry", "guard"}
         /\ session[p].phase \notin {"loading", "consuming"}
    /\ p \in Deliverers =>
         /\ session[p].why # "ordered"
         /\ session[p].phase = "consuming" => session[p].why = "guard"
         /\ session[p].why = "guard" \/ Paid(p) => session[p].snap = Source[session[p].gen]
         /\ Paid(p) => session[p].token \in consumed

Exclusive ==
    \A p, q \in Deliverers :
        Paid(p) /\ Paid(q) /\ session[p].token = session[q].token => p = q

IInv == StoresSound /\ (\A p \in Processes : Sound(p)) /\ Exclusive

\* What no step undoes.
Stable ==
    /\ \A g \in Generations : batch[g] # "ABSENT" =>
         batch'[g] # "ABSENT" /\ previous'[g] = previous[g]
    /\ consumed \subseteq consumed'

-----------------------------------------------------------------------------

LEMMA AccountedStays ==
    ASSUME Stable, NEW g \in Generations, Accounted(g)
    PROVE  Accounted(g)'
BY DEF Stable, Accounted

LEMMA CountedStays ==
    ASSUME Stable, NEW product, Counted(product)
    PROVE  /\ product \in Generations => Accounted(product)'
           /\ Counted(product)'
BY AccountedStays DEF Counted

\* A process that does not move stays sound.
LEMMA Others ==
    ASSUME Stable, NEW p \in Processes, Sound(p), session'[p] = session[p]
    PROVE  Sound(p)'
<1>1. Counted(session[p].static)'
  BY CountedStays DEF Sound, Counted
<1>2. session[p].gen \in Generations /\ Accounted(session[p].gen) => Accounted(session[p].gen)'
  BY AccountedStays
<1>3. Paid(p)' <=> Paid(p)
  BY DEF Paid
<1>. QED BY <1>1, <1>2, <1>3 DEF Sound, Stable, Accounted, Sessions

\* Idle processes know nothing.
LEMMA IdleSound ==
    ASSUME NEW p \in Processes, session[p] = Idle
    PROVE  Sound(p)
BY DeliveryAssumptions DEF DeliveryAssumptions, Sound, Idle, Sessions, Paid, Paying,
   Restoring, Phases, Questions, Counted, Products, Processes

\* The restored product never is a generation.
LEMMA SourceOrdinary ==
    ASSUME NEW g \in Generations
    PROVE  Source[g] \in Products /\ Source[g] \notin Generations
BY DeliveryAssumptions DEF DeliveryAssumptions, Products

-----------------------------------------------------------------------------
(* The steps of one process *)

\* Only p moves.
Alone(p) ==
    /\ session' \in [Processes -> Sessions]
    /\ \A q \in Processes : q # p => session'[q] = session[q]

\* A step of p after which p is sound, and has not become a payer.
LEMMA Mover ==
    ASSUME IInv, NEW p \in Processes, Stable, Alone(p), StoresSound', Sound(p)',
           Paid(p)' => Paid(p) /\ session'[p].token = session[p].token
    PROVE  IInv'
<1>1. \A q \in Processes : Sound(q)'
  <2>. TAKE q \in Processes
  <2>1. CASE q = p
    BY <2>1
  <2>2. CASE q # p
    BY <2>2, Others DEF IInv, Alone
  <2>. QED BY <2>1, <2>2
<1>2. Exclusive'
  <2>1. \A q \in Deliverers : Paid(q)' => Paid(q) /\ session'[q].token = session[q].token
    BY DEF Alone, Paid, Processes
  <2>. QED BY <2>1 DEF IInv, Exclusive
<1>. QED BY <1>1, <1>2 DEF IInv

\* The two questions only a deliverer that has paid can ask, and the others.
Asks(p, phase, why) ==
    /\ p \in Rollbackers => why \notin {"entry", "guard"} /\ phase \notin {"loading", "consuming"}
    /\ p \in Deliverers =>
         /\ why # "ordered"
         /\ phase = "consuming" => why = "guard"
         /\ why = "guard" => session[p].snap = Source[session[p].gen]
         /\ \/ phase \in Paying \cup Restoring
            \/ why \in {"delivered", "undone", "required", "restored"}
            => Paid(p)

\* A process that goes on to another phase and question.
LEMMA Turned ==
    ASSUME IInv, NEW p \in Processes, Stable, StoresSound',
           session[p].phase # "idle",
           NEW phase \in Phases \ {"idle", "recording"}, NEW why,
           Turns(p, phase, why), Asks(p, phase, why)
    PROVE  IInv'
<1>1. /\ session'[p] = [session[p] EXCEPT !.phase = phase, !.why = why]
      /\ session[p] \in Sessions
  BY DEF Turns, IInv, StoresSound
<1>2. /\ session'[p].phase = phase
      /\ session'[p].why = why
      /\ session'[p].gen = session[p].gen
      /\ session'[p].snap = session[p].snap
      /\ session'[p].token = session[p].token
      /\ session'[p].static = session[p].static
  BY <1>1 DEF Sessions
<1>3. Alone(p)
  BY DEF Alone, Turns, IInv, StoresSound
<1>4. Paid(p)' => Paid(p)
  BY <1>2 DEF Paid, Asks
<1>5. Sound(p)
  BY DEF IInv
<1>6. Counted(session[p].static)'
  BY <1>2, <1>5, CountedStays DEF Sound, Counted
<1>7. session[p].gen \in Generations /\ batch[session[p].gen] # "ABSENT"
  BY <1>5 DEF Sound
<1>8. Accounted(session[p].gen) => Accounted(session[p].gen)'
  BY <1>2, <1>7, AccountedStays DEF Accounted
<1>9. Sound(p)'
  BY <1>2, <1>4, <1>5, <1>6, <1>7, <1>8 DEF Sound, Asks, Stable
<1>. QED BY <1>2, <1>3, <1>4, <1>9, Mover

LEMMA Gone ==
    ASSUME IInv, NEW p \in Processes, Stable, StoresSound',
           session[p].phase # "idle",
           NEW phase \in Phases \ {"idle", "recording"},
           Goes(p, phase), Asks(p, phase, session[p].why)
    PROVE  IInv'
<1>1. Turns(p, phase, session[p].why)
  BY DEF Goes, Turns, IInv, StoresSound, Sessions
<1>. QED BY <1>1, Turned

\* A process that has a verdict.
LEMMA Recorded ==
    ASSUME IInv, NEW p \in Processes, Stable, StoresSound',
           session[p].phase # "idle",
           NEW verdict \in {"COMMITTED"} \cup Terminal,
           verdict = "COMMITTED" => Accounted(session[p].gen),
           Records(p, verdict)
    PROVE  IInv'
<1>1. /\ session'[p] = [session[p] EXCEPT !.phase = "recording", !.verdict = verdict]
      /\ session[p] \in Sessions
  BY DEF Records, IInv, StoresSound
<1>2. /\ session'[p].phase = "recording"
      /\ session'[p].verdict = verdict
      /\ session'[p].why = session[p].why
      /\ session'[p].gen = session[p].gen
      /\ session'[p].snap = session[p].snap
      /\ session'[p].token = session[p].token
      /\ session'[p].static = session[p].static
  BY <1>1 DEF Sessions
<1>3. Alone(p)
  BY DEF Alone, Records, IInv, StoresSound
<1>4. Paid(p)' => Paid(p)
  BY <1>2 DEF Paid, Paying, Restoring
<1>5. Sound(p)
  BY DEF IInv
<1>6. Counted(session[p].static)'
  BY <1>2, <1>5, CountedStays DEF Sound, Counted
<1>7. session[p].gen \in Generations /\ batch[session[p].gen] # "ABSENT"
  BY <1>5 DEF Sound
<1>8. Accounted(session[p].gen) => Accounted(session[p].gen)'
  BY <1>2, <1>7, AccountedStays DEF Accounted
<1>9. Sound(p)'
  BY <1>2, <1>4, <1>5, <1>6, <1>7, <1>8 DEF Sound, Stable
<1>. QED BY <1>2, <1>3, <1>4, <1>9, Mover

LEMMA Ended ==
    ASSUME IInv, NEW p \in Processes, Stable, StoresSound', Ends(p)
    PROVE  IInv'
<1>1. session'[p] = Idle
  BY DEF Ends, IInv, StoresSound
<1>2. Alone(p)
  BY DEF Alone, Ends, IInv, StoresSound
<1>3. ~Paid(p)'
  BY <1>1 DEF Paid, Idle, Paying, Restoring
<1>4. Sound(p)'
  BY <1>1, <1>3, DeliveryAssumptions
  DEF DeliveryAssumptions, Sound, Idle, Counted, Products
<1>. QED BY <1>2, <1>3, <1>4, Mover

-----------------------------------------------------------------------------
(* Steps that leave the stores alone *)

\* Whatever product is put where, it has to be accounted for.
LEMMA TargetsWritten ==
    ASSUME StoresSound, UNCHANGED <<store, tokens>>,
           session' \in [Processes -> Sessions], drift' \in Nat,
           {checkout', origin', worker'} \subseteq Products,
           publisher' \in {"aligned", "stuck"},
           staged' \in [Generations -> Products \cup {None}],
           Counted(checkout'), Counted(origin'), Counted(worker'),
           \A g \in Generations : Counted(staged'[g])
    PROVE  Stable /\ StoresSound'
BY DEF StoresSound, Stable, Counted, Accounted, store, tokens

LEMMA NothingWritten ==
    ASSUME StoresSound, UNCHANGED <<store, tokens, targets, drift>>,
           session' \in [Processes -> Sessions]
    PROVE  Stable /\ StoresSound'
BY TargetsWritten DEF StoresSound, targets

\* The session stays one whatever a step does to it.
LEMMA StillSessions ==
    ASSUME IInv, NEW p \in Processes, NEW phase \in Phases, NEW why \in Questions,
           NEW verdict \in States
    PROVE  /\ Goes(p, phase) => session' \in [Processes -> Sessions]
           /\ Turns(p, phase, why) => session' \in [Processes -> Sessions]
           /\ Records(p, verdict) => session' \in [Processes -> Sessions]
           /\ Ends(p) => session' \in [Processes -> Sessions]
<1>1. session \in [Processes -> Sessions]
  BY DEF IInv, StoresSound
<1>2. /\ [session[p] EXCEPT !.phase = phase] \in Sessions
      /\ [session[p] EXCEPT !.phase = phase, !.why = why] \in Sessions
      /\ [session[p] EXCEPT !.phase = "recording", !.verdict = verdict] \in Sessions
      /\ Idle \in Sessions
  BY <1>1 DEF Sessions, Phases, Idle
<1>. QED BY <1>1, <1>2 DEF Goes, Turns, Records, Ends

\* What a process that writes may write.
LEMMA Writer ==
    ASSUME IInv, NEW p \in Processes, session[p].phase # "idle",
           Paid(p) \/ p \in Rollbackers
    PROVE  /\ session[p].gen \in Generations
           /\ session[p].snap \in Products
           /\ Counted(session[p].gen)
           /\ Counted(session[p].snap)
<1>1. Sound(p) /\ StoresSound
  BY DEF IInv
<1>2. session[p].gen \in Generations /\ session[p].snap \in Products
  BY <1>1 DEF Sound
<1>3. CASE Paid(p)
  <2>1. Accounted(session[p].gen)
    BY <1>1, <1>3 DEF Sound, Paid, Accounted
  <2>. QED BY <1>1, <1>2, <1>3, <2>1, SourceOrdinary DEF Sound, Counted, Paid
<1>4. CASE p \in Rollbackers
  BY <1>1, <1>2, <1>4, SourceOrdinary DEF Sound, Counted, Accounted
<1>. QED BY <1>3, <1>4

-----------------------------------------------------------------------------
(* Reading *)

LEMMA LoadStep ==
    ASSUME IInv, NEW p \in Processes, Load(p)
    PROVE  IInv'
<1>1. session[p].phase = "loading" /\ p \in Deliverers
  BY DEF Load, In, IInv, Sound, Processes
<1>2. Stable /\ StoresSound'
  BY NothingWritten, StillSessions DEF Load, Looks, IInv, Phases, Questions, States
<1>3. CASE Looks(p, "entry")
  BY <1>1, <1>2, <1>3, Turned, DeliveryAssumptions
  DEF Looks, Phases, Asks, Paying, Restoring, DeliveryAssumptions
<1>4. CASE Ends(p)
  BY <1>2, <1>4, Ended
<1>. QED BY <1>3, <1>4 DEF Load

LEMMA ReadStaticStep ==
    ASSUME IInv, NEW p \in Processes, ReadStatic(p)
    PROVE  IInv'
<1>1. /\ session \in [Processes -> Sessions]
      /\ session[p].phase = "reading"
      /\ session' = [session EXCEPT ![p] = [@ EXCEPT !.phase = "comparing", !.static = checkout]]
      /\ checkout \in Products
  BY DEF ReadStatic, In, IInv, StoresSound
<1>2. [session[p] EXCEPT !.phase = "comparing", !.static = checkout] \in Sessions
  BY <1>1 DEF Sessions, Phases
<1>3. Alone(p)
  BY <1>1, <1>2 DEF Alone
<1>4. Stable /\ StoresSound'
  BY <1>3, NothingWritten DEF ReadStatic, IInv, Alone
<1>5. /\ session'[p].phase = "comparing"
      /\ session'[p].static = checkout
      /\ session'[p].why = session[p].why
      /\ session'[p].gen = session[p].gen
      /\ session'[p].snap = session[p].snap
      /\ session'[p].token = session[p].token
  BY <1>1 DEF Sessions
<1>6. Paid(p)' => Paid(p)
  BY <1>5 DEF Paid, Paying, Restoring
<1>7. Counted(checkout)'
  BY <1>4 DEF StoresSound
<1>8. Counted(session[p].static)'
  BY <1>5, <1>7 DEF Counted, ReadStatic, targets
<1>9. Sound(p)'
  BY <1>1, <1>4, <1>5, <1>6, <1>8, AccountedStays DEF Sound, IInv, Accounted, Stable
<1>. QED BY <1>3, <1>4, <1>5, <1>6, <1>9, Mover

LEMMA ReadFailsStep ==
    ASSUME IInv, NEW p \in Processes, ReadFails(p)
    PROVE  IInv'
<1>1. session[p].phase \in {"reading", "comparing"}
  BY DEF ReadFails
<1>2. \/ session[p].why = "guard" /\ Looks(p, "refused")
      \/ Records(p, "FAILED")
      \/ Ends(p)
  BY DEF ReadFails
<1>3. Stable /\ StoresSound'
  BY <1>2, NothingWritten, StillSessions
  DEF ReadFails, Looks, IInv, Phases, Questions, States, Terminal
<1>4. CASE Looks(p, "refused")
  BY <1>1, <1>3, <1>4, Turned DEF Looks, Phases, Asks, Paying, Restoring
<1>5. CASE Records(p, "FAILED")
  BY <1>1, <1>3, <1>5, Recorded DEF Terminal
<1>6. CASE Ends(p)
  BY <1>3, <1>6, Ended
<1>. QED BY <1>2, <1>4, <1>5, <1>6

\* The answers of both targets: a generation they agree on is accounted for, and
\* what follows is a question, a verdict or a restoration.
LEMMA ReadWorkerStep ==
    ASSUME IInv, NEW p \in Processes, ReadWorker(p)
    PROVE  IInv'
<1> DEFINE g == session[p].gen
           s == session[p].snap
           why == session[p].why
<1>1. /\ session[p].phase = "comparing"
      /\ Sound(p)
      /\ g \in Generations
      /\ why \in Questions \cup {"none"}
  BY DEF ReadWorker, In, IInv, Sound, StoresSound, Sessions
<1>2. Answered(p, g) => Accounted(g)
  BY <1>1 DEF Answered, Sound, Counted
<1>3. \/ Answered(p, g) /\ Records(p, "COMMITTED")
      \/ Records(p, "FAILED")
      \/ Records(p, "ROLLED_BACK")
      \/ why = "entry" /\ s = Source[g] /\ Looks(p, "guard")
      \/ why \in {"entry", "guard"} /\ Looks(p, "refused")
      \/ why = "guard" /\ Goes(p, "consuming")
      \/ why \in {"delivered", "ordered"} /\ Goes(p, "restaging")
      \/ Ends(p)
  BY DEF ReadWorker, Concluded, Interrupted
<1>4. Stable /\ StoresSound'
  BY <1>3, NothingWritten, StillSessions
  DEF ReadWorker, Looks, IInv, Phases, Restoring, Questions, States, Terminal
<1>5. CASE Answered(p, g) /\ Records(p, "COMMITTED")
  BY <1>1, <1>2, <1>4, <1>5, Recorded
<1>6. CASE Records(p, "FAILED")
  BY <1>1, <1>4, <1>6, Recorded DEF Terminal
<1>7. CASE Records(p, "ROLLED_BACK")
  BY <1>1, <1>4, <1>7, Recorded DEF Terminal
<1>8. CASE why = "entry" /\ s = Source[g] /\ Looks(p, "guard")
  <2>1. Asks(p, "reading", "guard")
    BY <1>1, <1>8 DEF Asks, Sound, Paying, Restoring
  <2>. QED BY <1>1, <1>4, <1>8, <2>1, Turned DEF Looks, Phases
<1>9. CASE why \in {"entry", "guard"} /\ Looks(p, "refused")
  <2>1. Asks(p, "reading", "refused")
    BY DEF Asks, Paying, Restoring
  <2>. QED BY <1>1, <1>4, <1>9, <2>1, Turned DEF Looks, Phases
<1>10. CASE why = "guard" /\ Goes(p, "consuming")
  <2>1. Asks(p, "consuming", why)
    BY <1>1, <1>10 DEF Asks, Sound, Paying, Restoring
  <2>. QED BY <1>1, <1>4, <1>10, <2>1, Gone DEF Phases
<1>11. CASE why \in {"delivered", "ordered"} /\ Goes(p, "restaging")
  <2>1. Asks(p, "restaging", why)
    BY <1>1, <1>11 DEF Asks, Sound, Paid
  <2>. QED BY <1>1, <1>4, <1>11, <2>1, Gone DEF Phases, Restoring
<1>12. CASE Ends(p)
  BY <1>4, <1>12, Ended
<1>. QED BY <1>3, <1>5, <1>6, <1>7, <1>8, <1>9, <1>10, <1>11, <1>12

-----------------------------------------------------------------------------
(* The batch record and the capability *)

LEMMA PrepareStep ==
    ASSUME IInv, NEW p \in Deliverers, NEW s \in Products, NEW k \in Capabilities,
           Prepare(p, s, k)
    PROVE  IInv'
<1> DEFINE g == Attests[k]
           new == [Idle EXCEPT !.phase = "loading", !.gen = g, !.snap = s, !.token = k]
<1>1. g \in Generations /\ p \in Processes /\ p \notin Rollbackers
  BY DeliveryAssumptions DEF DeliveryAssumptions, Processes
<1>2. /\ batch' = [batch EXCEPT ![g] = IF @ = "ABSENT" THEN "PREPARING" ELSE @]
      /\ previous' = [previous EXCEPT ![g] = s]
      /\ session' = [session EXCEPT ![p] = new]
      /\ batch[g] = "ABSENT" \/ previous[g] = s
      /\ batch[g] # "COMMITTED"
      /\ UNCHANGED <<tokens, targets, drift>>
  BY DEF Prepare
<1>3. StoresSound
  BY DEF IInv
<1>4. Stable
  BY <1>1, <1>2, <1>3 DEF Stable, StoresSound, tokens
<1>5. new \in Sessions
  BY <1>1 DEF Idle, Sessions, Phases
<1>6. /\ new.phase = "loading" /\ new.gen = g /\ new.snap = s /\ new.token = k
      /\ new.why = "none" /\ new.static = None
  BY DEF Idle
<1>7. session'[p] = new /\ Alone(p)
  BY <1>1, <1>2, <1>3, <1>5 DEF Alone, StoresSound
<1>8. ~Paid(p)'
  BY <1>6, <1>7 DEF Paid, Paying, Restoring
<1>9. StoresSound'
  <2>1. /\ batch' \in [Generations -> States]
        /\ previous' \in [Generations -> Products \cup {None}]
        /\ \A h \in Generations : batch'[h] # "ABSENT" => previous'[h] \in Products
        /\ \A h \in Generations : batch'[h] = "COMMITTED" => batch[h] = "COMMITTED"
    BY <1>1, <1>2, <1>3 DEF StoresSound, States
  <2>2. \A h \in Generations : (batch[h] = "COMMITTED" => Accounted(h)')
    BY <1>3, <1>4, AccountedStays DEF StoresSound
  <2>3. Counted(origin)' /\ Counted(checkout)' /\ Counted(worker)'
    BY <1>2, <1>3, <1>4, CountedStays DEF StoresSound, targets, Counted
  <2>4. \A h \in Generations : Counted(staged[h])'
    BY <1>2, <1>3, <1>4, CountedStays DEF StoresSound, targets, Counted
  <2>. QED BY <1>2, <1>3, <1>7, <2>1, <2>2, <2>3, <2>4
           DEF StoresSound, Alone, tokens, targets
<1>10. Sound(p)'
  <2>1. batch'[g] # "ABSENT" /\ previous'[g] = s
    BY <1>1, <1>2, <1>3 DEF StoresSound
  <2>2. None \notin Generations
    BY DeliveryAssumptions DEF DeliveryAssumptions, Products
  <2>. QED BY <1>1, <1>6, <1>7, <1>8, <2>1, <2>2 DEF Sound, Counted
<1>. QED BY <1>1, <1>4, <1>7, <1>8, <1>9, <1>10, Mover

LEMMA CommandStep ==
    ASSUME IInv, NEW p \in Rollbackers, NEW g \in Generations, Command(p, g)
    PROVE  IInv'
<1> DEFINE new == [Idle EXCEPT !.phase = "reading", !.gen = g, !.snap = previous[g],
                               !.why = "ordered"]
<1>1. /\ p \in Processes /\ p \notin Deliverers
      /\ session' = [session EXCEPT ![p] = new]
      /\ batch[g] = "COMMITTED"
      /\ UNCHANGED <<store, tokens, targets, drift>>
      /\ StoresSound
  BY DeliveryAssumptions DEF DeliveryAssumptions, Processes, Command, IInv
<1>2. previous[g] \in Products /\ Accounted(g)
  BY <1>1 DEF StoresSound
<1>3. new \in Sessions
  BY <1>2 DEF Idle, Sessions, Phases, Questions
<1>4. /\ new.phase = "reading" /\ new.gen = g /\ new.snap = previous[g]
      /\ new.why = "ordered" /\ new.static = None
  BY DEF Idle
<1>5. session'[p] = new /\ Alone(p)
  BY <1>1, <1>3 DEF Alone, StoresSound
<1>6. Stable /\ StoresSound'
  BY <1>1, <1>5, NothingWritten DEF Alone
<1>7. Sound(p)'
  <2>1. batch'[g] # "ABSENT" /\ previous'[g] = previous[g] /\ Accounted(g)'
    BY <1>1, <1>2, <1>6, AccountedStays DEF Stable
  <2>2. None \notin Generations
    BY DeliveryAssumptions DEF DeliveryAssumptions, Products
  <2>. QED BY <1>1, <1>2, <1>4, <1>5, <2>1, <2>2 DEF Sound, Counted, Accounted
<1>8. ~Paid(p)'
  BY <1>1 DEF Paid
<1>. QED BY <1>1, <1>5, <1>6, <1>7, <1>8, Mover

LEMMA TransitionStep ==
    ASSUME IInv, NEW p \in Processes, Transition(p)
    PROVE  IInv'
<1> DEFINE g == session[p].gen
           verdict == session[p].verdict
<1>1. /\ StoresSound
      /\ g \in Generations
      /\ batch[g] # "ABSENT"
      /\ verdict \in {"COMMITTED"} \cup Terminal
      /\ verdict = "COMMITTED" => Accounted(g)
      /\ batch' = [batch EXCEPT ![g] = IF verdict \in Allowed(@) THEN verdict ELSE @]
      /\ Ends(p)
      /\ UNCHANGED <<previous, tokens, targets, drift>>
  BY DEF Transition, In, IInv, Sound
<1>2. Stable
  BY <1>1 DEF Stable, StoresSound, Terminal, tokens
<1>3. session' \in [Processes -> Sessions]
  BY StillSessions DEF Ends, Idle, Sessions, IInv, StoresSound, Phases, Transition
<1>4. StoresSound'
  <2>1. /\ batch' \in [Generations -> States]
        /\ \A h \in Generations : batch'[h] = "COMMITTED" =>
             batch[h] = "COMMITTED" \/ Accounted(h)
    BY <1>1 DEF StoresSound, States, Terminal
  <2>2. \A h \in Generations : batch'[h] = "COMMITTED" => Accounted(h)'
    BY <1>1, <1>2, <2>1, AccountedStays DEF StoresSound
  <2>3. \A h \in Generations : batch'[h] # "ABSENT" => previous'[h] \in Products
    BY <1>1 DEF StoresSound
  <2>4. Counted(origin)' /\ Counted(checkout)' /\ Counted(worker)'
    BY <1>1, <1>2, CountedStays DEF StoresSound, targets, Counted
  <2>5. \A h \in Generations : Counted(staged[h])'
    BY <1>1, <1>2, CountedStays DEF StoresSound, targets, Counted
  <2>. QED BY <1>1, <1>3, <2>1, <2>2, <2>3, <2>4, <2>5 DEF StoresSound, tokens, targets
<1>. QED BY <1>1, <1>2, <1>4, Ended

\* Nobody's session moves.
LEMMA NobodyMoves ==
    ASSUME IInv, Stable, StoresSound', UNCHANGED session
    PROVE  IInv'
<1>1. \A p \in Processes : Sound(p)'
  BY Others DEF IInv
<1>2. Exclusive'
  BY DEF IInv, Exclusive, Paid
<1>. QED BY <1>1, <1>2 DEF IInv

LEMMA IssueStep ==
    ASSUME IInv, NEW k \in Capabilities, Issue(k)
    PROVE  IInv'
<1>1. Stable /\ StoresSound'
  BY DEF Issue, IInv, StoresSound, Stable, Counted, Accounted, store, targets
<1>. QED BY <1>1, NobodyMoves DEF Issue

\* The one step by which a deliverer comes to pay.  Whoever paid before did so
\* with a token that is consumed, and this one is not.
LEMMA ConsumeStep ==
    ASSUME IInv, NEW p \in Processes, Consume(p)
    PROVE  IInv'
<1> DEFINE k == session[p].token
<1>1. /\ StoresSound /\ Sound(p)
      /\ session[p].phase = "consuming"
      /\ UNCHANGED <<store, capability, targets, drift>>
  BY DEF IInv, Consume, In
<1>2. p \in Deliverers /\ p \notin Rollbackers /\ k \in Capabilities
  BY <1>1, DeliveryAssumptions DEF DeliveryAssumptions, Processes, Sound
<1>3. CASE Usable(k) /\ consumed' = consumed \cup {k} /\ Goes(p, "staging")
  <2>1. Stable
    BY <1>1, <1>3 DEF Stable, store
  <2>2. session' \in [Processes -> Sessions]
    BY <1>3, StillSessions DEF Phases, Paying, Questions, States
  <2>3. StoresSound'
    BY <1>1, <1>2, <1>3, <2>2 DEF StoresSound, Counted, Accounted, store, targets
  <2>4. Alone(p)
    BY <1>3, <2>2 DEF Alone, Goes, IInv, StoresSound
  <2>5. /\ session'[p].phase = "staging"
        /\ session'[p].why = "guard"
        /\ session'[p].gen = session[p].gen
        /\ session'[p].snap = session[p].snap
        /\ session'[p].token = k
        /\ session'[p].static = session[p].static
    BY <1>1, <1>2, <1>3 DEF Goes, StoresSound, Sessions, Sound
  <2>6. Sound(p)'
    <3>1. Counted(session[p].static)'
      BY <1>1, <2>1, <2>5, CountedStays DEF Sound, Counted
    <3>. QED BY <1>1, <1>2, <1>3, <2>1, <2>5, <3>1 DEF Sound, Stable
  <2>7. \A q \in Processes : Sound(q)'
    BY <2>1, <2>4, <2>6, Others DEF IInv, Alone
  <2>8. \A q \in Deliverers : q # p => (Paid(q)' => Paid(q)) /\ session'[q] = session[q]
    BY <2>4 DEF Alone, Paid, Processes
  <2>9. \A q \in Deliverers : q # p /\ Paid(q) => session[q].token # k
    BY <1>3 DEF IInv, Sound, Processes, Usable
  <2>10. Exclusive'
    BY <2>5, <2>8, <2>9 DEF IInv, Exclusive
  <2>. QED BY <2>3, <2>7, <2>10 DEF IInv
<1>4. CASE Looks(p, "refused") /\ UNCHANGED consumed
  <2>1. Stable /\ StoresSound'
    BY <1>1, <1>4, NothingWritten, StillSessions
    DEF Looks, Phases, Questions, States, tokens
  <2>2. Asks(p, "reading", "refused")
    BY DEF Asks, Paying, Restoring
  <2>. QED BY <1>1, <1>4, <2>1, <2>2, Turned DEF Looks, Phases
<1>. QED BY <1>3, <1>4 DEF Consume

-----------------------------------------------------------------------------
(* The executor and the restoration *)

LEMMA StageStep ==
    ASSUME IInv, NEW p \in Processes, Stage(p)
    PROVE  IInv'
<1> DEFINE g == session[p].gen
<1>1. /\ session[p].phase = "staging"
      /\ Paid(p) \/ p \in Rollbackers
      /\ StoresSound
      /\ UNCHANGED <<store, tokens, checkout, origin, publisher, worker, drift>>
      /\ \/ Goes(p, "writing")
         \/ Looks(p, "undone")
         \/ Records(p, "FAILED")
      /\ staged' \in {staged, [staged EXCEPT ![g] = g], [staged EXCEPT ![g] = None]}
  BY DEF Stage, In, IInv, Paid, Paying, Processes
<1>2. g \in Generations /\ Counted(g) /\ Counted(None)
  BY <1>1, Writer, DeliveryAssumptions DEF DeliveryAssumptions, Counted, Products
<1>3. session' \in [Processes -> Sessions]
  BY <1>1, StillSessions DEF Looks, Phases, Paying, Questions, States, Terminal
<1>4. /\ staged' \in [Generations -> Products \cup {None}]
      /\ \A h \in Generations : Counted(staged'[h])
  BY <1>1, <1>2 DEF StoresSound, Products
<1>5. Stable /\ StoresSound'
  BY <1>1, <1>3, <1>4, TargetsWritten DEF StoresSound
<1>6. CASE Goes(p, "writing")
  BY <1>1, <1>5, <1>6, Gone DEF Phases, Paying, Asks, IInv, Sound, Paid
<1>7. CASE Looks(p, "undone")
  BY <1>1, <1>5, <1>7, Turned DEF Looks, Phases, Paying, Asks, Paid
<1>8. CASE Records(p, "FAILED")
  BY <1>1, <1>5, <1>8, Recorded DEF Terminal
<1>. QED BY <1>1, <1>6, <1>7, <1>8

LEMMA WriteStep ==
    ASSUME IInv, NEW p \in Processes, Write(p)
    PROVE  IInv'
<1>1. /\ session[p].phase = "writing"
      /\ Paid(p) \/ p \in Rollbackers
      /\ StoresSound
      /\ UNCHANGED <<store, tokens, checkout, origin, publisher, staged, drift>>
      /\ Goes(p, "committing") \/ Turns(p, "unwriting", "undone")
      /\ worker' \in {worker, session[p].gen}
  BY DEF Write, In, IInv, Paid, Paying, Processes
<1>2. session' \in [Processes -> Sessions]
  BY <1>1, StillSessions DEF Phases, Paying, Questions, States
<1>3. worker' \in Products /\ Counted(worker')
  BY <1>1, Writer DEF StoresSound, Products
<1>4. Stable /\ StoresSound'
  BY <1>1, <1>2, <1>3, TargetsWritten DEF StoresSound
<1>5. CASE Goes(p, "committing")
  BY <1>1, <1>4, <1>5, Gone DEF Phases, Paying, Asks, IInv, Sound, Paid
<1>6. CASE Turns(p, "unwriting", "undone")
  BY <1>1, <1>4, <1>6, Turned DEF Phases, Paying, Asks, Paid
<1>. QED BY <1>1, <1>5, <1>6

\* What the publisher pushes was staged.
LEMMA Pushed ==
    ASSUME StoresSound, NEW g \in Generations, Published(g) \/ NotPublished(g)
    PROVE  /\ origin' \in Products /\ Counted(origin')
           /\ publisher' \in {"aligned", "stuck"}
BY DEF StoresSound, Published, NotPublished

LEMMA CommitStep ==
    ASSUME IInv, NEW p \in Processes, Commit(p)
    PROVE  IInv'
<1>1. /\ session[p].phase = "committing"
      /\ Paid(p) \/ p \in Rollbackers
      /\ StoresSound
      /\ UNCHANGED <<store, tokens, checkout, worker, staged, drift>>
      /\ Looks(p, "delivered") \/ Turns(p, "unwriting", "required")
      /\ Published(session[p].gen) \/ NotPublished(session[p].gen)
  BY DEF Commit, In, IInv, Paid, Paying, Processes
<1>2. session' \in [Processes -> Sessions]
  BY <1>1, StillSessions DEF Looks, Phases, Paying, Questions, States
<1>3. /\ origin' \in Products /\ Counted(origin')
      /\ publisher' \in {"aligned", "stuck"}
  BY <1>1, Writer, Pushed
<1>4. Stable /\ StoresSound'
  BY <1>1, <1>2, <1>3, TargetsWritten DEF StoresSound
<1>5. CASE Looks(p, "delivered")
  BY <1>1, <1>4, <1>5, Turned DEF Looks, Phases, Paying, Asks, Paid
<1>6. CASE Turns(p, "unwriting", "required")
  BY <1>1, <1>4, <1>6, Turned DEF Phases, Paying, Asks, Paid
<1>. QED BY <1>1, <1>5, <1>6

LEMMA UnwriteStep ==
    ASSUME IInv, NEW p \in Processes, Unwrite(p)
    PROVE  IInv'
<1>1. /\ session[p].phase = "unwriting"
      /\ Paid(p) \/ p \in Rollbackers
      /\ StoresSound
      /\ UNCHANGED <<store, tokens, checkout, origin, publisher, staged, drift>>
      /\ Goes(p, "unstaging") \/ Turns(p, "unstaging", "required")
      /\ worker' \in {worker, session[p].snap}
  BY DEF Unwrite, In, IInv, Paid, Paying, Processes
<1>2. session' \in [Processes -> Sessions]
  BY <1>1, StillSessions DEF Phases, Paying, Questions, States
<1>3. worker' \in Products /\ Counted(worker')
  BY <1>1, Writer DEF StoresSound
<1>4. Stable /\ StoresSound'
  BY <1>1, <1>2, <1>3, TargetsWritten DEF StoresSound
<1>5. CASE Goes(p, "unstaging")
  BY <1>1, <1>4, <1>5, Gone DEF Phases, Paying, Asks, IInv, Sound, Paid
<1>6. CASE Turns(p, "unstaging", "required")
  BY <1>1, <1>4, <1>6, Turned DEF Phases, Paying, Asks, Paid
<1>. QED BY <1>1, <1>5, <1>6

LEMMA UnstageStep ==
    ASSUME IInv, NEW p \in Processes, Unstage(p)
    PROVE  IInv'
<1>1. /\ session[p].phase = "unstaging"
      /\ Paid(p) \/ p \in Rollbackers
      /\ StoresSound
      /\ UNCHANGED <<store, tokens, checkout, origin, publisher, worker, drift>>
      /\ Looks(p, "undone") \/ Records(p, "FAILED")
      /\ staged' \in {staged, [staged EXCEPT ![session[p].gen] = None]}
  BY DEF Unstage, In, IInv, Paid, Paying, Processes
<1>2. session' \in [Processes -> Sessions]
  BY <1>1, StillSessions DEF Looks, Phases, Paying, Questions, States, Terminal
<1>3. /\ staged' \in [Generations -> Products \cup {None}]
      /\ \A h \in Generations : Counted(staged'[h])
  BY <1>1, DeliveryAssumptions DEF DeliveryAssumptions, StoresSound, Products, Counted
<1>4. Stable /\ StoresSound'
  BY <1>1, <1>2, <1>3, TargetsWritten DEF StoresSound
<1>5. CASE Looks(p, "undone")
  BY <1>1, <1>4, <1>5, Turned DEF Looks, Phases, Paying, Asks, Paid
<1>6. CASE Records(p, "FAILED")
  BY <1>1, <1>4, <1>6, Recorded DEF Terminal
<1>. QED BY <1>1, <1>5, <1>6

\* Whoever restores goes on, reads the targets again, or gives up.
LEMMA Onward ==
    ASSUME IInv, NEW p \in Processes, Stable, StoresSound',
           session[p].phase \in Restoring,
           \/ \E phase \in Restoring : Goes(p, phase)
           \/ Looks(p, "restored")
           \/ Gives(p)
    PROVE  IInv'
<1>1. /\ session[p].phase # "idle"
      /\ p \in Deliverers => Paid(p)
      /\ Sound(p)
  BY DEF Restoring, Paid, IInv
<1>2. CASE \E phase \in Restoring : Goes(p, phase)
  <2>1. PICK phase \in Restoring : Goes(p, phase)
    BY <1>2
  <2>2. Asks(p, phase, session[p].why)
    BY <1>1 DEF Asks, Sound, Restoring
  <2>. QED BY <1>1, <2>1, <2>2, Gone DEF Phases, Restoring
<1>3. CASE Looks(p, "restored")
  <2>1. Asks(p, "reading", "restored")
    BY <1>1 DEF Asks
  <2>. QED BY <1>1, <1>3, <2>1, Turned DEF Looks, Phases
<1>4. CASE Records(p, "FAILED")
  BY <1>1, <1>4, Recorded DEF Terminal
<1>. QED BY <1>2, <1>3, <1>4 DEF Gives

LEMMA RestorationSessions ==
    ASSUME IInv, NEW p \in Processes,
           \/ \E phase \in Restoring : Goes(p, phase)
           \/ Looks(p, "restored")
           \/ Gives(p)
    PROVE  session' \in [Processes -> Sessions]
BY StillSessions DEF Gives, Looks, Phases, Restoring, Questions, States, Terminal

LEMMA RestageStep ==
    ASSUME IInv, NEW p \in Processes, Restage(p)
    PROVE  IInv'
<1> DEFINE g == session[p].gen
<1>1. /\ session[p].phase \in Restoring
      /\ session[p].phase # "idle"
      /\ Paid(p) \/ p \in Rollbackers
      /\ StoresSound
      /\ UNCHANGED <<store, tokens, checkout, origin, publisher, worker, drift>>
      /\ Goes(p, "rewriting") \/ Gives(p)
      /\ staged' \in {staged, [staged EXCEPT ![g] = session[p].snap],
                      [staged EXCEPT ![g] = None]}
  BY DEF Restage, In, IInv, Paid, Restoring, Processes
<1>2. Counted(session[p].snap) /\ session[p].snap \in Products /\ Counted(None)
  BY <1>1, Writer, DeliveryAssumptions DEF DeliveryAssumptions, Counted, Products
<1>3. /\ staged' \in [Generations -> Products \cup {None}]
      /\ \A h \in Generations : Counted(staged'[h])
  BY <1>1, <1>2 DEF StoresSound
<1>4. \/ \E phase \in Restoring : Goes(p, phase)
      \/ Gives(p)
  BY <1>1 DEF Restoring
<1>5. Stable /\ StoresSound'
  BY <1>1, <1>3, <1>4, RestorationSessions, TargetsWritten DEF StoresSound
<1>. QED BY <1>1, <1>4, <1>5, Onward

\* The stage after an error.
LEMMA CleanedStage ==
    ASSUME StoresSound, NEW g \in Generations, Cleaned(g)
    PROVE  /\ staged' \in [Generations -> Products \cup {None}]
           /\ \A h \in Generations : Counted(staged'[h])
BY DeliveryAssumptions DEF DeliveryAssumptions, StoresSound, Cleaned, Counted, Products

LEMMA RewriteStep ==
    ASSUME IInv, NEW p \in Processes, Rewrite(p)
    PROVE  IInv'
<1>1. /\ session[p].phase \in Restoring
      /\ session[p].phase # "idle"
      /\ Paid(p) \/ p \in Rollbackers
      /\ StoresSound
      /\ UNCHANGED <<store, tokens, checkout, origin, publisher, drift>>
      /\ Goes(p, "recommitting") \/ Gives(p)
      /\ worker' \in {worker, session[p].snap}
      /\ Cleaned(session[p].gen)
  BY DEF Rewrite, In, IInv, Paid, Restoring, Processes, Cleaned
<1>2. worker' \in Products /\ Counted(worker')
  BY <1>1, Writer DEF StoresSound
<1>3. /\ staged' \in [Generations -> Products \cup {None}]
      /\ \A h \in Generations : Counted(staged'[h])
  BY <1>1, Writer, CleanedStage
<1>4. \/ \E phase \in Restoring : Goes(p, phase)
      \/ Gives(p)
  BY <1>1 DEF Restoring
<1>5. Stable /\ StoresSound'
  BY <1>1, <1>2, <1>3, <1>4, RestorationSessions, TargetsWritten DEF StoresSound
<1>. QED BY <1>1, <1>4, <1>5, Onward

LEMMA RecommitStep ==
    ASSUME IInv, NEW p \in Processes, Recommit(p)
    PROVE  IInv'
<1>1. /\ session[p].phase \in Restoring
      /\ session[p].phase # "idle"
      /\ Paid(p) \/ p \in Rollbackers
      /\ StoresSound
      /\ UNCHANGED <<store, tokens, checkout, worker, drift>>
      /\ Looks(p, "restored") \/ Gives(p)
      /\ Published(session[p].gen) \/ NotPublished(session[p].gen)
      /\ Cleaned(session[p].gen)
  BY DEF Recommit, In, IInv, Paid, Restoring, Processes, Cleaned
<1>2. /\ origin' \in Products /\ Counted(origin')
      /\ publisher' \in {"aligned", "stuck"}
  BY <1>1, Writer, Pushed
<1>3. /\ staged' \in [Generations -> Products \cup {None}]
      /\ \A h \in Generations : Counted(staged'[h])
  BY <1>1, Writer, CleanedStage
<1>4. Stable /\ StoresSound'
  BY <1>1, <1>2, <1>3, RestorationSessions, TargetsWritten DEF StoresSound
<1>. QED BY <1>1, <1>4, Onward

-----------------------------------------------------------------------------
(* The rest of the world *)

LEMMA WorldStep ==
    ASSUME IInv, World
    PROVE  IInv'
<1>1. CASE Pull
  BY <1>1, TargetsWritten, NobodyMoves DEF Pull, IInv, StoresSound
<1>2. CASE \E product \in Ordinary : Drift(product)
  <2>1. PICK product \in Ordinary : Drift(product)
    BY <1>2
  <2>2. product \in Products /\ Counted(product)
    BY DeliveryAssumptions DEF DeliveryAssumptions, Products, Counted
  <2>3. /\ UNCHANGED <<store, tokens, publisher, staged, session>>
        /\ {checkout', origin', worker'} \subseteq {checkout, origin, worker, product}
        /\ checkout' \in {checkout, product}
        /\ origin' \in {origin, product}
        /\ worker' \in {worker, product}
        /\ drift' = drift + 1
    BY <2>1 DEF Drift
  <2>4. StoresSound
    BY DEF IInv
  <2>5. Counted(checkout') /\ Counted(origin') /\ Counted(worker')
    BY <2>2, <2>3, <2>4 DEF StoresSound
  <2>6. Stable /\ StoresSound'
    BY <2>2, <2>3, <2>4, <2>5, TargetsWritten DEF StoresSound
  <2>. QED BY <2>3, <2>6, NobodyMoves
<1>. QED BY <1>1, <1>2 DEF World

LEMMA CrashStep ==
    ASSUME IInv, NEW p \in Processes, Crash(p)
    PROVE  IInv'
<1>1. /\ Ends(p)
      /\ publisher' \in {publisher, "stuck"}
      /\ UNCHANGED <<store, tokens, checkout, origin, worker, staged, drift>>
      /\ StoresSound
  BY DEF Crash, IInv
<1>2. session' \in [Processes -> Sessions]
  BY <1>1, StillSessions DEF Phases, Questions, States
<1>3. Stable /\ StoresSound'
  BY <1>1, <1>2, TargetsWritten DEF StoresSound
<1>. QED BY <1>1, <1>3, Ended

-----------------------------------------------------------------------------
(* The theorems *)

LEMMA Initial ==
    ASSUME Init
    PROVE  IInv
<1>1. StoresSound
  BY DeliveryAssumptions
  DEF DeliveryAssumptions, Init, StoresSound, States, Products, Counted, Sessions,
      Phases, Idle
<1>2. \A p \in Processes : Sound(p) /\ ~Paid(p)
  BY IdleSound DEF Init, Paid, Idle, Paying, Restoring
<1>. QED BY <1>1, <1>2 DEF IInv, Exclusive, Processes

LEMMA StepOf ==
    ASSUME IInv, NEW p \in Processes, Step(p) \/ Fault(p)
    PROVE  IInv'
<1>1. CASE Step(p)
  BY <1>1, LoadStep, ReadStaticStep, ReadWorkerStep, TransitionStep, ConsumeStep,
     StageStep, WriteStep, CommitStep, UnwriteStep, UnstageStep,
     RestageStep, RewriteStep, RecommitStep DEF Step
<1>2. CASE Fault(p)
  BY <1>2, ReadFailsStep, CrashStep DEF Fault
<1>. QED BY <1>1, <1>2

LEMMA Preserved ==
    ASSUME IInv, [Next]_vars
    PROVE  IInv'
<1>1. CASE Call
  BY <1>1, IssueStep, PrepareStep, CommandStep DEF Call
<1>2. CASE World
  BY <1>2, WorldStep
<1>3. CASE \E p \in Processes : Step(p) \/ Fault(p)
  BY <1>3, StepOf
<1>4. CASE UNCHANGED vars
  <2>1. Stable /\ StoresSound' /\ UNCHANGED session
    BY <1>4 DEF vars, Stable, IInv, StoresSound, Counted, Accounted
  <2>. QED BY <2>1, NobodyMoves
<1>. QED BY <1>1, <1>2, <1>3, <1>4 DEF Next

\* Every reachable state is sound.
THEOREM DeliveryInvariance == Spec => []IInv
BY Initial, Preserved, PTL DEF Spec

\* The stores, targets and sessions hold what they may hold: a process at work on
\* a batch always has the product on record that it would restore.
THEOREM DeliveryTyping == Spec => []TypeOK
<1>1. IInv => TypeOK
  BY DEF IInv, StoresSound, Sound, TypeOK, In, Processes, Terminal
<1>. QED BY <1>1, DeliveryInvariance, PTL

\* One capability admits one deliverer past the checks, whatever number of them
\* overlap, crash and are started again.
THEOREM DeliveryOneWriter == Spec => []OneWriterPerCapability
<1>1. IInv => OneWriterPerCapability
  BY DEF IInv, Sound, Exclusive, OneWriterPerCapability, Processes
<1>. QED BY <1>1, DeliveryInvariance, PTL

\* No generation is public, or about to be, that was not paid for or could not be
\* rolled back to the product its plan was built from.
THEOREM DeliveryAccounting == Spec => []PublicIsAccounted
<1>1. IInv => PublicIsAccounted
  BY DEF IInv, StoresSound, Counted, Accounted, PublicIsAccounted
<1>. QED BY <1>1, DeliveryInvariance, PTL

-----------------------------------------------------------------------------
(* The truth of verdicts: what a process asks, and how it came to ask *)

Asked(p) ==
    LET s == session[p] IN
    /\ s.phase = "idle" => s.why = "none"
    /\ s.phase \in {"reading", "comparing"} => s.why \notin {"required", "none"}
    /\ s.phase = "recording" /\ s.verdict = "COMMITTED" =>
         s.why \in {"entry", "delivered"} /\ s.static = s.gen
    /\ s.phase = "recording" /\ s.verdict = "ROLLED_BACK" =>
         s.why \in {"refused", "undone", "restored"}
    /\ p \in Rollbackers =>
         s.phase \notin Paying /\ s.why \in {"ordered", "restored", "none"}

\* Before a capability is consumed nothing but the first product is public.
Untouched ==
    /\ {origin, checkout, worker} = {Initially}
    /\ \A g \in Generations : staged[g] = None
    /\ \A p \in Processes : In(p, "consuming") => session[p].snap = Initially

\* Somebody knows g from the static site, where it then was.
Seen(g) ==
    \/ batch[g] = "COMMITTED"
    \/ \E p \in Rollbackers : ~In(p, "idle")
    \/ \E p \in Processes : session[p].static = g

\* p may still bring g to the static site.
Forward(p) ==
    /\ p \in Deliverers
    /\ \/ session[p].phase \in {"staging", "writing", "committing"}
       \/ session[p].why = "undone"

\* What the targets are like while p is where it is, in the delivery of g.
Fits(p, g) ==
    LET s == session[p] IN
    /\ Forward(p) => origin = Initially /\ checkout = Initially /\ ~Seen(g)
    /\ s.phase \in {"writing", "committing"} => staged[g] = g
    /\ s.phase = "committing" => worker = g
    /\ /\ s.why = "delivered"
       /\ \/ s.phase \in {"reading", "comparing"}
          \/ s.phase = "recording" /\ s.verdict = "COMMITTED"
       /\ batch[g] = "PREPARING"
       => /\ origin = g /\ worker = g
          /\ s.phase # "reading" /\ s.static = g => checkout = g
    /\ s.phase \in {"rewriting", "recommitting"} => staged[g] # g
    /\ p \in Deliverers /\ s.why = "restored" => origin = Initially
    /\ p \in Rollbackers /\ s.phase = "comparing" /\ s.static = Initially =>
         origin = Initially
    /\ p \in Rollbackers /\ s.phase # "idle" => batch[g] # "PREPARING"
    /\ s.phase = "recording" /\ s.verdict = "ROLLED_BACK" /\ s.why # "refused" =>
         origin = Initially /\ worker = Initially

\* The one delivery there was, of g, and nobody interfered.
Delivery(g) ==
    /\ Source[g] = Initially
    /\ {origin, checkout, worker} \subseteq {g, Initially}
    /\ staged[g] \in {g, Initially, None}
    /\ Seen(g) /\ origin = g => checkout = g
    /\ \A p \in Processes : Fits(p, g)

VInv ==
    /\ IsFiniteSet(consumed)
    /\ \A p \in Processes : Asked(p)
    /\ drift = 0 =>
         /\ consumed = {} => Untouched
         /\ \A k \in Capabilities : consumed = {k} => Delivery(Attests[k])

\* Who has any business with the targets.
Writes(p) == Paid(p) \/ (p \in Rollbackers /\ session[p].phase # "idle")

\* What a step of p does in the delivery of g.
Moves(p, g) ==
    /\ \A q \in Processes : q # p => session'[q] = session[q]
    /\ batch'[g] = "PREPARING" => batch[g] \in {"PREPARING", "ABSENT"}
    /\ checkout' = checkout
    /\ origin' \in {origin, Initially} \/ (session[p].phase = "committing" /\ origin' = g)
    /\ worker' \in {worker, Initially} \/ (session[p].phase = "writing" /\ worker' = g)
    /\ \/ staged'[g] \in {staged[g], None, Initially}
       \/ session[p].phase = "staging" /\ staged'[g] = g
    /\ ~Writes(p) => UNCHANGED <<origin, worker>> /\ staged'[g] = staged[g]
    /\ Seen(g)' => Seen(g) \/ checkout = g

-----------------------------------------------------------------------------

(* What a process asks *)

\* The step of p writes its own session only, and of that what Turns says.
Becomes(p, phase, why, static, verdict) ==
    /\ \A q \in Processes : q # p => session'[q] = session[q]
    /\ session'[p].phase = phase
    /\ session'[p].why = why
    /\ session'[p].static = static
    /\ session'[p].verdict = verdict
    /\ session'[p].gen = session[p].gen
    /\ session'[p].snap = session[p].snap

LEMMA BecomesSo ==
    ASSUME session \in [Processes -> Sessions], NEW p \in Processes, NEW phase, NEW why,
           NEW verdict
    PROVE  /\ Goes(p, phase) => Becomes(p, phase, session[p].why, session[p].static,
                                        session[p].verdict)
           /\ Turns(p, phase, why) => Becomes(p, phase, why, session[p].static,
                                              session[p].verdict)
           /\ Looks(p, why) => Becomes(p, "reading", why, session[p].static,
                                       session[p].verdict)
           /\ Records(p, verdict) => Becomes(p, "recording", session[p].why,
                                             session[p].static, verdict)
<1>1. session[p] \in Sessions
  OBVIOUS
<1>2. /\ [session[p] EXCEPT !.phase = phase].phase = phase
      /\ [session[p] EXCEPT !.phase = phase, !.why = why].phase = phase
      /\ [session[p] EXCEPT !.phase = phase, !.why = why].why = why
  BY <1>1 DEF Sessions
<1>. QED BY <1>1, <1>2 DEF Goes, Turns, Looks, Records, Becomes, Sessions

LEMMA EndsSo ==
    ASSUME session \in [Processes -> Sessions], NEW p \in Processes, Ends(p)
    PROVE  /\ \A q \in Processes : q # p => session'[q] = session[q]
           /\ session'[p] = Idle
BY DEF Ends

LEMMA AskedStays ==
    ASSUME NEW p \in Processes, Asked(p), session'[p] = session[p]
    PROVE  Asked(p)'
BY DEF Asked

LEMMA IdleAsked ==
    ASSUME NEW p \in Processes, session[p] = Idle
    PROVE  Asked(p)
BY DEF Asked, Idle, Paying

\* What every step makes of its process: the session afterwards, and with it what
\* was written.
Now(p, phase, why) == Becomes(p, phase, why, session[p].static, session[p].verdict)
Verdict(p, verdict) ==
    Becomes(p, "recording", session[p].why, session[p].static, verdict)
Over(p) ==
    /\ \A q \in Processes : q # p => session'[q] = session[q]
    /\ session'[p] = Idle

LEMMA Named ==
    ASSUME IInv, NEW p \in Processes
    PROVE  /\ \A phase \in Phases : Goes(p, phase) => Now(p, phase, session[p].why)
           /\ \A phase \in Phases, why \in Questions :
                Turns(p, phase, why) => Now(p, phase, why)
           /\ \A why \in Questions : Looks(p, why) => Now(p, "reading", why)
           /\ \A verdict \in States : Records(p, verdict) => Verdict(p, verdict)
           /\ Ends(p) => Over(p)
<1>1. session \in [Processes -> Sessions]
  BY DEF IInv, StoresSound
<1>. QED BY <1>1, BecomesSo, EndsSo DEF Now, Verdict, Over

LEMMA LoadMoves ==
    ASSUME IInv, NEW p \in Processes, Load(p)
    PROVE  /\ session[p].phase = "loading"
           /\ Now(p, "reading", "entry") \/ Over(p)
           /\ UNCHANGED <<store, tokens, targets, drift>>
BY Named DEF Load, In, Questions

LEMMA ReadStaticMoves ==
    ASSUME IInv, NEW p \in Processes, ReadStatic(p)
    PROVE  /\ session[p].phase = "reading"
           /\ Becomes(p, "comparing", session[p].why, checkout, session[p].verdict)
           /\ UNCHANGED <<store, tokens, targets, drift>>
<1>1. session \in [Processes -> Sessions] /\ session[p] \in Sessions
  BY DEF IInv, StoresSound
<1>2. session' = [session EXCEPT ![p] = [@ EXCEPT !.phase = "comparing", !.static = checkout]]
  BY DEF ReadStatic
<1>3. Becomes(p, "comparing", session[p].why, checkout, session[p].verdict)
  BY <1>1, <1>2 DEF Becomes, Sessions
<1>. QED BY <1>3 DEF ReadStatic, In

LEMMA ReadWorkerMoves ==
    ASSUME IInv, NEW p \in Processes, Asked(p), ReadWorker(p)
    PROVE  /\ session[p].phase = "comparing"
           /\ \/ /\ session[p].why \in {"entry", "delivered"}
                 /\ session[p].static = session[p].gen
                 /\ Verdict(p, "COMMITTED")
              \/ Verdict(p, "FAILED")
              \/ /\ session[p].why \in {"refused", "undone", "restored"}
                 /\ session[p].static = session[p].snap /\ worker = session[p].snap
                 /\ Verdict(p, "ROLLED_BACK")
              \/ session[p].why = "entry" /\ Now(p, "reading", "guard")
              \/ session[p].why \in {"entry", "guard"} /\ Now(p, "reading", "refused")
              \/ /\ session[p].why = "guard" /\ worker = session[p].snap
                 /\ Now(p, "consuming", "guard")
              \/ /\ session[p].why \in {"delivered", "ordered"}
                 /\ Now(p, "restaging", session[p].why)
              \/ Over(p)
           /\ UNCHANGED <<store, tokens, targets, drift>>
<1>1. session[p].phase = "comparing" /\ Concluded(p)
  BY DEF ReadWorker, In
<1>2. session[p].why \in Questions \cup {"none"}
  BY DEF IInv, StoresSound, Sessions
<1>3. \/ /\ session[p].why \in {"entry", "delivered"}
         /\ session[p].static = session[p].gen
         /\ Records(p, "COMMITTED")
      \/ Records(p, "FAILED")
      \/ /\ session[p].why \in {"refused", "undone", "restored"}
         /\ session[p].static = session[p].snap /\ worker = session[p].snap
         /\ Records(p, "ROLLED_BACK")
      \/ session[p].why = "entry" /\ Looks(p, "guard")
      \/ session[p].why \in {"entry", "guard"} /\ Looks(p, "refused")
      \/ /\ session[p].why = "guard" /\ worker = session[p].snap
         /\ Goes(p, "consuming")
      \/ session[p].why \in {"delivered", "ordered"} /\ Goes(p, "restaging")
      \/ Ends(p)
  BY <1>1, <1>2 DEF Concluded, Interrupted, Answered, Asked, Questions
<1>4. /\ Records(p, "COMMITTED") => Verdict(p, "COMMITTED")
      /\ Records(p, "FAILED") => Verdict(p, "FAILED")
      /\ Records(p, "ROLLED_BACK") => Verdict(p, "ROLLED_BACK")
      /\ Looks(p, "guard") => Now(p, "reading", "guard")
      /\ Looks(p, "refused") => Now(p, "reading", "refused")
      /\ Goes(p, "consuming") => Now(p, "consuming", session[p].why)
      /\ Goes(p, "restaging") => Now(p, "restaging", session[p].why)
      /\ Ends(p) => Over(p)
  BY Named DEF Phases, Questions, States, Terminal, Restoring
<1>5. session[p].why = "guard" /\ Goes(p, "consuming") => Now(p, "consuming", "guard")
  BY <1>4
<1>. QED BY <1>1, <1>3, <1>4, <1>5 DEF ReadWorker

LEMMA ReadFailsMoves ==
    ASSUME IInv, NEW p \in Processes, ReadFails(p)
    PROVE  /\ session[p].phase \in {"reading", "comparing"}
           /\ \/ session[p].why = "guard" /\ Now(p, "reading", "refused")
              \/ p \in Deliverers /\ Verdict(p, "FAILED")
              \/ Over(p)
           /\ UNCHANGED <<store, tokens, targets, drift>>
BY Named DEF ReadFails, Questions, States, Terminal

LEMMA TransitionMoves ==
    ASSUME IInv, NEW p \in Processes, Transition(p)
    PROVE  /\ session[p].phase = "recording"
           /\ Over(p)
           /\ \A g \in Generations : batch'[g] # batch[g] =>
                /\ session[p].gen = g /\ batch'[g] = session[p].verdict
                /\ session[p].verdict \in {"COMMITTED"} \cup Terminal
                /\ batch'[g] = "COMMITTED" => batch[g] = "PREPARING"
           /\ UNCHANGED <<previous, tokens, targets, drift>>
<1>1. batch \in [Generations -> States] /\ session[p].gen \in Generations
      /\ session[p].verdict \in {"COMMITTED"} \cup Terminal
  BY DEF IInv, StoresSound, Sound, Transition, In
<1>2. Over(p)
  BY Named DEF Transition
<1>. QED BY <1>1, <1>2 DEF Transition, In, Allowed, Terminal, States

LEMMA ConsumeMoves ==
    ASSUME IInv, NEW p \in Processes, Consume(p)
    PROVE  /\ session[p].phase = "consuming"
           /\ \/ /\ session[p].token \notin consumed
                 /\ consumed' = consumed \cup {session[p].token}
                 /\ Now(p, "staging", session[p].why)
              \/ Now(p, "reading", "refused") /\ UNCHANGED consumed
           /\ UNCHANGED <<store, capability, targets, drift>>
BY Named DEF Consume, Usable, In, Phases, Paying, Questions

LEMMA StageMoves ==
    ASSUME IInv, NEW p \in Processes, Stage(p)
    PROVE  /\ session[p].phase = "staging"
           /\ \/ /\ staged' = [staged EXCEPT ![session[p].gen] = session[p].gen]
                 /\ Now(p, "writing", session[p].why)
              \/ /\ staged' = [staged EXCEPT ![session[p].gen] = None]
                 /\ Now(p, "reading", "undone")
              \/ /\ staged' \in {staged, [staged EXCEPT ![session[p].gen] = session[p].gen]}
                 /\ Verdict(p, "FAILED")
           /\ UNCHANGED <<store, tokens, checkout, origin, publisher, worker, drift>>
BY Named DEF Stage, In, Phases, Paying, Questions, States, Terminal

LEMMA WriteMoves ==
    ASSUME IInv, NEW p \in Processes, Write(p)
    PROVE  /\ session[p].phase = "writing"
           /\ \/ worker' = session[p].gen /\ Now(p, "committing", session[p].why)
              \/ worker' \in {worker, session[p].gen} /\ Now(p, "unwriting", "undone")
           /\ UNCHANGED <<store, tokens, checkout, origin, publisher, staged, drift>>
BY Named DEF Write, In, Phases, Paying, Questions

LEMMA CommitMoves ==
    ASSUME IInv, NEW p \in Processes, Commit(p)
    PROVE  /\ session[p].phase = "committing"
           /\ origin' \in {origin, staged[session[p].gen]}
           /\ \/ origin' = staged[session[p].gen] /\ Now(p, "reading", "delivered")
              \/ Now(p, "unwriting", "required")
           /\ UNCHANGED <<store, tokens, checkout, worker, staged, drift>>
BY Named DEF Commit, Published, NotPublished, In, Phases, Paying, Questions

LEMMA UnwriteMoves ==
    ASSUME IInv, NEW p \in Processes, Unwrite(p)
    PROVE  /\ session[p].phase = "unwriting"
           /\ worker' \in {worker, session[p].snap}
           /\ \/ worker' = session[p].snap /\ Now(p, "unstaging", session[p].why)
              \/ Now(p, "unstaging", "required")
           /\ UNCHANGED <<store, tokens, checkout, origin, publisher, staged, drift>>
BY Named DEF Unwrite, In, Phases, Paying, Questions

LEMMA UnstageMoves ==
    ASSUME IInv, NEW p \in Processes, Unstage(p)
    PROVE  /\ session[p].phase = "unstaging"
           /\ staged' \in {staged, [staged EXCEPT ![session[p].gen] = None]}
           /\ \/ session[p].why = "undone" /\ Now(p, "reading", "undone")
              \/ Verdict(p, "FAILED")
           /\ UNCHANGED <<store, tokens, checkout, origin, publisher, worker, drift>>
BY Named DEF Unstage, In, Phases, Questions, States, Terminal

LEMMA GivesMoves ==
    ASSUME IInv, NEW p \in Processes, Gives(p)
    PROVE  \/ p \in Rollbackers /\ Now(p, "reading", "restored")
           \/ p \in Deliverers /\ Verdict(p, "FAILED")
BY Named DEF Gives, Questions, States, Terminal, Processes

LEMMA RestageMoves ==
    ASSUME IInv, NEW p \in Processes, Restage(p)
    PROVE  /\ session[p].phase = "restaging"
           /\ \/ /\ staged' = [staged EXCEPT ![session[p].gen] = session[p].snap]
                 /\ Now(p, "rewriting", session[p].why)
              \/ /\ staged' \in {staged, [staged EXCEPT ![session[p].gen] = session[p].snap],
                                 [staged EXCEPT ![session[p].gen] = None]}
                 /\ \/ p \in Rollbackers /\ Now(p, "reading", "restored")
                    \/ p \in Deliverers /\ Verdict(p, "FAILED")
           /\ UNCHANGED <<store, tokens, checkout, origin, publisher, worker, drift>>
<1>1. Goes(p, "rewriting") => Now(p, "rewriting", session[p].why)
  BY Named DEF Phases, Restoring
<1>. QED BY <1>1, GivesMoves DEF Restage, In

LEMMA RewriteMoves ==
    ASSUME IInv, NEW p \in Processes, Rewrite(p)
    PROVE  /\ session[p].phase = "rewriting"
           /\ worker' \in {worker, session[p].snap}
           /\ \/ UNCHANGED staged /\ Now(p, "recommitting", session[p].why)
              \/ /\ staged' \in {staged, [staged EXCEPT ![session[p].gen] = None]}
                 /\ \/ p \in Rollbackers /\ Now(p, "reading", "restored")
                    \/ p \in Deliverers /\ Verdict(p, "FAILED")
           /\ UNCHANGED <<store, tokens, checkout, origin, publisher, drift>>
<1>1. Goes(p, "recommitting") => Now(p, "recommitting", session[p].why)
  BY Named DEF Phases, Restoring
<1>. QED BY <1>1, GivesMoves DEF Rewrite, In, Cleaned

LEMMA RecommitMoves ==
    ASSUME IInv, NEW p \in Processes, Recommit(p)
    PROVE  /\ session[p].phase = "recommitting"
           /\ \/ origin' = origin
              \/ staged[session[p].gen] # None /\ origin' = staged[session[p].gen]
           /\ \/ /\ staged[session[p].gen] # None /\ origin' = staged[session[p].gen]
                 /\ UNCHANGED staged /\ Now(p, "reading", "restored")
              \/ /\ staged' \in {staged, [staged EXCEPT ![session[p].gen] = None]}
                 /\ \/ p \in Rollbackers /\ Now(p, "reading", "restored")
                    \/ p \in Deliverers /\ Verdict(p, "FAILED")
           /\ UNCHANGED <<store, tokens, checkout, worker, drift>>
<1>1. Looks(p, "restored") => Now(p, "reading", "restored")
  BY Named DEF Questions
<1>. QED BY <1>1, GivesMoves DEF Recommit, Published, NotPublished, In, Cleaned

LEMMA CrashMoves ==
    ASSUME IInv, NEW p \in Processes, Crash(p)
    PROVE  /\ Over(p)
           /\ UNCHANGED <<store, tokens, checkout, origin, worker, staged, drift>>
BY Named DEF Crash

\* What a process asks after its own step.
LEMMA AskedStep ==
    ASSUME IInv, NEW p \in Processes, Asked(p), Step(p) \/ Fault(p)
    PROVE  Asked(p)'
<1>1. Sound(p) /\ Deliverers \cap Rollbackers = {}
  BY DeliveryAssumptions DEF IInv, DeliveryAssumptions
<1>2. CASE Over(p)
  BY <1>2 DEF Over, Asked, Idle, Paying
<1>3. CASE Load(p)
  BY <1>1, <1>2, <1>3, LoadMoves DEF Asked, Sound, Becomes, Now, Paying
<1>4. CASE ReadStatic(p)
  BY <1>4, ReadStaticMoves DEF Asked, Becomes, Paying
<1>5. CASE ReadWorker(p)
  BY <1>2, <1>5, ReadWorkerMoves DEF Asked, Becomes, Now, Verdict, Paying
<1>6. CASE Transition(p)
  BY <1>2, <1>6, TransitionMoves
<1>7. CASE Consume(p)
  BY <1>1, <1>7, ConsumeMoves DEF Asked, Sound, Becomes, Now, Paying
<1>8. CASE Stage(p)
  BY <1>8, StageMoves DEF Asked, Becomes, Now, Verdict, Paying
<1>9. CASE Write(p)
  BY <1>9, WriteMoves DEF Asked, Becomes, Now, Paying
<1>10. CASE Commit(p)
  BY <1>10, CommitMoves DEF Asked, Becomes, Now, Paying
<1>11. CASE Unwrite(p)
  BY <1>11, UnwriteMoves DEF Asked, Becomes, Now, Paying
<1>12. CASE Unstage(p)
  BY <1>12, UnstageMoves DEF Asked, Becomes, Now, Verdict, Paying
<1>13. CASE Restage(p)
  BY <1>1, <1>13, RestageMoves DEF Asked, Becomes, Now, Verdict, Paying
<1>14. CASE Rewrite(p)
  BY <1>1, <1>14, RewriteMoves DEF Asked, Becomes, Now, Verdict, Paying
<1>15. CASE Recommit(p)
  BY <1>1, <1>15, RecommitMoves DEF Asked, Becomes, Now, Verdict, Paying
<1>16. CASE ReadFails(p)
  BY <1>1, <1>2, <1>16, ReadFailsMoves DEF Asked, Sound, Becomes, Now, Verdict, Paying
<1>17. CASE Crash(p)
  BY <1>2, <1>17, CrashMoves
<1>. QED BY <1>3, <1>4, <1>5, <1>6, <1>7, <1>8, <1>9, <1>10, <1>11, <1>12, <1>13, <1>14,
         <1>15, <1>16, <1>17 DEF Step, Fault

-----------------------------------------------------------------------------
(* One delivery *)

\* With one capability consumed there is one generation about, and one deliverer.
LEMMA Single ==
    ASSUME IInv, NEW k \in Capabilities, consumed = {k},
           \A p \in Processes : Asked(p)
    PROVE  /\ Attests[k] \in Generations
           /\ Attests[k] # Initially /\ Initially # None /\ Attests[k] # None
           /\ \A p \in Processes : Writes(p) =>
                /\ session[p].gen = Attests[k]
                /\ session[p].snap = Source[Attests[k]]
                /\ batch[Attests[k]] # "ABSENT"
           /\ \A p, q \in Processes : Paid(p) /\ Paid(q) => p = q
           /\ \A product \in Generations : Counted(product) => product = Attests[k]
<1>1. /\ Attests[k] \in Generations
      /\ Attests[k] # Initially /\ Initially # None /\ Attests[k] # None
  BY DeliveryAssumptions DEF DeliveryAssumptions, Products
<1>2. ASSUME NEW p \in Processes, Paid(p)
      PROVE  /\ p \in Deliverers
             /\ session[p].token = k
             /\ session[p].gen = Attests[k]
             /\ session[p].snap = Source[Attests[k]]
             /\ batch[Attests[k]] # "ABSENT"
  <2>1. Sound(p) /\ p \in Deliverers /\ Asked(p)
    BY <1>2 DEF IInv, Paid
  <2>2. session[p].phase # "idle"
    BY <1>2, <2>1 DEF Paid, Asked, Paying, Restoring
  <2>3. session[p].token = k
    BY <1>2, <2>1 DEF Sound
  <2>. QED BY <1>2, <2>1, <2>2, <2>3 DEF Sound
<1>3. ASSUME NEW p \in Processes, p \in Rollbackers, session[p].phase # "idle"
      PROVE  /\ session[p].gen = Attests[k]
             /\ session[p].snap = Source[Attests[k]]
             /\ batch[Attests[k]] # "ABSENT"
  BY <1>3 DEF IInv, Sound, Accounted
<1>4. \A product \in Generations : Counted(product) => product = Attests[k]
  BY DEF Counted, Accounted
<1>5. \A p, q \in Processes : Paid(p) /\ Paid(q) => p = q
  BY <1>2 DEF IInv, Exclusive
<1>. QED BY <1>1, <1>2, <1>3, <1>4, <1>5 DEF Writes

\* What a step does not disturb is what the targets are like for the others.
LEMMA OtherFits ==
    ASSUME IInv, NEW k \in Capabilities, consumed = {k}, \A r \in Processes : Asked(r),
           NEW p \in Processes, Moves(p, Attests[k]), Delivery(Attests[k]),
           NEW q \in Processes, q # p
    PROVE  Fits(q, Attests[k])'
<1> DEFINE g == Attests[k]
<1>1. /\ Fits(p, g) /\ Fits(q, g)
      /\ session'[q] = session[q]
      /\ Asked(p) /\ Asked(q)
      /\ Deliverers \cap Rollbackers = {}
      /\ p \in Rollbackers \/ p \in Deliverers
      /\ q \in Rollbackers \/ q \in Deliverers
  BY DeliveryAssumptions DEF Delivery, Moves, DeliveryAssumptions, Processes
<1>2. /\ g # Initially /\ Initially # None /\ g # None
      /\ Writes(q) => batch[g] # "ABSENT"
      /\ ~(Paid(p) /\ Paid(q))
  BY Single
<1>3. p \in Rollbackers /\ session[p].phase # "idle" => Seen(g) /\ batch[g] # "PREPARING"
  BY <1>1 DEF Seen, Fits, In
<1>4. q \in Rollbackers /\ session[q].phase # "idle" => Seen(g) /\ batch[g] # "PREPARING"
  BY <1>1 DEF Seen, Fits, In
<1>5. /\ session[p].phase \in {"staging", "writing", "committing"} => Forward(p) /\ Paid(p) /\ ~Seen(g)
      /\ session[q].phase \in {"staging", "writing", "committing"} => Forward(q)
      /\ Forward(q) => Paid(q) /\ ~Seen(g)
  BY <1>1 DEF Forward, Paid, Paying, Asked, Fits
<1>6. /\ Forward(q)' <=> Forward(q)
      /\ Forward(q) => ~Writes(p) /\ checkout # g
  BY <1>1, <1>2, <1>3, <1>5 DEF Forward, Writes, Fits
<1>7. Forward(q) => origin' = Initially /\ checkout' = Initially /\ ~Seen(g)'
  BY <1>1, <1>5, <1>6 DEF Moves, Fits
<1>8. /\ session[q].phase \in {"writing", "committing"} => staged'[g] = g
      /\ session[q].phase = "committing" => worker' = g
  BY <1>1, <1>5, <1>6 DEF Moves, Fits
<1>9. ASSUME session[q].why = "delivered", batch'[g] = "PREPARING"
      PROVE  batch[g] = "PREPARING" /\ UNCHANGED <<origin, worker, checkout>>
  <2>1. Paid(q) /\ session[q].phase # "idle"
    BY <1>1, <1>9 DEF Asked, Paid
  <2>2. batch[g] = "PREPARING"
    BY <1>2, <1>9, <2>1 DEF Moves, Writes
  <2>3. ~Writes(p)
    BY <1>2, <1>3, <2>1, <2>2 DEF Writes
  <2>. QED BY <2>2, <2>3 DEF Moves
<1>10. session[q].phase \in {"rewriting", "recommitting"} => staged'[g] # g
  BY <1>1, <1>2, <1>4, <1>5 DEF Moves, Fits, Paid, Restoring
<1>11. q \in Deliverers /\ session[q].why = "restored" => origin' = Initially
  BY <1>1, <1>2, <1>5 DEF Moves, Fits, Paid
<1>12. q \in Rollbackers /\ session[q].phase = "comparing" /\ session[q].static = Initially =>
         origin' = Initially
  BY <1>1, <1>4, <1>5 DEF Moves, Fits
<1>13. q \in Rollbackers /\ session[q].phase # "idle" => batch'[g] # "PREPARING"
  BY <1>2, <1>4 DEF Moves, Writes
<1>14. session[q].phase = "recording" /\ session[q].verdict = "ROLLED_BACK"
         /\ session[q].why # "refused" => origin' = Initially /\ worker' = Initially
  BY <1>1, <1>2, <1>4, <1>5 DEF Moves, Fits, Paid, Asked
<1>. QED BY <1>1, <1>6, <1>7, <1>8, <1>9, <1>10, <1>11, <1>12, <1>13, <1>14 DEF Fits

\* The delivery goes on if the step suits the process that takes it.
LEMMA DeliveryGoesOn ==
    ASSUME IInv, NEW k \in Capabilities, consumed = {k}, \A r \in Processes : Asked(r),
           NEW p \in Processes, Moves(p, Attests[k]), Delivery(Attests[k]),
           Fits(p, Attests[k])'
    PROVE  Delivery(Attests[k])'
<1> DEFINE g == Attests[k]
<1>1. \A q \in Processes : Fits(q, g)'
  BY OtherFits
<1>2. /\ {origin', checkout', worker'} \subseteq {g, Initially}
      /\ staged'[g] \in {g, Initially, None}
      /\ Source[g] = Initially
  BY DEF Delivery, Moves
<1>3. Fits(p, g) /\ Asked(p) /\ p \in Processes
  BY DEF Delivery
<1>4. g # Initially
  BY Single
<1>5. ASSUME Seen(g)', origin' = g
      PROVE  checkout' = g
  <2>1. CASE origin = g
    BY <1>5, <2>1 DEF Moves, Delivery
  <2>2. CASE origin # g
    <3>1. session[p].phase = "committing"
      BY <1>4, <1>5, <2>2 DEF Moves
    <3>2. ~Seen(g) /\ checkout = Initially
      BY <1>3, <3>1 DEF Fits, Forward, Asked, Paying, Processes
    <3>. QED BY <1>4, <1>5, <3>2 DEF Moves
  <2>. QED BY <2>1, <2>2
<1>. QED BY <1>1, <1>2, <1>5 DEF Delivery

\* What p has just done in the delivery of g, and what it finds.
Suits(p, g) == Moves(p, g) /\ Fits(p, g)'

\* Nobody gets to know g but from the checkout.
LEMMA Known ==
    ASSUME NEW p \in Processes, NEW g \in Generations, checkout' = checkout,
           \A q \in Processes : q # p => session'[q] = session[q],
           batch'[g] = "COMMITTED" => Seen(g),
           session'[p].static = g => g \in {session[p].static, checkout},
           p \in Rollbackers /\ session'[p].phase # "idle" => Seen(g)
    PROVE  Seen(g)' => Seen(g) \/ checkout = g
BY DEF Seen, In, Processes

\* A process that goes on without having learned anything.
LEMMA Unlearned ==
    ASSUME NEW p \in Processes, NEW g \in Generations, UNCHANGED <<store, checkout>>,
           \/ \E phase, why : Now(p, phase, why)
           \/ \E verdict : Verdict(p, verdict)
           \/ Over(p),
           session[p].phase # "idle"
    PROVE  Seen(g)' => Seen(g) \/ checkout = g
<1>1. g # None
  BY DeliveryAssumptions DEF DeliveryAssumptions, Products
<1>2. batch'[g] = "COMMITTED" => Seen(g)
  BY DEF Seen, store
<1>3. session'[p].static = g => session[p].static = g
  BY <1>1 DEF Now, Verdict, Becomes, Over, Idle
<1>4. p \in Rollbackers => Seen(g)
  BY DEF Seen, In
<1>5. \A q \in Processes : q # p => session'[q] = session[q]
  BY DEF Now, Verdict, Becomes, Over
<1>. QED BY <1>2, <1>3, <1>4, <1>5, Known DEF store

LEMMA IdleFits ==
    ASSUME NEW p \in Processes, NEW g, Over(p)
    PROVE  Fits(p, g)'
BY DEF Over, Fits, Forward, Idle

LEMMA LoadSuits ==
    ASSUME IInv, NEW k \in Capabilities, consumed = {k}, \A r \in Processes : Asked(r),
           NEW p \in Processes, Load(p), Delivery(Attests[k])
    PROVE  Suits(p, Attests[k])
<1> DEFINE g == Attests[k]
<1>1. g \in Generations
  BY Single
<1>2. Seen(g)' => Seen(g) \/ checkout = g
  BY <1>1, LoadMoves, Unlearned DEF store, targets
<1>3. p \in Deliverers /\ p \notin Rollbackers
  BY DeliveryAssumptions, LoadMoves DEF DeliveryAssumptions, IInv, Sound, Processes
<1>4. Fits(p, g)'
  BY <1>3, LoadMoves, IdleFits DEF Fits, Forward, Now, Becomes
<1>. QED BY <1>2, <1>4, LoadMoves DEF Suits, Moves, Now, Becomes, Over, store, targets

LEMMA ReadStaticSuits ==
    ASSUME IInv, NEW k \in Capabilities, consumed = {k}, \A r \in Processes : Asked(r),
           NEW p \in Processes, ReadStatic(p), Delivery(Attests[k])
    PROVE  Suits(p, Attests[k])
<1> DEFINE g == Attests[k]
<1>1. g \in Generations /\ g # Initially
  BY Single
<1>2. /\ session[p].phase = "reading"
      /\ Becomes(p, "comparing", session[p].why, checkout, session[p].verdict)
      /\ UNCHANGED <<batch, checkout, origin, worker, staged>>
  BY ReadStaticMoves DEF store, targets
<1>3. Seen(g)' => Seen(g) \/ checkout = g
  BY <1>1, <1>2, Known DEF Becomes, Seen, In
<1>4. Moves(p, g)
  BY <1>2, <1>3 DEF Moves, Becomes
<1>5. Fits(p, g) /\ (Seen(g) /\ origin = g => checkout = g) /\ origin \in {g, Initially}
      /\ (p \in Rollbackers => Seen(g))
  BY <1>2 DEF Delivery, Seen, In
<1>6. Forward(p)' <=> Forward(p)
  BY <1>2 DEF Forward, Becomes
<1>7. Fits(p, g)'
  BY <1>1, <1>2, <1>3, <1>5, <1>6 DEF Fits, Becomes
<1>. QED BY <1>4, <1>7 DEF Suits

LEMMA ReadWorkerSuits ==
    ASSUME IInv, NEW k \in Capabilities, consumed = {k}, \A r \in Processes : Asked(r),
           NEW p \in Processes, ReadWorker(p), Delivery(Attests[k])
    PROVE  Suits(p, Attests[k])
<1> DEFINE g == Attests[k]
<1>1. /\ g \in Generations /\ g # Initially
      /\ Writes(p) => session[p].snap = Initially
  BY Single DEF Delivery
<1>2. session[p].phase = "comparing" /\ UNCHANGED <<batch, checkout, origin, worker, staged>>
  BY ReadWorkerMoves DEF store, targets
<1>3. /\ \/ \E phase, why : Now(p, phase, why)
         \/ \E verdict : Verdict(p, verdict)
         \/ Over(p)
  BY ReadWorkerMoves
<1>4. Seen(g)' => Seen(g) \/ checkout = g
  BY <1>1, <1>2, <1>3, ReadWorkerMoves, Unlearned
<1>5. Moves(p, g)
  BY <1>2, <1>3, <1>4 DEF Moves, Now, Verdict, Becomes, Over
<1>6. Fits(p, g) /\ p \in Deliverers \cup Rollbackers /\ Asked(p)
  BY DEF Delivery, Processes
<1>7. Forward(p) => ~Seen(g)'
  BY <1>1, <1>4, <1>6 DEF Fits
<1>8. ASSUME Over(p) PROVE  Fits(p, g)'
  BY <1>8, IdleFits
<1>9. ASSUME Verdict(p, "COMMITTED") /\ session[p].why \in {"entry", "delivered"}
      PROVE  Fits(p, g)'
  BY <1>2, <1>6, <1>7, <1>9 DEF Verdict, Becomes, Fits, Forward
<1>10. ASSUME Verdict(p, "FAILED") PROVE  Fits(p, g)'
  BY <1>2, <1>6, <1>7, <1>10 DEF Verdict, Becomes, Fits, Forward
<1>11. ASSUME /\ session[p].why \in {"refused", "undone", "restored"}
             /\ session[p].static = session[p].snap /\ worker = session[p].snap
             /\ Verdict(p, "ROLLED_BACK")
       PROVE  Fits(p, g)'
  <2>1. session[p].why # "refused" => session[p].snap = Initially
    BY <1>1, <1>2, <1>6, <1>11 DEF Writes, Paid
  <2>2. session[p].why # "refused" => origin = Initially /\ worker = Initially
    BY <1>2, <1>6, <1>11, <2>1 DEF Fits, Forward, Asked
  <2>. QED BY <1>2, <1>6, <1>7, <1>11, <2>2 DEF Verdict, Becomes, Fits, Forward
<1>12. ASSUME \E why \in {"guard", "refused"} : Now(p, "reading", why) PROVE  Fits(p, g)'
  BY <1>2, <1>6, <1>7, <1>12 DEF Now, Becomes, Fits, Forward
<1>13. ASSUME Now(p, "consuming", "guard") PROVE  Fits(p, g)'
  BY <1>2, <1>6, <1>7, <1>13 DEF Now, Becomes, Fits, Forward
<1>14. ASSUME session[p].why \in {"delivered", "ordered"} /\ Now(p, "restaging", session[p].why)
       PROVE  Fits(p, g)'
  BY <1>2, <1>6, <1>7, <1>14 DEF Now, Becomes, Fits, Forward
<1>15. Fits(p, g)'
  BY <1>6, <1>8, <1>9, <1>10, <1>11, <1>12, <1>13, <1>14, ReadWorkerMoves
<1>. QED BY <1>5, <1>15 DEF Suits

LEMMA ReadFailsSuits ==
    ASSUME IInv, NEW k \in Capabilities, consumed = {k}, \A r \in Processes : Asked(r),
           NEW p \in Processes, ReadFails(p), Delivery(Attests[k])
    PROVE  Suits(p, Attests[k])
<1> DEFINE g == Attests[k]
<1>1. g \in Generations /\ g # Initially
  BY Single
<1>2. /\ session[p].phase \in {"reading", "comparing"}
      /\ UNCHANGED <<batch, checkout, origin, worker, staged>>
      /\ \/ session[p].why = "guard" /\ Now(p, "reading", "refused")
         \/ p \in Deliverers /\ Verdict(p, "FAILED")
         \/ Over(p)
  BY ReadFailsMoves DEF store, targets
<1>3. Seen(g)' => Seen(g) \/ checkout = g
  BY <1>1, <1>2, ReadFailsMoves, Unlearned
<1>4. Moves(p, g)
  BY <1>2, <1>3 DEF Moves, Now, Verdict, Becomes, Over
<1>5. Fits(p, g)
  BY DEF Delivery
<1>6. Fits(p, g)'
  BY <1>1, <1>2, <1>3, <1>5, IdleFits DEF Now, Verdict, Becomes, Fits, Forward
<1>. QED BY <1>4, <1>6 DEF Suits

LEMMA TransitionSuits ==
    ASSUME IInv, NEW k \in Capabilities, consumed = {k}, \A r \in Processes : Asked(r),
           NEW p \in Processes, Transition(p), Delivery(Attests[k])
    PROVE  Suits(p, Attests[k])
<1> DEFINE g == Attests[k]
<1>1. g \in Generations /\ g # None
  BY Single
<1>2. /\ session[p].phase = "recording"
      /\ Over(p)
      /\ batch'[g] # batch[g] =>
           /\ session[p].gen = g /\ batch'[g] = session[p].verdict
           /\ session[p].verdict \in {"COMMITTED"} \cup Terminal
      /\ UNCHANGED <<checkout, origin, worker, staged>>
  BY <1>1, TransitionMoves DEF targets
<1>3. batch'[g] = "COMMITTED" => Seen(g)
  BY <1>2 DEF Seen, Asked
<1>4. Seen(g)' => Seen(g) \/ checkout = g
  BY <1>1, <1>2, <1>3, Known DEF Over, Idle
<1>5. Moves(p, g)
  BY <1>2, <1>4 DEF Moves, Over, Terminal
<1>. QED BY <1>2, <1>5, IdleFits DEF Suits

LEMMA RefusalSuits ==
    ASSUME IInv, NEW k \in Capabilities, consumed = {k}, \A r \in Processes : Asked(r),
           NEW p \in Processes, Consume(p), UNCHANGED consumed, Delivery(Attests[k])
    PROVE  Suits(p, Attests[k])
<1> DEFINE g == Attests[k]
<1>1. g \in Generations /\ p \notin Rollbackers
  BY Single, ConsumeMoves DEF IInv, Sound
<1>2. /\ session[p].phase = "consuming"
      /\ UNCHANGED <<batch, checkout, origin, worker, staged>>
      /\ Now(p, "reading", "refused")
  BY ConsumeMoves DEF store, targets
<1>3. Seen(g)' => Seen(g) \/ checkout = g
  BY <1>1, <1>2, ConsumeMoves, Unlearned
<1>4. Moves(p, g)
  BY <1>2, <1>3 DEF Moves, Now, Becomes
<1>5. Fits(p, g)'
  BY <1>1, <1>2 DEF Now, Becomes, Fits, Forward
<1>. QED BY <1>4, <1>5 DEF Suits

\* What the executor finds before it writes.
LEMMA AtWork ==
    ASSUME IInv, NEW k \in Capabilities, consumed = {k}, \A r \in Processes : Asked(r),
           NEW p \in Processes, Delivery(Attests[k]),
           session[p].phase \in Paying \cup Restoring
    PROVE  /\ Attests[k] \in Generations /\ Attests[k] # Initially
           /\ Attests[k] # None /\ Initially # None
           /\ Fits(p, Attests[k]) /\ Writes(p)
           /\ session[p].gen = Attests[k] /\ session[p].snap = Initially
           /\ session[p].phase \in Paying => p \in Deliverers /\ p \notin Rollbackers
           /\ staged \in [Generations -> Products \cup {None}]
<1>1. Writes(p) /\ Asked(p)
  BY DEF Writes, Paid, Processes, Paying, Restoring
<1>. QED BY <1>1, Single DEF Delivery, Asked, Processes, IInv, StoresSound

LEMMA StageSuits ==
    ASSUME IInv, NEW k \in Capabilities, consumed = {k}, \A r \in Processes : Asked(r),
           NEW p \in Processes, Stage(p), Delivery(Attests[k])
    PROVE  Suits(p, Attests[k])
<1> DEFINE g == Attests[k]
<1>1. /\ session[p].phase = "staging" /\ session[p].phase \in Paying \cup Restoring
      /\ UNCHANGED <<batch, checkout, origin, worker>>
  BY StageMoves DEF store, Paying
<1>2. /\ g \in Generations /\ g # Initially /\ g # None
      /\ Fits(p, g) /\ Writes(p) /\ Forward(p)
      /\ session[p].gen = g
      /\ p \notin Rollbackers
      /\ staged \in [Generations -> Products \cup {None}]
  BY <1>1, AtWork DEF Paying, Forward
<1>3. \/ staged'[g] = g /\ Now(p, "writing", session[p].why)
      \/ staged'[g] = None /\ Now(p, "reading", "undone")
      \/ staged'[g] \in {staged[g], g} /\ Verdict(p, "FAILED")
  BY <1>2, StageMoves
<1>4. Seen(g)' => Seen(g) \/ checkout = g
  BY <1>1, <1>2, StageMoves, Unlearned
<1>5. Moves(p, g)
  BY <1>1, <1>2, <1>3, <1>4 DEF Moves, Now, Verdict, Becomes
<1>6. origin' = Initially /\ checkout' = Initially /\ ~Seen(g)'
  BY <1>1, <1>2, <1>4 DEF Fits
<1>7. Fits(p, g)'
  BY <1>2, <1>3, <1>6 DEF Now, Verdict, Becomes, Fits
<1>. QED BY <1>5, <1>7 DEF Suits

LEMMA WriteSuits ==
    ASSUME IInv, NEW k \in Capabilities, consumed = {k}, \A r \in Processes : Asked(r),
           NEW p \in Processes, Write(p), Delivery(Attests[k])
    PROVE  Suits(p, Attests[k])
<1> DEFINE g == Attests[k]
<1>1. /\ session[p].phase = "writing" /\ session[p].phase \in Paying \cup Restoring
      /\ UNCHANGED <<batch, checkout, origin, staged>>
  BY WriteMoves DEF store, Paying
<1>2. /\ g \in Generations /\ g # Initially /\ g # None
      /\ Fits(p, g) /\ Writes(p) /\ Forward(p)
      /\ session[p].gen = g
      /\ p \notin Rollbackers
  BY <1>1, AtWork DEF Paying, Forward
<1>3. \/ worker' = g /\ Now(p, "committing", session[p].why)
      \/ worker' \in {worker, g} /\ Now(p, "unwriting", "undone")
  BY <1>2, WriteMoves
<1>4. Seen(g)' => Seen(g) \/ checkout = g
  BY <1>1, <1>2, WriteMoves, Unlearned
<1>5. Moves(p, g)
  BY <1>1, <1>2, <1>3, <1>4 DEF Moves, Now, Becomes
<1>6. origin' = Initially /\ checkout' = Initially /\ ~Seen(g)' /\ staged'[g] = g
  BY <1>1, <1>2, <1>4 DEF Fits
<1>7. Fits(p, g)'
  BY <1>2, <1>3, <1>6 DEF Now, Becomes, Fits
<1>. QED BY <1>5, <1>7 DEF Suits

LEMMA CommitSuits ==
    ASSUME IInv, NEW k \in Capabilities, consumed = {k}, \A r \in Processes : Asked(r),
           NEW p \in Processes, Commit(p), Delivery(Attests[k])
    PROVE  Suits(p, Attests[k])
<1> DEFINE g == Attests[k]
<1>1. /\ session[p].phase = "committing" /\ session[p].phase \in Paying \cup Restoring
      /\ UNCHANGED <<batch, checkout, worker, staged>>
  BY CommitMoves DEF store, Paying
<1>2. /\ g \in Generations /\ g # Initially /\ g # None
      /\ Fits(p, g) /\ Writes(p) /\ Forward(p)
      /\ session[p].gen = g
      /\ p \notin Rollbackers
  BY <1>1, AtWork DEF Paying, Forward
<1>3. /\ origin = Initially /\ checkout = Initially /\ ~Seen(g)
      /\ staged[g] = g /\ worker = g
  BY <1>1, <1>2 DEF Fits
<1>4. /\ origin' \in {origin, g}
      /\ \/ origin' = g /\ Now(p, "reading", "delivered")
         \/ Now(p, "unwriting", "required")
  BY <1>2, <1>3, CommitMoves
<1>5. Seen(g)' => Seen(g) \/ checkout = g
  BY <1>1, <1>2, CommitMoves, Unlearned
<1>6. Moves(p, g)
  BY <1>1, <1>2, <1>4, <1>5 DEF Moves, Now, Becomes
<1>7. Fits(p, g)'
  BY <1>1, <1>2, <1>3, <1>4 DEF Now, Becomes, Fits, Forward
<1>. QED BY <1>6, <1>7 DEF Suits

LEMMA UnwriteSuits ==
    ASSUME IInv, NEW k \in Capabilities, consumed = {k}, \A r \in Processes : Asked(r),
           NEW p \in Processes, Unwrite(p), Delivery(Attests[k])
    PROVE  Suits(p, Attests[k])
<1> DEFINE g == Attests[k]
<1>1. /\ session[p].phase = "unwriting" /\ session[p].phase \in Paying \cup Restoring
      /\ UNCHANGED <<batch, checkout, origin, staged>>
  BY UnwriteMoves DEF store, Paying
<1>2. /\ g \in Generations /\ g # Initially /\ g # None
      /\ Fits(p, g) /\ Writes(p)
      /\ session[p].snap = Initially
      /\ p \notin Rollbackers
  BY <1>1, AtWork DEF Paying
<1>3. /\ worker' \in {worker, Initially}
      /\ \/ Now(p, "unstaging", session[p].why)
         \/ Now(p, "unstaging", "required")
  BY <1>2, UnwriteMoves
<1>4. Seen(g)' => Seen(g) \/ checkout = g
  BY <1>1, <1>2, UnwriteMoves, Unlearned
<1>5. Moves(p, g)
  BY <1>1, <1>2, <1>3, <1>4 DEF Moves, Now, Becomes
<1>6. Forward(p) => ~Seen(g)'
  BY <1>2, <1>4 DEF Fits
<1>7. Fits(p, g)'
  BY <1>1, <1>2, <1>3, <1>6 DEF Now, Becomes, Fits, Forward
<1>. QED BY <1>5, <1>7 DEF Suits

LEMMA UnstageSuits ==
    ASSUME IInv, NEW k \in Capabilities, consumed = {k}, \A r \in Processes : Asked(r),
           NEW p \in Processes, Unstage(p), Delivery(Attests[k])
    PROVE  Suits(p, Attests[k])
<1> DEFINE g == Attests[k]
<1>1. /\ session[p].phase = "unstaging" /\ session[p].phase \in Paying \cup Restoring
      /\ UNCHANGED <<batch, checkout, origin, worker>>
  BY UnstageMoves DEF store, Paying
<1>2. /\ g \in Generations /\ g # Initially /\ g # None
      /\ Fits(p, g) /\ Writes(p)
      /\ session[p].gen = g
      /\ p \notin Rollbackers
      /\ staged \in [Generations -> Products \cup {None}]
  BY <1>1, AtWork DEF Paying
<1>3. /\ staged'[g] \in {staged[g], None}
      /\ \/ session[p].why = "undone" /\ Now(p, "reading", "undone")
         \/ Verdict(p, "FAILED")
  BY <1>2, UnstageMoves
<1>4. Seen(g)' => Seen(g) \/ checkout = g
  BY <1>1, <1>2, UnstageMoves, Unlearned
<1>5. Moves(p, g)
  BY <1>1, <1>2, <1>3, <1>4 DEF Moves, Now, Verdict, Becomes
<1>6. Forward(p) => ~Seen(g)'
  BY <1>2, <1>4 DEF Fits
<1>7. Fits(p, g)'
  BY <1>1, <1>2, <1>3, <1>6 DEF Now, Verdict, Becomes, Fits, Forward
<1>. QED BY <1>5, <1>7 DEF Suits

LEMMA RestageSuits ==
    ASSUME IInv, NEW k \in Capabilities, consumed = {k}, \A r \in Processes : Asked(r),
           NEW p \in Processes, Restage(p), Delivery(Attests[k])
    PROVE  Suits(p, Attests[k])
<1> DEFINE g == Attests[k]
<1>1. /\ session[p].phase = "restaging" /\ session[p].phase \in Paying \cup Restoring
      /\ UNCHANGED <<batch, checkout, origin, worker>>
  BY RestageMoves DEF store, Restoring
<1>2. /\ g \in Generations /\ g # Initially /\ g # None
      /\ Fits(p, g) /\ Writes(p)
      /\ session[p].gen = g /\ session[p].snap = Initially
      /\ Deliverers \cap Rollbackers = {}
      /\ staged \in [Generations -> Products \cup {None}]
  BY <1>1, AtWork, DeliveryAssumptions DEF DeliveryAssumptions
<1>3. \/ staged'[g] = Initially /\ Now(p, "rewriting", session[p].why)
      \/ /\ staged'[g] \in {staged[g], Initially, None}
         /\ \/ p \in Rollbackers /\ Now(p, "reading", "restored")
            \/ p \in Deliverers /\ Verdict(p, "FAILED")
  BY <1>2, RestageMoves
<1>4. Seen(g)' => Seen(g) \/ checkout = g
  BY <1>1, <1>2, RestageMoves, Unlearned
<1>5. Moves(p, g)
  BY <1>1, <1>2, <1>3, <1>4 DEF Moves, Now, Verdict, Becomes
<1>6. Forward(p) => ~Seen(g)'
  BY <1>2, <1>4 DEF Fits
<1>7. Fits(p, g)'
  BY <1>1, <1>2, <1>3, <1>6 DEF Now, Verdict, Becomes, Fits, Forward
<1>. QED BY <1>5, <1>7 DEF Suits

LEMMA RewriteSuits ==
    ASSUME IInv, NEW k \in Capabilities, consumed = {k}, \A r \in Processes : Asked(r),
           NEW p \in Processes, Rewrite(p), Delivery(Attests[k])
    PROVE  Suits(p, Attests[k])
<1> DEFINE g == Attests[k]
<1>1. /\ session[p].phase = "rewriting" /\ session[p].phase \in Paying \cup Restoring
      /\ UNCHANGED <<batch, checkout, origin>>
  BY RewriteMoves DEF store, Restoring
<1>2. /\ g \in Generations /\ g # Initially /\ g # None
      /\ Fits(p, g) /\ Writes(p)
      /\ session[p].gen = g /\ session[p].snap = Initially
      /\ Deliverers \cap Rollbackers = {}
      /\ staged \in [Generations -> Products \cup {None}]
  BY <1>1, AtWork, DeliveryAssumptions DEF DeliveryAssumptions
<1>3. /\ worker' \in {worker, Initially}
      /\ \/ UNCHANGED staged /\ Now(p, "recommitting", session[p].why)
         \/ /\ staged'[g] \in {staged[g], None}
            /\ \/ p \in Rollbackers /\ Now(p, "reading", "restored")
               \/ p \in Deliverers /\ Verdict(p, "FAILED")
  BY <1>2, RewriteMoves
<1>4. Seen(g)' => Seen(g) \/ checkout = g
  BY <1>1, <1>2, RewriteMoves, Unlearned
<1>5. Moves(p, g)
  BY <1>1, <1>2, <1>3, <1>4 DEF Moves, Now, Verdict, Becomes
<1>6. Forward(p) => ~Seen(g)'
  BY <1>2, <1>4 DEF Fits
<1>7. Fits(p, g)'
  BY <1>1, <1>2, <1>3, <1>6 DEF Now, Verdict, Becomes, Fits, Forward
<1>. QED BY <1>5, <1>7 DEF Suits

LEMMA RecommitSuits ==
    ASSUME IInv, NEW k \in Capabilities, consumed = {k}, \A r \in Processes : Asked(r),
           NEW p \in Processes, Recommit(p), Delivery(Attests[k])
    PROVE  Suits(p, Attests[k])
<1> DEFINE g == Attests[k]
<1>1. /\ session[p].phase = "recommitting" /\ session[p].phase \in Paying \cup Restoring
      /\ UNCHANGED <<batch, checkout, worker>>
  BY RecommitMoves DEF store, Restoring
<1>2. /\ g \in Generations /\ g # Initially /\ g # None
      /\ Fits(p, g) /\ Writes(p)
      /\ session[p].gen = g
      /\ Deliverers \cap Rollbackers = {}
      /\ staged \in [Generations -> Products \cup {None}]
      /\ staged[g] \in {g, Initially, None}
  BY <1>1, AtWork, DeliveryAssumptions DEF DeliveryAssumptions, Delivery
<1>3. staged[g] \in {Initially, None}
  BY <1>1, <1>2 DEF Fits
<1>4. /\ origin' \in {origin, Initially}
      /\ \/ /\ origin' = Initially /\ UNCHANGED staged
            /\ Now(p, "reading", "restored")
         \/ /\ staged'[g] \in {staged[g], None}
            /\ \/ p \in Rollbackers /\ Now(p, "reading", "restored")
               \/ p \in Deliverers /\ Verdict(p, "FAILED")
  BY <1>2, <1>3, RecommitMoves
<1>5. Seen(g)' => Seen(g) \/ checkout = g
  BY <1>1, <1>2, RecommitMoves, Unlearned
<1>6. Moves(p, g)
  BY <1>1, <1>2, <1>4, <1>5 DEF Moves, Now, Verdict, Becomes
<1>7. Forward(p) => ~Seen(g)'
  BY <1>2, <1>5 DEF Fits
<1>8. Fits(p, g)'
  BY <1>1, <1>2, <1>4, <1>7 DEF Now, Verdict, Becomes, Fits, Forward
<1>. QED BY <1>6, <1>8 DEF Suits

\* Every step of a process by which nothing is consumed suits the delivery.
LEMMA StepSuits ==
    ASSUME IInv, NEW k \in Capabilities, consumed = {k}, \A r \in Processes : Asked(r),
           NEW p \in Processes, Step(p) \/ Fault(p), UNCHANGED consumed,
           Delivery(Attests[k])
    PROVE  Suits(p, Attests[k])
<1>1. ASSUME Crash(p)
      PROVE  Suits(p, Attests[k])
  <2>1. Attests[k] \in Generations
    BY Single
  <2>2. Over(p) /\ UNCHANGED <<batch, checkout, origin, worker, staged>>
    BY <1>1, CrashMoves DEF store
  <2>3. Seen(Attests[k])' => Seen(Attests[k]) \/ checkout = Attests[k]
    BY <2>1, <2>2, Known, DeliveryAssumptions
    DEF Over, Idle, DeliveryAssumptions, Products, Seen
  <2>. QED BY <2>2, <2>3, IdleFits DEF Suits, Moves, Over
<1>. QED BY <1>1, LoadSuits, ReadStaticSuits, ReadWorkerSuits, ReadFailsSuits,
         TransitionSuits, RefusalSuits, StageSuits, WriteSuits, CommitSuits,
         UnwriteSuits, UnstageSuits, RestageSuits, RewriteSuits, RecommitSuits
      DEF Step, Fault

\* A process that is started.
LEMMA PrepareMoves ==
    ASSUME IInv, NEW p \in Deliverers, NEW s \in Products, NEW c \in Capabilities,
           Prepare(p, s, c)
    PROVE  /\ \A q \in Processes : q # p => session'[q] = session[q]
           /\ session'[p].phase = "loading" /\ session'[p].why = "none"
           /\ session'[p].static = None
           /\ \A g \in Generations : batch'[g] # batch[g] =>
                batch[g] = "ABSENT" /\ batch'[g] = "PREPARING"
           /\ UNCHANGED <<tokens, targets, drift>>
<1>1. session \in [Processes -> Sessions] /\ batch \in [Generations -> States]
  BY DEF IInv, StoresSound
<1>. QED BY <1>1 DEF Prepare, Idle, Processes

LEMMA CommandMoves ==
    ASSUME IInv, NEW p \in Rollbackers, NEW h \in Generations, Command(p, h)
    PROVE  /\ \A q \in Processes : q # p => session'[q] = session[q]
           /\ session'[p].phase = "reading" /\ session'[p].why = "ordered"
           /\ session'[p].static = None
           /\ session[p].phase = "idle"
           /\ batch[h] = "COMMITTED" /\ Accounted(h)
           /\ UNCHANGED <<store, tokens, targets, drift>>
<1>1. session \in [Processes -> Sessions] /\ StoresSound
  BY DEF IInv, StoresSound
<1>. QED BY <1>1 DEF Command, Idle, Processes, In, StoresSound

LEMMA CallSuits ==
    ASSUME IInv, NEW k \in Capabilities, consumed = {k}, \A r \in Processes : Asked(r),
           Delivery(Attests[k]), Call
    PROVE  Delivery(Attests[k])'
<1> DEFINE g == Attests[k]
<1>1. g \in Generations /\ g # None /\ Deliverers \cap Rollbackers = {}
  BY Single, DeliveryAssumptions DEF DeliveryAssumptions
<1>2. CASE \E c \in Capabilities : Issue(c)
  BY <1>2 DEF Issue, Delivery, Fits, Forward, Seen, In, store, targets
<1>3. ASSUME NEW p \in Deliverers, NEW s \in Products, NEW c \in Capabilities,
             Prepare(p, s, c)
      PROVE  Delivery(g)'
  <2>1. /\ p \in Processes /\ p \notin Rollbackers
        /\ \A q \in Processes : q # p => session'[q] = session[q]
        /\ session'[p].phase = "loading" /\ session'[p].why = "none"
        /\ session'[p].static = None
        /\ batch'[g] # batch[g] => batch[g] = "ABSENT" /\ batch'[g] = "PREPARING"
        /\ UNCHANGED <<checkout, origin, worker, staged>>
    BY <1>1, <1>3, PrepareMoves DEF Processes, targets
  <2>2. Seen(g)' => Seen(g) \/ checkout = g
    BY <1>1, <2>1, Known DEF Seen
  <2>3. Moves(p, g)
    BY <2>1, <2>2 DEF Moves
  <2>4. Fits(p, g)'
    BY <2>1 DEF Fits, Forward
  <2>. QED BY <2>1, <2>3, <2>4, DeliveryGoesOn
<1>4. ASSUME NEW p \in Rollbackers, NEW h \in Generations, Command(p, h)
      PROVE  Delivery(g)'
  <2>1. /\ p \in Processes /\ p \notin Deliverers
        /\ \A q \in Processes : q # p => session'[q] = session[q]
        /\ session'[p].phase = "reading" /\ session'[p].why = "ordered"
        /\ session'[p].static = None
        /\ batch[h] = "COMMITTED" /\ Accounted(h)
        /\ UNCHANGED <<batch, checkout, origin, worker, staged>>
    BY <1>1, <1>4, CommandMoves DEF Processes, targets, store
  <2>2. batch[g] = "COMMITTED"
    BY <2>1 DEF Accounted
  <2>3. Moves(p, g)
    BY <2>1, <2>2 DEF Moves, Seen
  <2>4. Fits(p, g)'
    BY <2>1, <2>2 DEF Fits, Forward
  <2>. QED BY <2>1, <2>3, <2>4, DeliveryGoesOn
<1>. QED BY <1>2, <1>3, <1>4 DEF Call

\* The active checkout catches up with what was pushed.
LEMMA PullSuits ==
    ASSUME NEW k \in Capabilities, Delivery(Attests[k]), Pull, Attests[k] # Initially
    PROVE  Delivery(Attests[k])'
<1> DEFINE g == Attests[k]
<1>1. /\ checkout' = origin
      /\ UNCHANGED <<batch, origin, worker, staged, session>>
  BY DEF Pull, store
<1>2. Seen(g)' <=> Seen(g)
  BY <1>1 DEF Seen, In
<1>3. \A p \in Processes : Fits(p, g)'
  <2>. SUFFICES ASSUME NEW p \in Processes
                PROVE  Fits(p, g)'
    OBVIOUS
  <2>1. Fits(p, g) /\ (Forward(p)' <=> Forward(p))
    BY <1>1 DEF Delivery, Forward
  <2>. QED BY <1>1, <1>2, <2>1 DEF Fits
<1>. QED BY <1>1, <1>2, <1>3 DEF Delivery

-----------------------------------------------------------------------------
(* Before the delivery *)

\* Nobody has any business with the targets yet.
LEMMA NobodyYet ==
    ASSUME IInv, consumed = {}, \A r \in Processes : Asked(r)
    PROVE  /\ \A g \in Generations : ~Accounted(g)
           /\ \A p \in Processes : ~Writes(p) /\ session[p].static \notin Generations
           /\ \A p \in Processes : session[p].phase \notin Paying \cup Restoring
<1>1. \A g \in Generations : ~Accounted(g)
  BY DEF Accounted
<1>2. ASSUME NEW p \in Processes
      PROVE  ~Writes(p) /\ session[p].static \notin Generations
  BY <1>1 DEF IInv, Sound, Writes, Counted, Processes, Paid
<1>3. ASSUME NEW p \in Processes, session[p].phase \in Paying \cup Restoring
      PROVE  FALSE
  BY <1>2, <1>3 DEF Writes, Paid, Processes, Paying, Restoring
<1>. QED BY <1>1, <1>2, <1>3

LEMMA UntouchedStep ==
    ASSUME IInv, consumed = {}, \A r \in Processes : Asked(r), Untouched,
           NEW p \in Processes, Step(p) \/ Fault(p), UNCHANGED consumed
    PROVE  Untouched'
<1> DEFINE Still == /\ UNCHANGED <<origin, checkout, worker, staged>>
                    /\ \A q \in Processes : q # p => session'[q] = session[q]
                    /\ session'[p].phase = "consuming" =>
                         session'[p].snap = worker
<1>1. session[p].phase \notin Paying \cup Restoring
  BY NobodyYet
<1>2. CASE Load(p)
  <2>. Still
    BY <1>2, LoadMoves DEF Now, Becomes, Over, Idle, targets
  <2>. QED BY DEF Untouched, In
<1>3. CASE ReadStatic(p)
  <2>. Still
    BY <1>3, ReadStaticMoves DEF Becomes, targets
  <2>. QED BY DEF Untouched, In
<1>4. CASE ReadWorker(p)
  <2>. Still
    BY <1>4, ReadWorkerMoves DEF Now, Verdict, Becomes, Over, Idle, targets
  <2>. QED BY DEF Untouched, In
<1>5. CASE Transition(p)
  <2>. Still
    BY <1>5, TransitionMoves DEF Over, Idle, targets
  <2>. QED BY DEF Untouched, In
<1>6. CASE Consume(p)
  <2>. Still
    BY <1>6, ConsumeMoves DEF Now, Becomes, targets
  <2>. QED BY DEF Untouched, In
<1>7. CASE ReadFails(p)
  <2>. Still
    BY <1>7, ReadFailsMoves DEF Now, Verdict, Becomes, Over, Idle, targets
  <2>. QED BY DEF Untouched, In
<1>8. CASE Crash(p)
  <2>. Still
    BY <1>8, CrashMoves DEF Over, Idle, targets
  <2>. QED BY DEF Untouched, In
<1>. QED BY <1>1, <1>2, <1>3, <1>4, <1>5, <1>6, <1>7, <1>8, StageMoves, WriteMoves,
         CommitMoves, UnwriteMoves, UnstageMoves, RestageMoves, RewriteMoves, RecommitMoves
      DEF Step, Fault, Paying, Restoring

LEMMA UntouchedCall ==
    ASSUME IInv, consumed = {}, Untouched, Call
    PROVE  Untouched'
<1>1. CASE \E c \in Capabilities : Issue(c)
  BY <1>1 DEF Issue, Untouched, In, targets
<1>2. ASSUME NEW p \in Deliverers, NEW s \in Products, NEW c \in Capabilities,
             Prepare(p, s, c)
      PROVE  Untouched'
  BY <1>2, PrepareMoves DEF Untouched, In, Processes, targets
<1>3. ASSUME NEW p \in Rollbackers, NEW h \in Generations, Command(p, h)
      PROVE  Untouched'
  BY <1>3, CommandMoves DEF Untouched, In, Processes, targets
<1>. QED BY <1>1, <1>2, <1>3 DEF Call

\* The first capability is consumed: a delivery begins.
LEMMA Begins ==
    ASSUME IInv, consumed = {}, \A r \in Processes : Asked(r), Untouched,
           NEW p \in Processes, Consume(p), ~UNCHANGED consumed,
           NEW c \in Capabilities, c = session[p].token
    PROVE  consumed' = {c} /\ Delivery(Attests[c])'
<1> DEFINE g == Attests[c]
<1>1. /\ session[p].phase = "consuming"
      /\ consumed' = consumed \cup {c}
      /\ Now(p, "staging", session[p].why)
      /\ UNCHANGED <<batch, checkout, origin, worker, staged>>
  BY ConsumeMoves DEF store, targets
<1>2. /\ Sound(p) /\ p \in Deliverers /\ p \notin Rollbackers
      /\ session[p].why = "guard"
      /\ g \in Generations /\ g # Initially /\ g # None
      /\ Source[g] = session[p].snap
  BY <1>1, DeliveryAssumptions DEF DeliveryAssumptions, Products, IInv, Sound, Processes
<1>3. /\ \A h \in Generations : ~Accounted(h)
      /\ \A q \in Processes : ~Writes(q) /\ session[q].static \notin Generations
      /\ \A q \in Processes : session[q].phase \notin Paying \cup Restoring
  BY NobodyYet
<1>4. /\ origin' = Initially /\ checkout' = Initially /\ worker' = Initially
      /\ staged'[g] = None /\ Source[g] = Initially
  BY <1>1, <1>2 DEF Untouched, In
<1>5. batch'[g] # "COMMITTED"
  BY <1>1, <1>2, <1>3 DEF IInv, StoresSound
<1>6. /\ session'[p].phase = "staging" /\ session'[p].why = "guard"
      /\ session'[p].static = session[p].static
      /\ \A q \in Processes : q # p => session'[q] = session[q]
  BY <1>1, <1>2 DEF Now, Becomes
<1>7. ~Seen(g)'
  <2>1. \A q \in Processes : session'[q].static # g
    BY <1>2, <1>3, <1>6
  <2>2. \A q \in Rollbackers : session'[q].phase = "idle"
    BY <1>2, <1>3, <1>6 DEF Writes, Processes
  <2>. QED BY <1>5, <2>1, <2>2 DEF Seen, In
<1>8. Fits(p, g)'
  BY <1>2, <1>4, <1>6, <1>7 DEF Fits, Forward
<1>9. ASSUME NEW q \in Processes, q # p
      PROVE  Fits(q, g)'
  <2>1. /\ session'[q] = session[q] /\ Asked(q) /\ ~Writes(q)
        /\ q \in Deliverers \/ q \in Rollbackers
        /\ session[q].phase \notin Paying \cup Restoring
    BY <1>3, <1>6, <1>9 DEF Processes
  <2>2. /\ session[q].why \notin {"delivered", "undone", "restored"}
        /\ q \in Rollbackers => session[q].phase = "idle"
    BY <2>1 DEF Writes, Paid, Asked
  <2>. QED BY <2>1, <2>2 DEF Fits, Forward, Paying, Restoring, Asked
<1>10. \A q \in Processes : Fits(q, g)'
  BY <1>8, <1>9
<1>11. Delivery(g)'
  BY <1>4, <1>7, <1>10 DEF Delivery
<1>. QED BY <1>1, <1>2, <1>11

-----------------------------------------------------------------------------
(* Verdicts are true *)

LEMMA VerdictInitial ==
    ASSUME Init
    PROVE  VInv
<1>1. \A p \in Processes : session[p] = Idle
  BY DEF Init
<1>2. \A p \in Processes : Asked(p) /\ ~In(p, "consuming")
  BY <1>1, IdleAsked DEF In, Idle
<1>3. Untouched
  BY <1>2 DEF Init, Untouched
<1>4. IsFiniteSet(consumed) /\ consumed = {}
  BY FS_EmptySet DEF Init
<1>. QED BY <1>2, <1>3, <1>4 DEF VInv

LEMMA AskedPreserved ==
    ASSUME IInv, \A p \in Processes : Asked(p), [Next]_vars
    PROVE  \A p \in Processes : Asked(p)'
<1>1. ASSUME NEW p \in Processes, Step(p) \/ Fault(p)
      PROVE  \A q \in Processes : Asked(q)'
  <2>1. \A q \in Processes : q # p => session'[q] = session[q]
    BY <1>1, LoadMoves, ReadStaticMoves, ReadWorkerMoves, ReadFailsMoves,
       TransitionMoves, ConsumeMoves, StageMoves, WriteMoves, CommitMoves,
       UnwriteMoves, UnstageMoves, RestageMoves, RewriteMoves, RecommitMoves, CrashMoves
    DEF Step, Fault, Now, Verdict, Becomes, Over
  <2>. QED BY <1>1, <2>1, AskedStep, AskedStays
<1>2. ASSUME NEW p \in Deliverers, NEW s \in Products, NEW c \in Capabilities,
             Prepare(p, s, c)
      PROVE  \A q \in Processes : Asked(q)'
  <2>1. p \notin Rollbackers
    BY DeliveryAssumptions DEF DeliveryAssumptions
  <2>2. Asked(p)'
    BY <1>2, <2>1, PrepareMoves DEF Asked
  <2>. QED BY <1>2, <2>2, PrepareMoves, AskedStays
<1>3. ASSUME NEW p \in Rollbackers, NEW h \in Generations, Command(p, h)
      PROVE  \A q \in Processes : Asked(q)'
  <2>1. Asked(p)'
    BY <1>3, CommandMoves DEF Asked, Paying
  <2>. QED BY <1>3, <2>1, CommandMoves, AskedStays
<1>4. CASE UNCHANGED session
  BY <1>4, AskedStays
<1>. QED BY <1>1, <1>2, <1>3, <1>4 DEF Next, Call, World, Issue, Pull, Drift, vars

\* Which steps consume a capability, and which disturb.
LEMMA Consumption ==
    ASSUME IInv, [Next]_vars
    PROVE  /\ \/ UNCHANGED consumed
              \/ \E p \in Processes : /\ Consume(p) /\ ~UNCHANGED consumed
                                      /\ session[p].token \in Capabilities
                                      /\ session[p].token \notin consumed
                                      /\ consumed' = consumed \cup {session[p].token}
           /\ drift' = 0 => UNCHANGED drift
<1>1. drift \in Nat
  BY DEF IInv, StoresSound
<1>2. ASSUME NEW p \in Processes, Consume(p)
      PROVE  session[p].token \in Capabilities
  BY <1>2, ConsumeMoves DEF IInv, Sound, Processes
<1>3. ASSUME NEW p \in Processes, Step(p) \/ Fault(p), ~Consume(p)
      PROVE  UNCHANGED <<consumed, drift>>
  BY <1>3 DEF Step, Fault, Load, ReadStatic, ReadWorker, Transition, Stage, Write, Commit,
              Unwrite, Unstage, Restage, Rewrite, Recommit, ReadFails, Crash, tokens
<1>4. CASE UNCHANGED <<consumed, drift>>
  BY <1>4
<1>5. CASE \E p \in Processes : Consume(p)
  BY <1>2, <1>5, ConsumeMoves
<1>6. CASE \E product \in Ordinary : Drift(product)
  BY <1>1, <1>6 DEF Drift, tokens
<1>7. CASE Pull \/ Call
  BY <1>4, <1>7 DEF Pull, Call, Issue, Prepare, Command, tokens
<1>. QED BY <1>3, <1>4, <1>5, <1>6, <1>7 DEF Next, World, vars, tokens

LEMMA VerdictPreserved ==
    ASSUME IInv, VInv, [Next]_vars
    PROVE  VInv'
<1>1. \A p \in Processes : Asked(p)
  BY DEF VInv
<1>2. \A p \in Processes : Asked(p)'
  BY <1>1, AskedPreserved
<1>3. IsFiniteSet(consumed')
  BY Consumption, FS_AddElement DEF VInv
<1>4. ASSUME drift' = 0
      PROVE  /\ consumed' = {} => Untouched'
             /\ \A k \in Capabilities : consumed' = {k} => Delivery(Attests[k])'
  <2>1. drift = 0 /\ UNCHANGED drift
    BY <1>4, Consumption
  <2>2. ~\E product \in Ordinary : Drift(product)
    BY <2>1 DEF Drift
  <2>3. CASE \E p \in Processes : /\ Consume(p) /\ ~UNCHANGED consumed
                                  /\ session[p].token \in Capabilities
                                  /\ session[p].token \notin consumed
                                  /\ consumed' = consumed \cup {session[p].token}
    <3>1. PICK p \in Processes : /\ Consume(p) /\ ~UNCHANGED consumed
                                 /\ session[p].token \in Capabilities
                                 /\ session[p].token \notin consumed
                                 /\ consumed' = consumed \cup {session[p].token}
      BY <2>3
    <3>2. ASSUME NEW k \in Capabilities, consumed' = {k}
          PROVE  Delivery(Attests[k])'
      <4>1. consumed = {} /\ k = session[p].token
        BY <3>1, <3>2
      <4>2. Untouched
        BY <2>1, <4>1 DEF VInv
      <4>. QED BY <1>1, <3>1, <4>1, <4>2, Begins
    <3>. QED BY <3>1, <3>2
  <2>4. CASE UNCHANGED consumed
    <3>1. ASSUME consumed = {}
          PROVE  Untouched'
      <4>1. Untouched
        BY <2>1, <3>1 DEF VInv
      <4>2. CASE Pull \/ UNCHANGED vars
        BY <4>1, <4>2 DEF Pull, Untouched, In, vars, targets
      <4>. QED BY <1>1, <2>2, <2>4, <3>1, <4>1, <4>2, UntouchedStep, UntouchedCall
               DEF Next, World
    <3>2. ASSUME NEW k \in Capabilities, consumed = {k}
          PROVE  Delivery(Attests[k])'
      <4>1. Delivery(Attests[k])
        BY <2>1, <3>2 DEF VInv
      <4>2. ASSUME NEW p \in Processes, Step(p) \/ Fault(p)
            PROVE  Delivery(Attests[k])'
        BY <1>1, <2>4, <3>2, <4>1, <4>2, StepSuits, DeliveryGoesOn DEF Suits
      <4>3. CASE Call
        BY <1>1, <3>2, <4>1, <4>3, CallSuits
      <4>4. CASE Pull
        BY <1>1, <3>2, <4>1, <4>4, Single, PullSuits
      <4>5. CASE UNCHANGED vars
        BY <4>1, <4>5 DEF vars, targets, store, Delivery, Fits, Forward, Seen, In
      <4>. QED BY <2>2, <4>2, <4>3, <4>4, <4>5 DEF Next, World
    <3>. QED BY <2>4, <3>1, <3>2
  <2>. QED BY <2>3, <2>4, Consumption
<1>. QED BY <1>2, <1>3, <1>4 DEF VInv

\* Every question that is asked has a reason, and one delivery that nobody
\* disturbs goes through the states Delivery lists.
THEOREM VerdictInvariance == Spec => []VInv
<1>1. Init => VInv
  BY VerdictInitial
<1>2. IInv /\ VInv /\ [Next]_vars => VInv'
  BY VerdictPreserved
<1>. QED BY <1>1, <1>2, DeliveryInvariance, PTL DEF Spec

\* In a step in which a process decides, it ends and records its verdict.
LEMMA Deciding ==
    ASSUME IInv, \A r \in Processes : Asked(r), [Next]_vars,
           NEW p \in Processes, NEW g \in Generations,
           NEW verdict \in {"COMMITTED", "ROLLED_BACK"}, Decides(p, g, verdict)
    PROVE  /\ session[p].phase = "recording" /\ session[p].gen = g
           /\ session[p].verdict = verdict
           /\ verdict = "COMMITTED" => batch[g] = "PREPARING" /\ session[p].why = "delivered"
           /\ verdict = "ROLLED_BACK" => session[p].why \in {"undone", "restored"}
           /\ UNCHANGED <<checkout, origin, worker>>
<1>1. /\ session[p].phase = "recording" /\ session[p].gen = g
      /\ session[p].why \notin {"entry", "refused"}
      /\ session'[p] = Idle /\ session'[p] # session[p]
      /\ batch'[g] = verdict /\ batch[g] # verdict
      /\ Asked(p)
  BY DEF Decides, In, Idle
<1>2. ~(World \/ UNCHANGED vars)
  BY <1>1 DEF World, Pull, Drift, vars
<1>3. ~Call
  <2>1. ASSUME NEW k \in Capabilities, Issue(k) PROVE FALSE
    BY <1>1, <2>1 DEF Issue
  <2>2. ASSUME NEW q \in Deliverers, NEW s \in Products, NEW c \in Capabilities,
               Prepare(q, s, c)
        PROVE  FALSE
    BY <1>1, <2>2, PrepareMoves
  <2>3. ASSUME NEW q \in Rollbackers, NEW h \in Generations, Command(q, h) PROVE FALSE
    BY <1>1, <2>3, CommandMoves DEF store
  <2>. QED BY <2>1, <2>2, <2>3 DEF Call
<1>4. PICK q \in Processes : Step(q) \/ Fault(q)
  BY <1>2, <1>3 DEF Next
<1>5. Transition(q)
  BY <1>1, <1>4, LoadMoves, ReadStaticMoves, ReadWorkerMoves, ReadFailsMoves, ConsumeMoves,
     StageMoves, WriteMoves, CommitMoves, UnwriteMoves, UnstageMoves, RestageMoves,
     RewriteMoves, RecommitMoves, CrashMoves
  DEF Step, Fault, store
<1>6. q = p
  BY <1>1, <1>5, TransitionMoves DEF Over
<1>7. session[p].verdict = verdict /\ (verdict = "COMMITTED" => batch[g] = "PREPARING")
      /\ UNCHANGED <<checkout, origin, worker>>
  BY <1>1, <1>5, <1>6, TransitionMoves DEF targets
<1>. QED BY <1>1, <1>7 DEF Asked

\* COMMITTED and ROLLED_BACK are true of the static site, the checkout and the
\* Worker when they are recorded, for any number of commands that overlap the
\* delivery, crash and are repeated.
THEOREM VerdictsReal == Spec => VerdictIsReal
<1>1. ASSUME IInv, VInv, [Next]_vars, NEW p \in Processes, NEW g \in Generations, Undisturbed
      PROVE  /\ Decides(p, g, "COMMITTED") => {origin, checkout, worker} = {g}
             /\ Decides(p, g, "ROLLED_BACK") => g \notin {origin, worker}
  <2>1. PICK k : consumed = {k}
    BY <1>1, FS_Singleton DEF Undisturbed, VInv
  <2>2. k \in Capabilities
    BY <1>1, <2>1 DEF IInv, StoresSound
  <2>3. Delivery(Attests[k]) /\ \A r \in Processes : Asked(r)
    BY <1>1, <2>1, <2>2 DEF VInv, Undisturbed
  <2>4. ASSUME NEW verdict \in {"COMMITTED", "ROLLED_BACK"}, Decides(p, g, verdict)
        PROVE  g = Attests[k] /\ g # Initially /\ Fits(p, g)
    <3>1. session[p].gen = g /\ Writes(p)
      BY <1>1, <2>3, <2>4, Deciding DEF Writes, Paid, Processes
    <3>. QED BY <1>1, <2>1, <2>2, <2>3, <3>1, Single DEF Delivery
  <2>5. ASSUME Decides(p, g, "COMMITTED")
        PROVE  {origin, checkout, worker} = {g}
    <3>1. origin = g /\ worker = g /\ checkout = g
      BY <1>1, <2>3, <2>4, <2>5, Deciding DEF Fits, Asked
    <3>. QED BY <3>1
  <2>6. ASSUME Decides(p, g, "ROLLED_BACK")
        PROVE  g \notin {origin, worker}
    BY <1>1, <2>3, <2>4, <2>6, Deciding DEF Fits
  <2>. QED BY <2>5, <2>6
<1>2. IInv /\ VInv /\ [Next]_vars =>
        [\A p \in Processes, g \in Generations : Undisturbed =>
           /\ Decides(p, g, "COMMITTED") => {origin, checkout, worker} = {g}
           /\ Decides(p, g, "ROLLED_BACK") => g \notin {origin, worker}]_vars
  BY <1>1
<1>. QED BY <1>2, DeliveryInvariance, VerdictInvariance, PTL DEF Spec, VerdictIsReal
=============================================================================
