---- MODULE PipelineSteps ----
(***************************************************************************)
(* What one step of a task does to the shared state of the barrier-phase   *)
(* model: _step_enabled, _arrive, _remove_first and _apply_step of         *)
(* exhaustive_checker.py, and its alias race check.  The operators take    *)
(* the parts of the state they need as arguments, as the code does; they   *)
(* are used by the machine of PipelineMachine and by the search of         *)
(* ExhaustiveChecker, which share the models considered and the one under  *)
(* exploration.                                                            *)
(***************************************************************************)
EXTENDS BarrierModel

CONSTANT Models     \* the barrier models (see BuildModel) of the programs considered

ASSUME ModelsAssumption == \A m \in Models : WellFormedModel(m)

\* The models are made by _precompute_steps, from schedules _verify_bracketing accepts.
ASSUME ProtocolAssumption == \A m \in Models : Precomputed(m) /\ Bracketed(m)

VARIABLE model      \* the model under exploration, fixed at the start

(***************************************************************************)
(* Barrier records.                                                        *)
(***************************************************************************)
Records(m) == UNION {{r} \X (0..(m.stages[r] - 1)) : r \in DOMAIN m.stages}

\* Full barriers start in phase 0, empty barriers in phase 1.
InitialRecord == [full  |-> [phase |-> 0, arrivals |-> 0],
                  empty |-> [phase |-> 1, arrivals |-> 0]]

InitialBarriers(m) == [rec \in Records(m) |-> InitialRecord]

\* Mistakes: the phase counts up instead of flipping; one arrival too many is awaited;
\* the first arrival is enough.
ArriveNoWrap(b, expected) ==
    IF b.arrivals + 1 >= expected
    THEN [phase |-> 1 + b.phase, arrivals |-> 0]
    ELSE [phase |-> b.phase, arrivals |-> b.arrivals + 1]

ArriveLate(b, expected) ==
    IF b.arrivals + 1 > expected
    THEN [phase |-> 1 - b.phase, arrivals |-> 0]
    ELSE [phase |-> b.phase, arrivals |-> b.arrivals + 1]

ArriveEarly(b, expected) == [phase |-> 1 - b.phase, arrivals |-> 0]

\* One arrival; the phase flips once all expected participants have arrived.
Arrive(b, expected) ==
    IF b.arrivals + 1 >= expected
    THEN [phase |-> 1 - b.phase, arrivals |-> 0]
    ELSE [phase |-> b.phase, arrivals |-> b.arrivals + 1]

\* A mistake: an acquire does not wait for the consumers.
StepEnabledNoAcquireGate(step, b) ==
    step.stage = "ConsumerWait" => b[<<step.rid, step.slot>>].full.phase # step.phase

\* A wait passes once the full barrier has left the phase its cursor names,
\* an acquire once the empty barrier has; no other stage blocks.
StepEnabled(step, b) ==
    /\ step.stage = "ConsumerWait"    => b[<<step.rid, step.slot>>].full.phase # step.phase
    /\ step.stage = "ProducerAcquire" => b[<<step.rid, step.slot>>].empty.phase # step.phase

BarriersAfter(m, step, b) ==
    LET rec == <<step.rid, step.slot>>
    IN  CASE step.stage = "ProducerCommit" ->
                [b EXCEPT ![rec].full = Arrive(@, m.producers[step.rid])]
          [] step.stage = "ConsumerRelease" ->
                [b EXCEPT ![rec].empty = Arrive(@, m.consumers[step.rid])]
          [] OTHER -> b

(***************************************************************************)
(* Held accesses.  The code keeps a sorted list of tuples; here they are a *)
(* set, and "at", the cursor of the step that created the entry, keeps     *)
(* equal tuples apart.                                                     *)
(***************************************************************************)
Entry(t, step, access, at) ==
    [task |-> t, rid |-> step.rid, access |-> access, slot |-> step.slot,
     tag |-> Untagged, at |-> at]

\* A mistake: the owner of the entry is ignored.
RemoveFirstOfAnyTask(h, t, step, access) ==
    LET match == {e \in h : e.rid = step.rid /\ e.access = access /\ e.slot = step.slot}
    IN  IF match = {} THEN h ELSE h \ {CHOOSE e \in match : TRUE}

\* _remove_first: drop the first of the task's matching entries in list order.
RemoveFirstEntry(h, t, step, access) ==
    LET match == {e \in h : /\ e.task = t /\ e.rid = step.rid
                            /\ e.access = access /\ e.slot = step.slot}
        first == CHOOSE e \in match : \A d \in match : e.tag <= d.tag
    IN  IF match = {} THEN h ELSE h \ {first}

\* Passing the empty barrier of a tensor-core operand proves that its reads of
\* the stage are over, whichever task issued them.
HeldAfterAcquire(h, t, step, at) ==
    {e \in h : ~(step.dma /\ e.rid = step.rid /\ e.access = "read" /\ e.slot = step.slot)}
        \cup {Entry(t, step, "write", at)}

\* A completion commit tags the task's own operand reads that no commit covers yet.
HeldAfterCommit(h, t, step) ==
    {IF /\ e.task = t /\ e.access = "read"
        /\ e.tag = Untagged /\ e.rid \in step.comp
     THEN [e EXCEPT !.tag = step.gen] ELSE e
        : e \in RemoveFirstEntry(h, t, step, "write")}

\* A completion wait ends the operand reads its generation covers.
HeldAfterWait(h, t, step, at) ==
    {e \in h : ~(e.access = "read" /\ e.tag = step.gen /\ e.rid \in step.comp)}
        \cup {Entry(t, step, "read", at)}

\* A mistake: the release ends a tensor-core read.
HeldAfterReleaseDropsOperand(h, t, step) == RemoveFirstEntry(h, t, step, "read")

\* A tensor-core read outlives its release.
HeldAfterRelease(h, t, step) ==
    IF step.dma THEN h ELSE RemoveFirstEntry(h, t, step, "read")

HeldAfter(h, t, step, at) ==
    CASE step.stage = "ProducerAcquire" -> HeldAfterAcquire(h, t, step, at)
      [] step.stage = "ProducerCommit"  -> HeldAfterCommit(h, t, step)
      [] step.stage = "ConsumerWait"    -> HeldAfterWait(h, t, step, at)
      [] step.stage = "ConsumerRelease" -> HeldAfterRelease(h, t, step)
      [] OTHER                          -> h

\* The alias race check of check_all_interleavings: a work step touches memory
\* another task holds through a different resource, and one of them writes.
Races(m, h, t, step) ==
    /\ step.access # "none"
    /\ \E e \in h : /\ e.task # t
                    /\ e.rid # step.rid
                    /\ ~(step.access = "read" /\ e.access = "read")
                    /\ Overlap(m, step.rid, e.rid)

(***************************************************************************)
(* Cursors: cs[t] is the number of steps task t has executed.              *)
(***************************************************************************)
Unfinished(m, cs) == {t \in DOMAIN m.steps : cs[t] < Len(m.steps[t])}

NextStep(m, cs, t) == m.steps[t][cs[t] + 1]
====
