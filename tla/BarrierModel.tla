---- MODULE BarrierModel ----
(***************************************************************************)
(* The static side of the exhaustive schedule checker of the task          *)
(* scheduling package (exhaustive_checker.py): what _build_model and       *)
(* _precompute_steps derive from a program before any interleaving is      *)
(* explored.                                                               *)
(*                                                                         *)
(* A program is a record                                                   *)
(*   ops       sequence over the tasks of their expanded schedules, each a *)
(*             sequence of [rid, stage];                                   *)
(*   captured  sequence over the tasks of the set of <<rid, stage>> pairs  *)
(*             of the schedule as captured, whatever a guard or a skipped  *)
(*             tile leaves of it in ops;                                   *)
(*   stages    ring stages of each resource;                               *)
(*   kind      pipeline type of each resource;                             *)
(*   ranges    physical cells <<space, offset>> each resource occupies.    *)
(*                                                                         *)
(* Resources are model values, tasks are their index in the task list.     *)
(***************************************************************************)
EXTENDS Integers, Sequences, FiniteSets, SequencesExt

\* The kind of a resource without a pipeline configuration; a barrier-only
\* resource (is_barrier) has a kind of its own, "Barrier".
Unpipelined == "Unpipelined"

\* Schedule stages that touch a barrier record.
BarrierStages ==
    {"ProducerTryAcquire", "ProducerAcquire", "ProducerCommit",
     "ConsumerTryWait", "ConsumerWait", "ConsumerRelease"}

OtherStages == {"ProducerWork", "ProducerAuxWork", "ConsumerWork", "ConsumerAuxWork"}

\* Pipelines consumed by the tensor core: the read outlives the release.
DmaConsumerTypes == {"TmaUmma", "AsyncUmma", "UmmaUmma"}

\* Pipelines whose full barrier is arrived on by tcgen05.commit.
CompletionProducerTypes == {"UmmaAsync", "UmmaUmma"}

Untagged == -1
Slotless == -1

(***************************************************************************)
(* _explode_sync_work: work on an unpipelined resource runs in two         *)
(* synchronisation phases; the consumer writes in the first and reads in   *)
(* the second.                                                             *)
(***************************************************************************)
ExplodeOp(p, op) ==
    LET phase(a) == [rid |-> op.rid, stage |-> op.stage, access |-> a]
        flat     == p.kind[op.rid] = Unpipelined
    IN  CASE op.stage = "ConsumerWork" /\ flat  -> <<phase("write"), phase("read")>>
          [] op.stage = "ConsumerWork" /\ ~flat -> <<phase("read")>>
          [] op.stage = "ProducerWork" /\ flat  -> <<phase("write"), phase("write")>>
          [] op.stage = "ProducerWork" /\ ~flat -> <<phase("write")>>
          [] OTHER                              -> <<phase("none")>>

ExplodeSyncWork(p) ==
    [t \in DOMAIN p.ops |->
        FlattenSeq([i \in DOMAIN p.ops[t] |-> ExplodeOp(p, p.ops[t][i])])]

(***************************************************************************)
(* Static roles: participant counts come from the captured schedules.      *)
(***************************************************************************)
Tasks(p) == DOMAIN p.ops

\* The tasks whose captured schedule contains the stage on the resource.
Participants(p, rid, stage) == {t \in Tasks(p) : <<rid, stage>> \in p.captured[t]}

\* dict.get(rid, 1): a resource nobody commits (releases) counts one.
AtLeastOne(n) == IF n = 0 THEN 1 ELSE n

Producers(p, rid) == AtLeastOne(Cardinality(Participants(p, rid, "ProducerCommit")))

Consumers(p, rid) == AtLeastOne(Cardinality(Participants(p, rid, "ConsumerRelease")))

DmaRids(p) == {r \in DOMAIN p.kind : p.kind[r] \in DmaConsumerTypes}

\* The tensor-core operands whose reads a wait on a completion producer ends:
\* those waited on by some task that commits the completion producer.
CompletionPairs(p, rid) ==
    IF p.kind[rid] \in CompletionProducerTypes
    THEN {x \in DmaRids(p) :
            \E t \in Participants(p, rid, "ProducerCommit") :
                t \in Participants(p, x, "ConsumerWait")}
    ELSE {}

(***************************************************************************)
(* Per-op facts.  The ordinal of an op counts the earlier ops of its task  *)
(* that advance the same software cursor.                                  *)
(***************************************************************************)

\* The stage that advances the cursor a stage reads: a try-op peeks at the
\* cursor of its blocking form.
CursorStage(stage) ==
    CASE stage = "ProducerTryAcquire" -> "ProducerAcquire"
      [] stage = "ConsumerTryWait"    -> "ConsumerWait"
      [] OTHER                        -> stage

\* How many of the first c steps of a task are of the stage on the resource.
CountOn(ops, c, stage, rid) ==
    Cardinality({j \in 1..c : ops[j].rid = rid /\ ops[j].stage = stage})

Ordinal(ops, i) == CountOn(ops, i - 1, CursorStage(ops[i].stage), ops[i].rid)

\* _precompute_steps for one op: its ring slot, the phase its gate names, its
\* access, and the operand reads its completion commit or wait stands for.
StepInfo(p, ops, i) ==
    LET op   == ops[i]
        k    == Ordinal(ops, i)
        n    == p.stages[op.rid]
        sync == op.stage \in BarrierStages
        comp == IF op.stage \in {"ProducerCommit", "ConsumerWait"}
                THEN CompletionPairs(p, op.rid) ELSE {}
    IN  [rid    |-> op.rid,
         stage  |-> op.stage,
         slot   |-> IF sync THEN k % n ELSE Slotless,
         phase  |-> (k \div n) % 2,
         access |-> op.access,
         dma    |-> op.rid \in DmaRids(p),
         comp   |-> comp,
         gen    |-> IF comp = {} THEN Untagged ELSE k]

\* _build_model: everything the exploration needs to know of a program.
BuildModel(p) ==
    LET ops == ExplodeSyncWork(p)
    IN
    [steps     |-> [t \in Tasks(p) |-> [i \in DOMAIN ops[t] |-> StepInfo(p, ops[t], i)]],
     stages    |-> p.stages,
     producers |-> [r \in DOMAIN p.stages |-> Producers(p, r)],
     consumers |-> [r \in DOMAIN p.stages |-> Consumers(p, r)],
     ranges    |-> p.ranges]

\* What the exploration relies on: every step names a resource of the model,
\* a barrier step a ring stage of it, and every barrier expects an arrival.
StepType(m) ==
    [rid : DOMAIN m.stages, stage : BarrierStages \cup OtherStages,
     slot : Nat \cup {Slotless}, phase : {0, 1}, access : {"none", "read", "write"},
     dma : BOOLEAN, comp : SUBSET (DOMAIN m.stages), gen : Nat \cup {Untagged}]

WellFormedModel(m) ==
    /\ Len(m.steps) \in Nat /\ DOMAIN m.steps = 1..Len(m.steps)
    /\ \A r \in DOMAIN m.stages : /\ m.stages[r] \in Nat \ {0}
                                  /\ m.producers[r] \in Nat \ {0}
                                  /\ m.consumers[r] \in Nat \ {0}
    /\ \A t \in DOMAIN m.steps :
          /\ m.steps[t] \in Seq(StepType(m))
          /\ \A i \in DOMAIN m.steps[t] :
                m.steps[t][i].stage \in BarrierStages =>
                    m.steps[t][i].slot \in 0..(m.stages[m.steps[t][i].rid] - 1)

\* _precompute_steps: the ring slot, phase and generation of a step follow from
\* its ordinal, only completion commits and waits stand for operand reads, and
\* these are reads of tensor-core operands.
Precomputed(m) ==
    \A t \in DOMAIN m.steps : \A i \in DOMAIN m.steps[t] :
        LET s == m.steps[t][i]
            k == Ordinal(m.steps[t], i)
        IN  /\ s.stage \in BarrierStages => /\ s.slot = k % m.stages[s.rid]
                                            /\ s.phase = (k \div m.stages[s.rid]) % 2
            /\ s.comp # {} => s.stage \in {"ProducerCommit", "ConsumerWait"}
            /\ s.gen = IF s.comp = {} THEN Untagged ELSE k
            /\ \A u \in DOMAIN m.steps : \A j \in DOMAIN m.steps[u] :
                  LET o == m.steps[u][j]
                  IN  /\ o.rid = s.rid => o.dma = s.dma
                      /\ o.rid \in s.comp => o.dma

\* The tasks that take part in a side of a resource's pipeline.
ProducersOf(m, rid) ==
    {t \in DOMAIN m.steps : \E i \in DOMAIN m.steps[t] :
        m.steps[t][i].rid = rid /\ m.steps[t][i].stage \in {"ProducerAcquire", "ProducerCommit"}}

ConsumersOf(m, rid) ==
    {t \in DOMAIN m.steps : \E i \in DOMAIN m.steps[t] :
        m.steps[t][i].rid = rid /\ m.steps[t][i].stage \in {"ConsumerWait", "ConsumerRelease"}}

\* What _verify_bracketing asks of a schedule before it is explored: a commit
\* closes an open acquire and a release an open wait.  A task with one stage of
\* a pair therefore has the other, and is counted as a participant.
Bracketed(m) ==
    /\ \A t \in DOMAIN m.steps : \A i \in DOMAIN m.steps[t] :
          LET s == m.steps[t][i]
              before(stage) == CountOn(m.steps[t], i - 1, stage, s.rid)
          IN  /\ s.stage = "ProducerCommit" =>
                    before("ProducerCommit") < before("ProducerAcquire")
              /\ s.stage = "ConsumerRelease" =>
                    before("ConsumerRelease") < before("ConsumerWait")
    /\ \A r \in DOMAIN m.stages : /\ Cardinality(ProducersOf(m, r)) <= m.producers[r]
                                  /\ Cardinality(ConsumersOf(m, r)) <= m.consumers[r]

\* No operand is covered by the commits of two resources.  Nothing in the code
\* asks for it; what needs it names it as a hypothesis.
OneAccumulator(m) ==
    \A t, u \in DOMAIN m.steps : \A i \in DOMAIN m.steps[t] : \A j \in DOMAIN m.steps[u] :
        m.steps[t][i].comp \cap m.steps[u][j].comp # {} => m.steps[t][i].rid = m.steps[u][j].rid

\* Two resources share a physical cell.
Overlap(m, left, right) == m.ranges[left] \cap m.ranges[right] # {}
====
