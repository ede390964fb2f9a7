---- MODULE PipelineMachine ----
(***************************************************************************)
(* The barrier-phase machine whose interleavings the exhaustive checker    *)
(* explores: the tasks of one program advance their cursors through their  *)
(* steps, arrive on and wait for the full and empty barriers of ring       *)
(* stages, and hold read and write accesses to the resources in between    *)
(* (exhaustive_checker.py).                                                *)
(***************************************************************************)
EXTENDS PipelineSteps

VARIABLES
    cursors,        \* cursors[t]: number of steps task t has executed
    barriers,       \* barriers[<<rid, slot>>]: full and empty barrier of a ring stage
    held            \* accesses in progress

vars == <<model, cursors, barriers, held>>

(***************************************************************************)
(* The machine.                                                            *)
(***************************************************************************)
Init ==
    /\ model \in Models
    /\ cursors = [t \in DOMAIN model.steps |-> 0]
    /\ barriers = InitialBarriers(model)
    /\ held = {}

\* Task t executes its next step, which is of the given stage.
Advance(t, stage) ==
    /\ t \in Unfinished(model, cursors)
    /\ NextStep(model, cursors, t).stage = stage
    /\ StepEnabled(NextStep(model, cursors, t), barriers)
    /\ cursors' = [cursors EXCEPT ![t] = @ + 1]
    /\ barriers' = BarriersAfter(model, NextStep(model, cursors, t), barriers)
    /\ held' = HeldAfter(held, t, NextStep(model, cursors, t), cursors[t])
    /\ UNCHANGED model

ProducerAcquire(t) == Advance(t, "ProducerAcquire")
ProducerCommit(t)  == Advance(t, "ProducerCommit")
ConsumerWait(t)    == Advance(t, "ConsumerWait")
ConsumerRelease(t) == Advance(t, "ConsumerRelease")

\* A mistake: a try-op polls without moving on.
PassiveSpins(t) ==
    \/ \E stage \in OtherStages : Advance(t, stage)
    \/ /\ t \in Unfinished(model, cursors)
       /\ NextStep(model, cursors, t).stage \in {"ProducerTryAcquire", "ConsumerTryWait"}
       /\ UNCHANGED vars

\* Work and try-ops neither block nor change the shared state.
Passive(t) ==
    \E stage \in OtherStages \cup {"ProducerTryAcquire", "ConsumerTryWait"} : Advance(t, stage)

Step(t) ==
    \/ ProducerAcquire(t) \/ ProducerCommit(t)
    \/ ConsumerWait(t) \/ ConsumerRelease(t)
    \/ Passive(t)

Complete == Unfinished(model, cursors) = {}

Finished == Complete /\ UNCHANGED vars

Next == (\E t \in DOMAIN model.steps : Step(t)) \/ Finished

Spec == Init /\ [][Next]_vars

(***************************************************************************)
(* Properties.                                                             *)
(***************************************************************************)
Barrier == [phase : {0, 1}, arrivals : Nat]

HeldEntry(m) ==
    [task : DOMAIN m.steps, rid : DOMAIN m.stages, access : {"read", "write"},
     slot : Nat, tag : Nat \cup {Untagged}, at : Nat]

\* Cursors stay within their schedules and every barrier is a phase bit with
\* a pending count (the layout of _INITIAL_RECORD and HeldEntry).
TypeOK ==
    /\ model \in Models
    /\ cursors \in [DOMAIN model.steps -> Nat]
    /\ \A t \in DOMAIN model.steps : cursors[t] <= Len(model.steps[t])
    /\ barriers \in [Records(model) -> [full : Barrier, empty : Barrier]]
    /\ held \subseteq HeldEntry(model)

(***************************************************************************)
(* What the cursors cs alone say of the barriers.                          *)
(***************************************************************************)

\* The steps <<task, index>> executed so far, and those of a stage on a ring stage.
Positions(m, cs) == UNION {{t} \X (1..cs[t]) : t \in DOMAIN m.steps}

Executed(m, cs, stage, rec) ==
    {x \in Positions(m, cs) : /\ m.steps[x[1]][x[2]].stage = stage
                             /\ m.steps[x[1]][x[2]].rid = rec[1]
                             /\ m.steps[x[1]][x[2]].slot = rec[2]}

\* A barrier that started in phase p0 after n arrivals.
BarrierAfter(p0, n, expected) ==
    [phase |-> (p0 + n \div expected) % 2, arrivals |-> n % expected]

BarriersOf(m, cs) ==
    [rec \in Records(m) |->
        LET arrived(stage) == Cardinality(Executed(m, cs, stage, rec))
        IN  [full  |-> BarrierAfter(0, arrived("ProducerCommit"), m.producers[rec[1]]),
             empty |-> BarrierAfter(1, arrived("ConsumerRelease"), m.consumers[rec[1]])]]

\* "Arrival counts are sums over task prefixes": whatever the interleaving,
\* phase and pending count of every barrier are determined by how far each
\* task has advanced, so no order of arrivals can leave a different barrier.
BarriersFollowCursors == barriers = BarriersOf(model, cursors)

(***************************************************************************)
(* What the cursors cs alone say of the accesses in flight.                *)
(***************************************************************************)

\* The executed completion commits of task t that cover a read it began at step i.
CoveringCommits(m, cs, t, i) ==
    {j \in (i + 1)..cs[t] : /\ m.steps[t][j].stage = "ProducerCommit"
                            /\ m.steps[t][i].rid \in m.steps[t][j].comp}

\* The generation of the first of them.
TagOf(m, cs, t, i) ==
    LET covering == CoveringCommits(m, cs, t, i)
    IN  IF covering = {} THEN Untagged
        ELSE m.steps[t][CHOOSE j \in covering : \A k \in covering : j <= k].gen

\* A later acquire of its ring stage ends the operand read task t began at step i.
Overwritten(m, cs, t, i) ==
    \E u \in DOMAIN m.steps : \E j \in 1..cs[u] :
        /\ m.steps[u][j].stage = "ProducerAcquire"
        /\ m.steps[u][j].rid = m.steps[t][i].rid /\ m.steps[u][j].slot = m.steps[t][i].slot
        /\ Ordinal(m.steps[u], j) > Ordinal(m.steps[t], i)

\* A completion wait of its generation has been executed.
Completed(m, cs, t, i) ==
    \E u \in DOMAIN m.steps : \E j \in 1..cs[u] :
        /\ m.steps[u][j].stage = "ConsumerWait" /\ m.steps[t][i].rid \in m.steps[u][j].comp
        /\ TagOf(m, cs, t, i) = m.steps[u][j].gen

CompletedReads(m, cs) ==
    {x \in Positions(m, cs) : /\ m.steps[x[1]][x[2]].stage = "ConsumerWait"
                              /\ m.steps[x[1]][x[2]].dma
                              /\ Completed(m, cs, x[1], x[2])}

\* Step i of task t took an access that no step on its own resource has ended.
StillOpen(m, cs, t, i) ==
    LET s == m.steps[t][i]
        closed(stage) == CountOn(m.steps[t], cs[t], stage, s.rid) > Ordinal(m.steps[t], i)
    IN  \/ s.stage = "ProducerAcquire" /\ ~closed("ProducerCommit")
        \/ s.stage = "ConsumerWait" /\ ~s.dma /\ ~closed("ConsumerRelease")
        \/ s.stage = "ConsumerWait" /\ s.dma /\ ~Overwritten(m, cs, t, i)

\* The entry for the access that step i of task t took.
EntryOf(m, cs, t, i) ==
    LET s == m.steps[t][i]
    IN  [Entry(t, s, IF s.stage = "ProducerAcquire" THEN "write" ELSE "read", i - 1)
            EXCEPT !.tag = IF s.stage = "ProducerAcquire" THEN Untagged ELSE TagOf(m, cs, t, i)]

\* The entries of the open accesses but those of the reads D.
HeldBut(m, cs, D) ==
    UNION {{EntryOf(m, cs, t, i) :
                i \in {j \in 1..cs[t] : StillOpen(m, cs, t, j) /\ <<t, j>> \notin D}}
              : t \in DOMAIN m.steps}

HeldOf(m, cs) == HeldBut(m, cs, CompletedReads(m, cs))

\* "Holds are decided by which waits, commits and acquires each task has
\* executed": the entries kept incrementally are those a look at the executed
\* prefixes alone would find, tags included.  Where two resources' commits cover
\* one operand this leaves open which of the reads a completion wait of their
\* generation has ended: it ends them only when it comes after the commit.
HeldFollowsCursors ==
    /\ HeldOf(model, cursors) \subseteq held
    /\ held \subseteq HeldBut(model, cursors, {})
    /\ OneAccumulator(model) => held = HeldOf(model, cursors)

\* The race check skips holds on the resource it steps on; that is sound
\* because the barriers alone keep a producer and the other tasks' reads apart:
\* no ring stage is ever held for writing by one task and reading by another.
StageExclusive ==
    \A w, r \in held :
        ~(/\ w.access = "write" /\ r.access = "read"
          /\ w.task # r.task /\ w.rid = r.rid /\ w.slot = r.slot)

\* What the machine knows of the accesses in flight: they follow from the cursors, and
\* never put a writer and a reader of a ring stage side by side (_apply_step).
AccessInv == HeldFollowsCursors /\ StageExclusive

\* A step that is enabled stays enabled until its task takes it: no arrival of
\* another task flips the phase a wait or an acquire has already seen.
EnabledPersists ==
    [][\A t \in Unfinished(model, cursors) :
        (cursors'[t] = cursors[t] /\ StepEnabled(NextStep(model, cursors, t), barriers))
            => StepEnabled(NextStep(model, cursors, t), barriers')]_vars
====
