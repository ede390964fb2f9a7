---- MODULE PipelineMachineProofs ----
(***************************************************************************)
(* Proofs about PipelineMachine and ExhaustiveChecker for every set of     *)
(* models _build_model makes of bracketed schedules.                       *)
(***************************************************************************)
EXTENDS PipelineMachine, CheckerReference, FiniteSetTheorems, SequenceTheorems, TLAPS

\* The step a task is about to take, and the ring stage it addresses.
LEMMA NextStepType ==
    ASSUME TypeOK, NEW t \in Unfinished(model, cursors)
    PROVE  /\ t \in DOMAIN model.steps
           /\ cursors[t] \in Nat
           /\ cursors[t] + 1 \in DOMAIN model.steps[t]
           /\ cursors[t] + 1 <= Len(model.steps[t])
           /\ NextStep(model, cursors, t) \in StepType(model)
           /\ NextStep(model, cursors, t).stage \in BarrierStages =>
                /\ <<NextStep(model, cursors, t).rid, NextStep(model, cursors, t).slot>>
                        \in Records(model)
                /\ NextStep(model, cursors, t).slot \in Nat
<1>1. WellFormedModel(model)
  BY ModelsAssumption DEF TypeOK
<1>2. t \in DOMAIN model.steps /\ cursors[t] \in Nat /\ cursors[t] < Len(model.steps[t])
  BY DEF TypeOK, Unfinished
<1>3. model.steps[t] \in Seq(StepType(model))
  BY <1>1, <1>2 DEF WellFormedModel
<1>4. cursors[t] + 1 \in DOMAIN model.steps[t] /\ cursors[t] + 1 <= Len(model.steps[t])
  BY <1>2, <1>3
<1>5. NextStep(model, cursors, t) \in StepType(model)
  BY <1>3, <1>4 DEF NextStep
<1>6. NextStep(model, cursors, t).rid \in DOMAIN model.stages
  BY <1>5 DEF StepType
<1>7. ASSUME NextStep(model, cursors, t).stage \in BarrierStages
      PROVE  /\ <<NextStep(model, cursors, t).rid, NextStep(model, cursors, t).slot>>
                   \in Records(model)
             /\ NextStep(model, cursors, t).slot \in Nat
  <2>1. NextStep(model, cursors, t).slot
            \in 0..(model.stages[NextStep(model, cursors, t).rid] - 1)
    BY <1>1, <1>2, <1>4, <1>7 DEF WellFormedModel, NextStep
  <2>2. model.stages[NextStep(model, cursors, t).rid] \in Nat
    BY <1>1, <1>6 DEF WellFormedModel
  <2> QED
    BY <1>6, <2>1, <2>2 DEF Records
<1> QED
  BY <1>2, <1>4, <1>5, <1>7

\* An arrival keeps a barrier a phase bit with a pending count.
LEMMA ArriveType ==
    ASSUME NEW b \in Barrier, NEW e \in Nat \ {0}
    PROVE  Arrive(b, e) \in Barrier
BY DEF Arrive, Barrier

\* The stages that come in pairs: each has its own software cursor.
PairStages == {"ProducerAcquire", "ProducerCommit", "ConsumerWait", "ConsumerRelease"}

\* A pair of mbarriers for every ring stage.
BarrierVectors(m) == [Records(m) -> [full : Barrier, empty : Barrier]]

\* The barrier vector keeps its type across a step.
LEMMA BarriersAfterType ==
    ASSUME NEW m, NEW s, NEW bs \in BarrierVectors(m), NEW own, own = <<s.rid, s.slot>>,
           s.stage \in PairStages => own \in Records(m),
           m.producers[s.rid] \in Nat \ {0}, m.consumers[s.rid] \in Nat \ {0}
    PROVE  BarriersAfter(m, s, bs) \in BarrierVectors(m)
<1>1. bs \in [Records(m) -> [full : Barrier, empty : Barrier]]
  BY DEF BarrierVectors
<1>2. CASE s.stage = "ProducerCommit"
  <2>1. own \in Records(m)
    BY <1>2 DEF PairStages
  <2>2. Arrive(bs[own].full, m.producers[s.rid]) \in Barrier
    BY <1>1, <2>1, ArriveType
  <2>3. BarriersAfter(m, s, bs) = [bs EXCEPT ![own].full = Arrive(@, m.producers[s.rid])]
    BY <1>2 DEF BarriersAfter
  <2> QED
    BY <1>1, <2>1, <2>2, <2>3 DEF BarrierVectors
<1>3. CASE s.stage = "ConsumerRelease"
  <2>1. own \in Records(m)
    BY <1>3 DEF PairStages
  <2>2. Arrive(bs[own].empty, m.consumers[s.rid]) \in Barrier
    BY <1>1, <2>1, ArriveType
  <2>3. BarriersAfter(m, s, bs) = [bs EXCEPT ![own].empty = Arrive(@, m.consumers[s.rid])]
    BY <1>3 DEF BarriersAfter
  <2> QED
    BY <1>1, <2>1, <2>2, <2>3 DEF BarrierVectors
<1>4. CASE s.stage # "ProducerCommit" /\ s.stage # "ConsumerRelease"
  BY <1>4 DEF BarriersAfter
<1> QED
  BY <1>2, <1>3, <1>4

\* A step only adds entries of the step's own task, resource and ring stage.
LEMMA HeldAfterType ==
    ASSUME TypeOK, NEW t \in Unfinished(model, cursors)
    PROVE  HeldAfter(held, t, NextStep(model, cursors, t), cursors[t]) \subseteq HeldEntry(model)
<1> DEFINE s == NextStep(model, cursors, t)
<1>1. /\ s \in StepType(model) /\ t \in DOMAIN model.steps /\ cursors[t] \in Nat
      /\ s.stage \in BarrierStages => s.slot \in Nat
  BY NextStepType
<1>2. held \subseteq HeldEntry(model)
  BY DEF TypeOK
<1>3. \A a : RemoveFirstEntry(held, t, s, a) \subseteq held
  BY DEF RemoveFirstEntry
<1>4. \A a \in {"read", "write"} :
        s.stage \in BarrierStages => Entry(t, s, a, cursors[t]) \in HeldEntry(model)
  BY <1>1 DEF Entry, HeldEntry, StepType
<1> HIDE DEF s
<1>5. CASE s.stage = "ProducerAcquire"
  <2>1. Entry(t, s, "write", cursors[t]) \in HeldEntry(model)
    BY <1>4, <1>5 DEF BarrierStages
  <2>2. HeldAfterAcquire(held, t, s, cursors[t]) \subseteq HeldEntry(model)
    BY <1>2, <2>1 DEF HeldAfterAcquire
  <2> QED
    BY <1>5, <2>2 DEF HeldAfter, s
<1>6. CASE s.stage = "ProducerCommit"
  <2>1. \A e \in HeldEntry(model) : [e EXCEPT !.tag = s.gen] \in HeldEntry(model)
    BY <1>1 DEF HeldEntry, StepType
  <2>2. HeldAfterCommit(held, t, s) \subseteq HeldEntry(model)
    BY <1>2, <1>3, <2>1 DEF HeldAfterCommit
  <2> QED
    BY <1>6, <2>2 DEF HeldAfter, s
<1>7. CASE s.stage = "ConsumerWait"
  <2>1. Entry(t, s, "read", cursors[t]) \in HeldEntry(model)
    BY <1>4, <1>7 DEF BarrierStages
  <2>2. HeldAfterWait(held, t, s, cursors[t]) \subseteq HeldEntry(model)
    BY <1>2, <2>1 DEF HeldAfterWait
  <2> QED
    BY <1>7, <2>2 DEF HeldAfter, s
<1>8. CASE s.stage = "ConsumerRelease"
  <2>1. HeldAfterRelease(held, t, s) \subseteq HeldEntry(model)
    BY <1>2, <1>3 DEF HeldAfterRelease
  <2> QED
    BY <1>8, <2>1 DEF HeldAfter, s
<1>9. CASE s.stage \notin {"ProducerAcquire", "ProducerCommit", "ConsumerWait", "ConsumerRelease"}
  BY <1>2, <1>9 DEF HeldAfter, s
<1> QED
  BY <1>5, <1>6, <1>7, <1>8, <1>9

\* Every step of every task is an Advance; the actions only name its stage.
LEMMA NextIsAdvance ==
    ASSUME [Next]_vars
    PROVE  \/ UNCHANGED vars
           \/ \E t \in Unfinished(model, cursors) : \E stage : Advance(t, stage)
<1>1. CASE Finished
  BY <1>1 DEF Finished
<1>2. ASSUME NEW t \in DOMAIN model.steps, Step(t)
      PROVE  \E stage : Advance(t, stage)
  BY <1>2 DEF Step, ProducerAcquire, ProducerCommit, ConsumerWait, ConsumerRelease, Passive
<1>3. \A t, stage : Advance(t, stage) => t \in Unfinished(model, cursors)
  BY DEF Advance
<1> QED
  BY <1>1, <1>2, <1>3 DEF Next

\* Every step preserves the types.
LEMMA TypeOKStep ==
    ASSUME TypeOK, [Next]_vars
    PROVE  TypeOK'
<1>1. CASE UNCHANGED vars
  BY <1>1 DEF vars, TypeOK, Records, HeldEntry
<1>2. ASSUME NEW t \in Unfinished(model, cursors), NEW stage, Advance(t, stage)
      PROVE  TypeOK'
  <2>1. /\ model' = model
        /\ cursors' = [cursors EXCEPT ![t] = @ + 1]
        /\ barriers' = BarriersAfter(model, NextStep(model, cursors, t), barriers)
        /\ held' = HeldAfter(held, t, NextStep(model, cursors, t), cursors[t])
    BY <1>2 DEF Advance
  <2>2. model' \in Models
    BY <2>1 DEF TypeOK
  <2>3. /\ cursors' \in [DOMAIN model.steps -> Nat]
        /\ \A u \in DOMAIN model.steps : cursors'[u] <= Len(model.steps[u])
    <3>1. t \in DOMAIN model.steps /\ cursors[t] \in Nat /\ cursors[t] + 1 <= Len(model.steps[t])
      BY NextStepType
    <3> QED
      BY <2>1, <3>1 DEF TypeOK
  <2>4. barriers' \in [Records(model) -> [full : Barrier, empty : Barrier]]
    <3> DEFINE s == NextStep(model, cursors, t)
    <3>1. s \in StepType(model) /\ (s.stage \in PairStages => <<s.rid, s.slot>> \in Records(model))
      BY NextStepType DEF PairStages, BarrierStages
    <3>2. model.producers[s.rid] \in Nat \ {0} /\ model.consumers[s.rid] \in Nat \ {0}
      BY <3>1, ModelsAssumption DEF TypeOK, WellFormedModel, StepType
    <3>3. barriers \in BarrierVectors(model)
      BY DEF TypeOK, BarrierVectors
    <3> HIDE DEF s
    <3>4. BarriersAfter(model, s, barriers) \in BarrierVectors(model)
      BY <3>1, <3>2, <3>3, BarriersAfterType
    <3> QED
      BY <2>1, <3>4 DEF BarrierVectors, s
  <2>5. held' \subseteq HeldEntry(model)
    BY <2>1, HeldAfterType
  <2> QED
    BY <2>1, <2>2, <2>3, <2>4, <2>5 DEF TypeOK
<1> QED
  BY <1>1, <1>2, NextIsAdvance

\* Type correctness of the barrier-phase machine (TypeOK): every cursor stays
\* within its schedule, every barrier a phase bit and a count, every held
\* entry names a task, resource and ring stage of the model.
THEOREM TypeCorrect == Spec => []TypeOK
<1>1. Init => TypeOK
  BY DEF Init, TypeOK, InitialBarriers, InitialRecord, Barrier
<1>2. TypeOK /\ [Next]_vars => TypeOK'
  BY TypeOKStep
<1> QED
  BY <1>1, <1>2, PTL DEF Spec

(***************************************************************************)
(* Counting arrivals.                                                      *)
(***************************************************************************)

\* Quotient and remainder of the successor.
LEMMA SuccDivMod ==
    ASSUME NEW n \in Nat, NEW e \in Nat \ {0}
    PROVE  /\ (n % e) + 1 >= e => (n + 1) % e = 0 /\ (n + 1) \div e = (n \div e) + 1
           /\ (n % e) + 1 <  e => (n + 1) % e = (n % e) + 1 /\ (n + 1) \div e = n \div e
           /\ n % e \in Nat /\ n \div e \in Nat
<1>1. /\ n \div e \in Nat /\ n % e \in 0..(e - 1)
      /\ n = e * (n \div e) + (n % e)
  OBVIOUS
<1>2. ASSUME NEW k \in Nat, NEW q \in Nat, NEW r \in 0..(e - 1), k = e * q + r
      PROVE  k \div e = q /\ k % e = r
  BY <1>2
<1>3. ASSUME (n % e) + 1 >= e
      PROVE  (n + 1) % e = 0 /\ (n + 1) \div e = (n \div e) + 1
  <2>1. n + 1 = e * ((n \div e) + 1) + 0
    BY <1>1, <1>3
  <2> QED
    BY <1>1, <1>2, <2>1
<1>4. ASSUME (n % e) + 1 < e
      PROVE  (n + 1) % e = (n % e) + 1 /\ (n + 1) \div e = n \div e
  <2>1. n + 1 = e * (n \div e) + ((n % e) + 1)
    BY <1>1
  <2>2. (n % e) + 1 \in 0..(e - 1)
    BY <1>1, <1>4
  <2> QED
    BY <1>1, <1>2, <2>1, <2>2, SMTT(30)
<1> QED
  BY <1>1, <1>3, <1>4

\* One more arrival on a barrier that has seen n of them.
LEMMA ArriveCounts ==
    ASSUME NEW n \in Nat, NEW e \in Nat \ {0}, NEW p \in {0, 1}
    PROVE  Arrive(BarrierAfter(p, n, e), e) = BarrierAfter(p, n + 1, e)
<1> DEFINE q == n \div e
           r == n % e
<1>1. q \in Nat /\ r \in Nat
  BY SuccDivMod
<1>2. CASE r + 1 >= e
  <2>1. (n + 1) % e = 0 /\ (n + 1) \div e = q + 1
    BY <1>2, SuccDivMod
  <2> HIDE DEF q, r
  <2>2. 1 - ((p + q) % 2) = (p + (q + 1)) % 2
    BY <1>1
  <2> QED
    BY <1>1, <1>2, <2>1, <2>2 DEF Arrive, BarrierAfter, q, r
<1>3. CASE r + 1 < e
  <2>1. (n + 1) % e = r + 1 /\ (n + 1) \div e = q
    BY <1>3, SuccDivMod
  <2> QED
    BY <1>1, <1>3, <2>1 DEF Arrive, BarrierAfter
<1> QED
  BY <1>1, <1>2, <1>3

\* A nonempty set of naturals has a least element.
LEMMA LeastNat ==
    ASSUME NEW S \in SUBSET Nat, S # {}
    PROVE  \E m \in S : \A n \in S : m <= n
<1> DEFINE R == {ss \in Nat \X Nat : ss[1] < ss[2]}
<1>1. IsWellFoundedOn(R, Nat)
  BY NatLessThanWellFounded, Zenon DEF OpToRel
<1>2. PICK m \in S : \A n \in S : ~ (<<n, m>> \in R)
  <2> HIDE DEF R
  <2> QED BY <1>1, WFMin, Zenon
<1>3. ASSUME NEW n \in S PROVE m <= n
  <2>1. <<n, m>>[1] = n /\ <<n, m>>[2] = m /\ <<n, m>> \in Nat \X Nat
    OBVIOUS
  <2> QED BY <1>2, <2>1, n \in Nat, m \in Nat
<1> QED BY <1>3

(***************************************************************************)
(* Counting the steps of a prefix.                                         *)
(***************************************************************************)

\* The members of a set of numbers up to c.
UpTo(S, c) == Cardinality({j \in 1..c : j \in S})

\* One more number adds one to the count when it is a member.
LEMMA UpToNext ==
    ASSUME NEW S, NEW c \in Nat
    PROVE  /\ UpTo(S, c) \in Nat
           /\ UpTo(S, 0) = 0
           /\ c + 1 \in S => UpTo(S, c + 1) = UpTo(S, c) + 1
           /\ c + 1 \notin S => UpTo(S, c + 1) = UpTo(S, c)
<1> DEFINE T == {j \in 1..c : j \in S}
           U == {j \in 1..(c + 1) : j \in S}
<1>1. IsFiniteSet(T)
  <2>1. IsFiniteSet(1..c)
    BY FS_Interval
  <2> QED BY <2>1, FS_Subset
<1>2. Cardinality(T) \in Nat
  BY <1>1, FS_CardinalityType
<1>3. UpTo(S, 0) = 0
  <2>1. {j \in 1..0 : j \in S} = {}
    OBVIOUS
  <2> QED BY <2>1, FS_EmptySet DEF UpTo
<1>4. c + 1 \notin T
  OBVIOUS
<1>5. c + 1 \in S => U = T \cup {c + 1}
  OBVIOUS
<1>6. c + 1 \notin S => U = T
  <2> SUFFICES ASSUME c + 1 \notin S, NEW j PROVE j \in U <=> j \in T
    OBVIOUS
  <2> QED OBVIOUS
<1>7. Cardinality(T \cup {c + 1}) = Cardinality(T) + 1
  <2> HIDE DEF T
  <2> QED BY <1>1, <1>4, FS_AddElement
<1> QED BY <1>2, <1>3, <1>5, <1>6, <1>7 DEF UpTo

\* The count never goes down.
LEMMA UpToMonotone ==
    ASSUME NEW S, NEW c \in Nat, NEW d \in Nat, c <= d
    PROVE  UpTo(S, c) <= UpTo(S, d)
<1> DEFINE T == {j \in 1..c : j \in S}
           U == {j \in 1..d : j \in S}
<1>1. IsFiniteSet(U)
  <2>1. IsFiniteSet(1..d)
    BY FS_Interval
  <2> QED BY <2>1, FS_Subset
<1>2. T \subseteq U
  OBVIOUS
<1> QED BY <1>1, <1>2, FS_Subset DEF UpTo

\* A member is counted from itself on.
LEMMA UpToMember ==
    ASSUME NEW S, NEW c \in Nat, NEW i \in 1..c, i \in S
    PROVE  UpTo(S, i - 1) < UpTo(S, c)
<1>1. i - 1 \in Nat /\ i \in Nat /\ (i - 1) + 1 = i
  OBVIOUS
<1>2. UpTo(S, i) = UpTo(S, i - 1) + 1 /\ UpTo(S, i - 1) \in Nat /\ UpTo(S, i) \in Nat
  BY <1>1, UpToNext
<1>3. UpTo(S, i) <= UpTo(S, c)
  BY <1>1, UpToMonotone
<1>4. UpTo(S, c) \in Nat
  BY UpToNext
<1> QED BY <1>2, <1>3, <1>4

\* The steps of a stage on a resource, and those of them on one ring stage.
On(ops, stage, rid) == {j \in Nat : ops[j].rid = rid /\ ops[j].stage = stage}
OnSlot(ops, stage, rid, slot) == {j \in On(ops, stage, rid) : ops[j].slot = slot}

\* How many of the first c steps of a task are of the stage on the ring stage.
CountAt(ops, c, stage, rid, slot) == UpTo(OnSlot(ops, stage, rid, slot), c)

\* _precompute_steps' running count, as a count of positions.
LEMMA CountOnIsUpTo ==
    ASSUME NEW ops, NEW c \in Nat, NEW stage, NEW rid
    PROVE  CountOn(ops, c, stage, rid) = UpTo(On(ops, stage, rid), c)
<1>1. {j \in 1..c : ops[j].rid = rid /\ ops[j].stage = stage} = {j \in 1..c : j \in On(ops, stage, rid)}
  BY DEF On
<1> QED BY <1>1 DEF CountOn, UpTo

\* The running count is a natural number.
LEMMA CountOnType ==
    ASSUME NEW ops, NEW c \in Nat, NEW stage, NEW rid
    PROVE  CountOn(ops, c, stage, rid) \in Nat
BY CountOnIsUpTo, UpToNext

\* Quotient and remainder.
LEMMA DivMod ==
    ASSUME NEW k \in Nat, NEW n \in Nat \ {0}
    PROVE  /\ k \div n \in Nat /\ k % n \in 0..(n - 1)
           /\ k = n * (k \div n) + (k % n)
<1>1. k \div n \in Nat /\ k % n \in 0..(n - 1)
  OBVIOUS
<1>2. k = n * (k \div n) + (k % n)
  OBVIOUS
<1> QED BY <1>1, <1>2

\* Multiples compare as their factors.
LEMMA MulLess ==
    ASSUME NEW n \in Nat \ {0}, NEW a \in Int, NEW b \in Int
    PROVE  n * a < n * b <=> a < b
<1>1. ASSUME a < b PROVE n * a < n * b
  <2>1. n * b = n * a + n * (b - a)
    OBVIOUS
  <2>2. n * (b - a) > 0
    BY <1>1
  <2> QED BY <2>1, <2>2
<1>2. ASSUME b <= a PROVE n * b <= n * a
  <2>1. n * a = n * b + n * (a - b)
    OBVIOUS
  <2>2. n * (a - b) >= 0
    BY <1>2
  <2> QED BY <2>1, <2>2
<1> QED BY <1>1, <1>2

\* The ring relation between the steps K of a stage and those N of them that are
\* on ring stage sl of n.
Dealt(K, N, n, sl) == K <= n * N + sl /\ (N > 0 => n * (N - 1) + sl < K)

\* One more step keeps it: the step is on ring stage K % n.
LEMMA RingNext ==
    ASSUME NEW K \in Nat, NEW N \in Nat, NEW n \in Nat \ {0}, NEW sl \in 0..(n - 1),
           Dealt(K, N, n, sl)
    PROVE  /\ K % n = sl => Dealt(K + 1, N + 1, n, sl)
           /\ K % n # sl => Dealt(K + 1, N, n, sl)
<1> DEFINE q == K \div n
           x == n * N
           y == n * (N - 1)
<1>1. q \in Nat /\ K % n \in 0..(n - 1) /\ K = n * q + (K % n)
  BY DivMod
<1>2. x \in Int /\ y \in Int /\ x = y + n
  OBVIOUS
<1>3. CASE K % n = sl
  <2>1. n * q <= n * N
    BY <1>1, <1>2, <1>3 DEF Dealt
  <2>2. N > 0 => n * (N - 1) < n * q
    BY <1>1, <1>3 DEF Dealt
  <2>3. ~(N < q)
    BY <1>1, <2>1, MulLess
  <2>4. N > 0 => N - 1 < q
    BY <1>1, <2>2, MulLess
  <2>5. N = q
    BY <1>1, <2>3, <2>4
  <2>6. K = x + sl
    BY <1>1, <1>3, <2>5
  <2>7. n * (N + 1) = x + n /\ n * ((N + 1) - 1) = x
    OBVIOUS
  <2> HIDE DEF x, y, q
  <2> QED BY <1>2, <1>3, <2>6, <2>7 DEF Dealt
<1>4. CASE K % n # sl
  <2>1. K # x + sl
    <3> SUFFICES ASSUME K = x + sl PROVE FALSE
      OBVIOUS
    <3>1. n * q + (K % n) = n * N + sl
      BY <1>1
    <3> DEFINE z == n * q
    <3>2. z \in Int /\ n * (N + 1) = x + n /\ n * (q + 1) = z + n
      BY <1>1
    <3>3. z < x + n /\ x < z + n
      <4> HIDE DEF z, x, q
      <4> QED BY <1>1, <1>2, <3>1, <3>2 DEF z, x
    <3>4. q < N + 1 /\ N < q + 1
      BY <1>1, <3>2, <3>3, MulLess
    <3>5. q = N
      BY <1>1, <3>4
    <3> QED BY <1>1, <1>4, <3>1, <3>5
  <2>2. K <= x + sl /\ (N > 0 => y + sl < K)
    BY DEF Dealt
  <2> HIDE DEF x, y
  <2>3. K + 1 <= x + sl /\ (N > 0 => y + sl < K + 1)
    BY <1>2, <2>1, <2>2
  <2> QED BY <1>4, <2>3 DEF Dealt, x, y
<1> QED BY <1>3, <1>4

\* Steps are dealt to the ring stages in turn.
LEMMA RingCount ==
    ASSUME NEW ops, NEW stage, NEW rid, NEW n \in Nat \ {0}, NEW sl \in 0..(n - 1), NEW L \in Nat,
           \A i \in 1..L : i \in On(ops, stage, rid) =>
               ops[i].slot = UpTo(On(ops, stage, rid), i - 1) % n,
           NEW c \in 0..L
    PROVE  Dealt(UpTo(On(ops, stage, rid), c), UpTo(OnSlot(ops, stage, rid, sl), c), n, sl)
<1> DEFINE S == On(ops, stage, rid)
           T == OnSlot(ops, stage, rid, sl)
           Good(d) == Dealt(UpTo(S, d), UpTo(T, d), n, sl)
           Bad == {d \in 0..L : ~Good(d)}
<1> SUFFICES ASSUME Bad # {} PROVE FALSE
  OBVIOUS
<1>1. Bad \in SUBSET Nat
  OBVIOUS
<1>2. PICK d \in Bad : \A e \in Bad : d <= e
  <2> HIDE DEF Bad
  <2> QED BY <1>1, LeastNat
<1>3. d \in 0..L /\ ~Good(d)
  OBVIOUS
<1>4. d # 0
  <2> SUFFICES ASSUME d = 0 PROVE FALSE
    OBVIOUS
  <2>1. UpTo(S, 0) = 0 /\ UpTo(T, 0) = 0
    BY UpToNext
  <2>2. Dealt(0, 0, n, sl)
    BY DEF Dealt
  <2> QED BY <1>3, <2>1, <2>2
<1>5. d - 1 \in 0..L /\ d - 1 \in Nat /\ (d - 1) + 1 = d /\ d \in 1..L /\ ~(d <= d - 1)
  BY <1>3, <1>4
<1>6. Good(d - 1)
  <2> HIDE DEF Good
  <2> QED BY <1>2, <1>5
<1>7. d \in S => d - 1 \in Nat /\ ops[d].slot = UpTo(S, d - 1) % n
  BY <1>5
<1>8. d \in T <=> d \in S /\ ops[d].slot = sl
  BY DEF OnSlot
<1>9. /\ UpTo(S, d - 1) \in Nat /\ UpTo(T, d - 1) \in Nat
      /\ d \in S => UpTo(S, d) = UpTo(S, d - 1) + 1
      /\ d \notin S => UpTo(S, d) = UpTo(S, d - 1)
      /\ d \in T => UpTo(T, d) = UpTo(T, d - 1) + 1
      /\ d \notin T => UpTo(T, d) = UpTo(T, d - 1)
  <2> HIDE DEF S, T
  <2> QED BY <1>5, UpToNext
<1> HIDE DEF S, T
<1>10. CASE d \notin S
  BY <1>3, <1>6, <1>8, <1>9, <1>10
<1>11. CASE d \in T
  BY <1>3, <1>6, <1>7, <1>8, <1>9, <1>11, RingNext
<1>12. CASE d \in S /\ d \notin T
  BY <1>3, <1>6, <1>7, <1>8, <1>9, <1>12, RingNext
<1> QED BY <1>8, <1>10, <1>11, <1>12

\* Comparing with an ordinal, and comparing its round on its own ring stage, is the same.
LEMMA RingCompare ==
    ASSUME NEW K \in Nat, NEW N \in Nat, NEW n \in Nat \ {0}, NEW k \in Nat,
           Dealt(K, N, n, k % n)
    PROVE  /\ N > k \div n <=> K > k
           /\ K = k => N = k \div n
<1> DEFINE q == k \div n
           sl == k % n
<1>1. q \in Nat /\ sl \in 0..(n - 1) /\ k = n * q + sl
  BY DivMod
<1>2. K <= n * N + sl /\ (N > 0 => n * (N - 1) + sl < K)
  BY DEF Dealt
<1> HIDE DEF q, sl
<1>3. ASSUME K > k PROVE N > q
  <2>1. n * q < n * N
    BY <1>1, <1>2, <1>3
  <2> QED BY <1>1, <2>1, MulLess
<1>4. ASSUME N > q PROVE K > k
  <2>1. ~(n * (N - 1) < n * q)
    BY <1>1, <1>4, MulLess
  <2>2. N > 0 /\ n * (N - 1) + sl < K
    BY <1>1, <1>2, <1>4
  <2> QED BY <1>1, <2>1, <2>2
<1>5. ASSUME K = k PROVE N = q
  <2>1. ~(N > q)
    BY <1>1, <1>4, <1>5
  <2>2. n * q <= n * N
    BY <1>1, <1>2, <1>5
  <2>3. ~(N < q)
    BY <1>1, <2>2, MulLess
  <2> QED BY <1>1, <2>1, <2>3
<1> QED BY <1>3, <1>4, <1>5 DEF q

(***************************************************************************)
(* Models as _build_model makes them.                                      *)
(***************************************************************************)
Ready(m) == WellFormedModel(m) /\ Precomputed(m) /\ Bracketed(m)

\* Every cursor is a position of its schedule.
InRange(m, cs) ==
    /\ cs \in [DOMAIN m.steps -> Nat]
    /\ \A t \in DOMAIN m.steps : cs[t] <= Len(m.steps[t])

\* What a step of a model is.
LEMMA StepFacts ==
    ASSUME NEW m, WellFormedModel(m), NEW t \in DOMAIN m.steps, NEW i \in DOMAIN m.steps[t]
    PROVE  LET s == m.steps[t][i]
           IN  /\ i \in Nat /\ i >= 1 /\ i <= Len(m.steps[t]) /\ Len(m.steps[t]) \in Nat
               /\ s \in StepType(m) /\ s.rid \in DOMAIN m.stages
               /\ m.stages[s.rid] \in Nat \ {0}
               /\ m.producers[s.rid] \in Nat \ {0} /\ m.consumers[s.rid] \in Nat \ {0}
               /\ s.stage \in BarrierStages =>
                     /\ s.slot \in 0..(m.stages[s.rid] - 1)
                     /\ <<s.rid, s.slot>> \in Records(m)
<1> DEFINE s == m.steps[t][i]
<1>1. m.steps[t] \in Seq(StepType(m))
  BY DEF WellFormedModel
<1>2. s \in StepType(m) /\ i \in Nat /\ i >= 1 /\ i <= Len(m.steps[t]) /\ Len(m.steps[t]) \in Nat
  BY <1>1
<1>3. s.rid \in DOMAIN m.stages
  BY <1>2 DEF StepType
<1>4. /\ m.stages[s.rid] \in Nat \ {0}
      /\ m.producers[s.rid] \in Nat \ {0} /\ m.consumers[s.rid] \in Nat \ {0}
  BY <1>3 DEF WellFormedModel
<1>5. ASSUME s.stage \in BarrierStages
      PROVE  s.slot \in 0..(m.stages[s.rid] - 1) /\ <<s.rid, s.slot>> \in Records(m)
  <2>1. s.slot \in 0..(m.stages[s.rid] - 1)
    BY <1>5 DEF WellFormedModel
  <2> HIDE DEF s
  <2> QED BY <1>3, <2>1 DEF Records
<1> QED BY <1>2, <1>3, <1>4, <1>5

\* The index of a step, from 1 here and from 0 in the code.
LEMMA StepIndex ==
    ASSUME NEW m, WellFormedModel(m), NEW t \in DOMAIN m.steps, NEW i \in DOMAIN m.steps[t]
    PROVE  /\ i \in Nat /\ i - 1 \in Nat /\ (i - 1) + 1 = i /\ i \in 1..Len(m.steps[t])
           /\ i - 1 \in 0..Len(m.steps[t]) /\ Len(m.steps[t]) \in Nat
<1>1. m.steps[t] \in Seq(StepType(m))
  BY DEF WellFormedModel
<1> QED BY <1>1

\* A record is a ring stage of a resource.
LEMMA RecordFacts ==
    ASSUME NEW m, WellFormedModel(m), NEW rec \in Records(m)
    PROVE  /\ rec[1] \in DOMAIN m.stages /\ m.stages[rec[1]] \in Nat \ {0}
           /\ rec[2] \in 0..(m.stages[rec[1]] - 1) /\ rec = <<rec[1], rec[2]>>
           /\ m.producers[rec[1]] \in Nat \ {0} /\ m.consumers[rec[1]] \in Nat \ {0}
BY DEF WellFormedModel, Records

\* Slot and phase of a paired step follow from its ordinal.
LEMMA PairedStep ==
    ASSUME NEW m, Ready(m), NEW t \in DOMAIN m.steps, NEW i \in DOMAIN m.steps[t],
           m.steps[t][i].stage \in PairStages
    PROVE  LET s == m.steps[t][i]
               k == Ordinal(m.steps[t], i)
           IN  /\ k \in Nat
               /\ k = UpTo(On(m.steps[t], s.stage, s.rid), i - 1)
               /\ k = CountOn(m.steps[t], i - 1, s.stage, s.rid)
               /\ i \in On(m.steps[t], s.stage, s.rid)
               /\ s.slot = k % m.stages[s.rid]
               /\ s.phase = (k \div m.stages[s.rid]) % 2
<1> DEFINE s == m.steps[t][i]
           k == Ordinal(m.steps[t], i)
<1>1. i \in Nat /\ i - 1 \in Nat
  BY StepIndex DEF Ready
<1>2. CursorStage(s.stage) = s.stage
  BY DEF PairStages, CursorStage
<1>3. k = CountOn(m.steps[t], i - 1, s.stage, s.rid)
  BY <1>2 DEF Ordinal
<1>4. k = UpTo(On(m.steps[t], s.stage, s.rid), i - 1)
  BY <1>1, <1>3, CountOnIsUpTo
<1>5. k \in Nat
  BY <1>1, <1>4, UpToNext
<1>6. i \in On(m.steps[t], s.stage, s.rid)
  BY <1>1 DEF On
<1>7. s.stage \in BarrierStages
  BY DEF PairStages, BarrierStages
<1>8. s.slot = k % m.stages[s.rid] /\ s.phase = (k \div m.stages[s.rid]) % 2
  BY <1>7 DEF Ready, Precomputed
<1> QED BY <1>3, <1>4, <1>5, <1>6, <1>8

\* The ordinal alone: the steps of its stage and resource before it.
LEMMA StepOrdinal ==
    ASSUME NEW m, Ready(m), NEW t \in DOMAIN m.steps, NEW i \in DOMAIN m.steps[t],
           m.steps[t][i].stage \in PairStages
    PROVE  /\ Ordinal(m.steps[t], i) \in Nat
           /\ Ordinal(m.steps[t], i) = CountOn(m.steps[t], i - 1, m.steps[t][i].stage, m.steps[t][i].rid)
BY PairedStep, Zenon

\* The same as a count of positions.
LEMMA StepPosition ==
    ASSUME NEW m, Ready(m), NEW t \in DOMAIN m.steps, NEW i \in DOMAIN m.steps[t],
           m.steps[t][i].stage \in PairStages
    PROVE  /\ Ordinal(m.steps[t], i) = UpTo(On(m.steps[t], m.steps[t][i].stage, m.steps[t][i].rid), i - 1)
           /\ i \in On(m.steps[t], m.steps[t][i].stage, m.steps[t][i].rid)
BY PairedStep, Zenon

\* All steps of a resource agree on whether the tensor core uses it.
LEMMA DmaOfResource ==
    ASSUME NEW m, Ready(m), NEW t \in DOMAIN m.steps, NEW i \in DOMAIN m.steps[t],
           NEW j \in DOMAIN m.steps[t], m.steps[t][i].rid = m.steps[t][j].rid
    PROVE  m.steps[t][j].dma = m.steps[t][i].dma
<1>1. Precomputed(m)
  BY DEF Ready
<1> QED BY <1>1, Zenon DEF Precomputed

\* The steps of a stage are dealt to the ring stages of the resource in turn.
LEMMA StepsDealt ==
    ASSUME NEW m, Ready(m), NEW t \in DOMAIN m.steps, NEW stage \in PairStages,
           NEW rid \in DOMAIN m.stages, NEW sl \in 0..(m.stages[rid] - 1),
           NEW c \in 0..Len(m.steps[t])
    PROVE  /\ CountOn(m.steps[t], c, stage, rid) \in Nat
           /\ CountAt(m.steps[t], c, stage, rid, sl) \in Nat
           /\ Dealt(CountOn(m.steps[t], c, stage, rid), CountAt(m.steps[t], c, stage, rid, sl),
                    m.stages[rid], sl)
<1> DEFINE ops == m.steps[t]
           n == m.stages[rid]
<1>1. ops \in Seq(StepType(m)) /\ n \in Nat \ {0}
  BY DEF Ready, WellFormedModel
<1>2. Len(ops) \in Nat /\ DOMAIN ops = 1..Len(ops) /\ c \in Nat
      /\ c \in 0..Len(ops) /\ sl \in 0..(n - 1)
  BY <1>1
<1>3. ASSUME NEW i \in 1..Len(ops), i \in On(ops, stage, rid)
      PROVE  ops[i].slot = UpTo(On(ops, stage, rid), i - 1) % n
  <2>1. ops[i].rid = rid /\ ops[i].stage = stage
    BY <1>3 DEF On
  <2>2. i \in DOMAIN ops
    BY <1>2
  <2> QED BY <2>1, <2>2, PairedStep
<1>4. CountOn(ops, c, stage, rid) = UpTo(On(ops, stage, rid), c)
  BY <1>2, CountOnIsUpTo
<1>5. UpTo(On(ops, stage, rid), c) \in Nat /\ CountAt(ops, c, stage, rid, sl) \in Nat
  BY <1>2, UpToNext DEF CountAt
<1>6. Dealt(UpTo(On(ops, stage, rid), c), UpTo(OnSlot(ops, stage, rid, sl), c), n, sl)
  <2> HIDE DEF ops, n
  <2> QED BY <1>1, <1>2, <1>3, RingCount
<1> QED BY <1>4, <1>5, <1>6 DEF CountAt

\* The round of a step on its ring stage.
Round(m, t, i) == Ordinal(m.steps[t], i) \div m.stages[m.steps[t][i].rid]

\* The phase bit of a step is the parity of its round.
LEMMA StepPhase ==
    ASSUME NEW m, Ready(m), NEW t \in DOMAIN m.steps, NEW i \in DOMAIN m.steps[t],
           m.steps[t][i].stage \in PairStages
    PROVE  m.steps[t][i].phase = Round(m, t, i) % 2
BY PairedStep, Zenon DEF Round

\* The ordinals of a resource compare with a step's ordinal as the rounds on
\* its ring stage do with its round, whichever task and stage is counted.
LEMMA RoundCompare ==
    ASSUME NEW m, Ready(m), NEW t \in DOMAIN m.steps, NEW i \in DOMAIN m.steps[t],
           m.steps[t][i].stage \in PairStages,
           NEW u \in DOMAIN m.steps, NEW stage \in PairStages, NEW c \in 0..Len(m.steps[u])
    PROVE  LET s == m.steps[t][i]
           IN  /\ Round(m, t, i) \in Nat
               /\ CountAt(m.steps[u], c, stage, s.rid, s.slot) > Round(m, t, i) <=>
                     CountOn(m.steps[u], c, stage, s.rid) > Ordinal(m.steps[t], i)
               /\ CountOn(m.steps[u], c, stage, s.rid) = Ordinal(m.steps[t], i) =>
                     CountAt(m.steps[u], c, stage, s.rid, s.slot) = Round(m, t, i)
<1> DEFINE s == m.steps[t][i]
           n == m.stages[s.rid]
           k == Ordinal(m.steps[t], i)
           K == CountOn(m.steps[u], c, stage, s.rid)
           N == CountAt(m.steps[u], c, stage, s.rid, s.slot)
<1>1. s.rid \in DOMAIN m.stages /\ n \in Nat \ {0} /\ s.slot \in 0..(n - 1)
  BY StepFacts DEF Ready, PairStages, BarrierStages
<1>2. k \in Nat /\ s.slot = k % n
  BY PairedStep
<1>3. K \in Nat /\ N \in Nat /\ Dealt(K, N, n, s.slot)
  BY <1>1, StepsDealt
<1>4. Round(m, t, i) = k \div n
  BY DEF Round
<1>5. k \div n \in Nat
  BY <1>1, <1>2, DivMod
<1>6. (N > k \div n <=> K > k) /\ (K = k => N = k \div n)
  <2> HIDE DEF k, n, K, N, s
  <2> QED BY <1>1, <1>2, <1>3, RingCompare
<1> QED BY <1>4, <1>5, <1>6

\* A step's round counts the steps of its stage before it on its ring stage.
LEMMA RoundCounts ==
    ASSUME NEW m, Ready(m), NEW t \in DOMAIN m.steps, NEW i \in DOMAIN m.steps[t],
           m.steps[t][i].stage \in PairStages
    PROVE  LET s == m.steps[t][i]
           IN  CountAt(m.steps[t], i - 1, s.stage, s.rid, s.slot) = Round(m, t, i)
<1>1. i - 1 \in 0..Len(m.steps[t])
  BY StepIndex DEF Ready
<1>2. CountOn(m.steps[t], i - 1, m.steps[t][i].stage, m.steps[t][i].rid) = Ordinal(m.steps[t], i)
  BY PairedStep
<1> QED BY <1>1, <1>2, RoundCompare

(***************************************************************************)
(* Producers and consumers of a ring stage advance in lockstep.            *)
(***************************************************************************)

\* The steps of a stage task t has executed on a ring stage.
Done(m, cs, t, stage, rec) == CountAt(m.steps[t], cs[t], stage, rec[1], rec[2])

\* The ring stage has been emptied e times and filled f times.  Who has arrived
\* on a barrier in the current round is one round ahead of who has not.
Filling(m, cs, rec, f) == {t \in ProducersOf(m, rec[1]) : Done(m, cs, t, "ProducerCommit", rec) = f + 1}
Emptying(m, cs, rec, e) == {t \in ConsumersOf(m, rec[1]) : Done(m, cs, t, "ConsumerRelease", rec) = e + 1}

\* A ring stage after e rounds emptied and f filled: its participants are within
\* one round of each other and its two barriers count the arrivals of the round.
Lockstep(m, cs, bs, rec, e, f) ==
    /\ e <= f /\ f <= e + 1
    /\ \A t \in ProducersOf(m, rec[1]) :
          /\ f <= Done(m, cs, t, "ProducerCommit", rec)
          /\ Done(m, cs, t, "ProducerCommit", rec) <= Done(m, cs, t, "ProducerAcquire", rec)
          /\ Done(m, cs, t, "ProducerAcquire", rec) <= e + 1
    /\ \A t \in ConsumersOf(m, rec[1]) :
          /\ e <= Done(m, cs, t, "ConsumerRelease", rec)
          /\ Done(m, cs, t, "ConsumerRelease", rec) <= Done(m, cs, t, "ConsumerWait", rec)
          /\ Done(m, cs, t, "ConsumerWait", rec) <= f
    /\ bs[rec].full = [phase |-> f % 2, arrivals |-> Cardinality(Filling(m, cs, rec, f))]
    /\ bs[rec].empty = [phase |-> (e + 1) % 2, arrivals |-> Cardinality(Emptying(m, cs, rec, e))]

\* Every ring stage is in lockstep.
InLockstep(m, cs, bs) ==
    \A rec \in Records(m) : \E e, f \in Nat : Lockstep(m, cs, bs, rec, e, f)

\* The next step of an unfinished task is a step of the model.
LEMMA NextIndex ==
    ASSUME NEW m, WellFormedModel(m), NEW cs, InRange(m, cs), NEW t \in Unfinished(m, cs)
    PROVE  /\ t \in DOMAIN m.steps /\ cs[t] \in Nat /\ cs[t] + 1 \in DOMAIN m.steps[t]
           /\ cs[t] \in 0..Len(m.steps[t]) /\ cs[t] + 1 \in 0..Len(m.steps[t])
           /\ NextStep(m, cs, t) = m.steps[t][cs[t] + 1]
           /\ (cs[t] + 1) - 1 = cs[t]
<1>1. t \in DOMAIN m.steps /\ cs[t] < Len(m.steps[t]) /\ cs[t] \in Nat
  BY DEF Unfinished, InRange
<1>2. m.steps[t] \in Seq(StepType(m))
  BY <1>1 DEF WellFormedModel
<1> QED BY <1>1, <1>2 DEF NextStep

\* An unfinished task may advance.
LEMMA RangeAfter ==
    ASSUME NEW m, WellFormedModel(m), NEW cs, InRange(m, cs), NEW t \in Unfinished(m, cs)
    PROVE  InRange(m, [cs EXCEPT ![t] = @ + 1])
<1>1. t \in DOMAIN m.steps /\ cs[t] \in Nat /\ cs[t] + 1 \in 0..Len(m.steps[t])
  BY NextIndex
<1> QED BY <1>1 DEF InRange

\* The rounds a task has done are a natural number.
LEMMA DoneType ==
    ASSUME NEW m, WellFormedModel(m), NEW cs, InRange(m, cs), NEW u \in DOMAIN m.steps, NEW stage, NEW rec
    PROVE  /\ Done(m, cs, u, stage, rec) \in Nat /\ cs[u] \in Nat
           /\ cs[u] \in 0..Len(m.steps[u]) /\ Len(m.steps[u]) \in Nat
<1>1. cs[u] \in Nat /\ cs[u] <= Len(m.steps[u])
  BY DEF InRange
<1>2. m.steps[u] \in Seq(StepType(m))
  BY DEF WellFormedModel
<1>3. Len(m.steps[u]) \in Nat
  BY <1>2
<1> QED BY <1>1, <1>3, UpToNext DEF Done, CountAt

\* A step counts once, for its own task, stage and ring stage.
LEMMA DoneNext ==
    ASSUME NEW m, WellFormedModel(m), NEW cs, InRange(m, cs), NEW t \in Unfinished(m, cs),
           NEW u \in DOMAIN m.steps, NEW stage, NEW rec \in Records(m)
    PROVE  LET s  == NextStep(m, cs, t)
               ds == [cs EXCEPT ![t] = @ + 1]
           IN  /\ u = t /\ s.stage = stage /\ <<s.rid, s.slot>> = rec =>
                     Done(m, ds, u, stage, rec) = Done(m, cs, u, stage, rec) + 1
               /\ ~(u = t /\ s.stage = stage /\ <<s.rid, s.slot>> = rec) =>
                     Done(m, ds, u, stage, rec) = Done(m, cs, u, stage, rec)
<1> DEFINE s == NextStep(m, cs, t)
           ds == [cs EXCEPT ![t] = @ + 1]
           S == OnSlot(m.steps[t], stage, rec[1], rec[2])
<1>1. t \in DOMAIN m.steps /\ cs[t] \in Nat /\ s = m.steps[t][cs[t] + 1]
  BY NextIndex
<1>2. rec = <<rec[1], rec[2]>>
  BY RecordFacts
<1>3. cs[t] + 1 \in S <=> s.stage = stage /\ <<s.rid, s.slot>> = rec
  <2>1. cs[t] + 1 \in Nat
    BY <1>1
  <2>2. cs[t] + 1 \in S <=> s.stage = stage /\ s.rid = rec[1] /\ s.slot = rec[2]
    BY <1>1, <2>1 DEF OnSlot, On
  <2> HIDE DEF s, S
  <2> QED BY <1>2, <2>2
<1>4. u # t => ds[u] = cs[u]
  BY DEF InRange
<1>5. ds[t] = cs[t] + 1
  BY <1>1 DEF InRange
<1>6. /\ cs[t] + 1 \in S => UpTo(S, cs[t] + 1) = UpTo(S, cs[t]) + 1
      /\ cs[t] + 1 \notin S => UpTo(S, cs[t] + 1) = UpTo(S, cs[t])
  BY <1>1, UpToNext
<1>7. CASE u # t
  BY <1>4, <1>7 DEF Done
<1>8. CASE u = t
  <2>1. Done(m, cs, u, stage, rec) = UpTo(S, cs[t]) /\ Done(m, ds, u, stage, rec) = UpTo(S, cs[t] + 1)
    BY <1>5, <1>8 DEF Done, CountAt
  <2> HIDE DEF s, ds, S
  <2> QED BY <1>3, <1>6, <1>8, <2>1 DEF s, ds
<1> QED BY <1>7, <1>8

\* What a step does to the barriers of one record.
LEMMA RecordAfter ==
    ASSUME NEW m, NEW s, NEW bs \in BarrierVectors(m), NEW rec \in Records(m),
           NEW own, own = <<s.rid, s.slot>>, s.stage \in PairStages => own \in Records(m),
           NEW cr, cr = BarriersAfter(m, s, bs)
    PROVE  /\ s.stage = "ProducerCommit" /\ own = rec =>
                 cr[rec].full = Arrive(bs[rec].full, m.producers[s.rid])
           /\ ~(s.stage = "ProducerCommit" /\ own = rec) => cr[rec].full = bs[rec].full
           /\ s.stage = "ConsumerRelease" /\ own = rec =>
                 cr[rec].empty = Arrive(bs[rec].empty, m.consumers[s.rid])
           /\ ~(s.stage = "ConsumerRelease" /\ own = rec) => cr[rec].empty = bs[rec].empty
<1>1. bs \in [Records(m) -> [full : Barrier, empty : Barrier]]
  BY DEF BarrierVectors
<1>2. CASE s.stage = "ProducerCommit"
  <2>1. own \in Records(m)
    BY <1>2 DEF PairStages
  <2>2. cr = [bs EXCEPT ![own].full = Arrive(@, m.producers[s.rid])]
    BY <1>2 DEF BarriersAfter
  <2>3. cr[rec].empty = bs[rec].empty
    BY <1>1, <2>1, <2>2
  <2>4. own = rec => cr[rec].full = Arrive(bs[rec].full, m.producers[s.rid])
    <3>1. cr[own] = [bs[own] EXCEPT !.full = Arrive(@, m.producers[s.rid])]
      BY <1>1, <2>1, <2>2
    <3>2. bs[own] \in [full : Barrier, empty : Barrier]
      BY <1>1, <2>1
    <3> QED BY <3>1, <3>2
  <2>5. own # rec => cr[rec].full = bs[rec].full
    BY <1>1, <2>1, <2>2
  <2> QED BY <1>2, <2>3, <2>4, <2>5
<1>3. CASE s.stage = "ConsumerRelease"
  <2>1. own \in Records(m)
    BY <1>3 DEF PairStages
  <2>2. cr = [bs EXCEPT ![own].empty = Arrive(@, m.consumers[s.rid])]
    BY <1>3 DEF BarriersAfter
  <2> QED BY <1>1, <1>3, <2>1, <2>2
<1>4. CASE s.stage # "ProducerCommit" /\ s.stage # "ConsumerRelease"
  BY <1>4 DEF BarriersAfter
<1> QED BY <1>2, <1>3, <1>4

\* A program has finitely many tasks, and they are numbered.
LEMMA TasksFinite ==
    ASSUME NEW m, WellFormedModel(m)
    PROVE  IsFiniteSet(DOMAIN m.steps) /\ DOMAIN m.steps \subseteq Nat
<1>1. Len(m.steps) \in Nat /\ DOMAIN m.steps = 1..Len(m.steps)
  BY DEF WellFormedModel
<1>2. \A n \in Nat : IsFiniteSet(1..n) /\ 1..n \subseteq Nat
  BY FS_Interval
<1> QED BY <1>1, <1>2, Zenon

\* The participants of a resource are finitely many, and no more than its barriers expect.
LEMMA ParticipantFacts ==
    ASSUME NEW m, Ready(m), NEW rid \in DOMAIN m.stages
    PROVE  /\ IsFiniteSet(ProducersOf(m, rid)) /\ IsFiniteSet(ConsumersOf(m, rid))
           /\ Cardinality(ProducersOf(m, rid)) <= m.producers[rid]
           /\ Cardinality(ConsumersOf(m, rid)) <= m.consumers[rid]
           /\ m.producers[rid] \in Nat \ {0} /\ m.consumers[rid] \in Nat \ {0}
           /\ ProducersOf(m, rid) \subseteq DOMAIN m.steps
           /\ ConsumersOf(m, rid) \subseteq DOMAIN m.steps
<1>1. IsFiniteSet(DOMAIN m.steps)
  BY TasksFinite DEF Ready
<1>2. ProducersOf(m, rid) \subseteq DOMAIN m.steps /\ ConsumersOf(m, rid) \subseteq DOMAIN m.steps
  BY DEF ProducersOf, ConsumersOf
<1>3. IsFiniteSet(ProducersOf(m, rid)) /\ IsFiniteSet(ConsumersOf(m, rid))
  BY <1>1, <1>2, FS_Subset
<1> QED BY <1>2, <1>3 DEF Ready, Bracketed, WellFormedModel

\* One more arrival: a group that is not complete grows by its new member, and
\* the barrier flips exactly when the group becomes complete.
LEMMA GroupArrives ==
    ASSUME NEW P, IsFiniteSet(P), NEW expected \in Nat \ {0}, Cardinality(P) <= expected,
           NEW G \in SUBSET P, NEW t \in P, t \notin G,
           NEW p, NEW b, b = [phase |-> p, arrivals |-> Cardinality(G)]
    PROVE  \/ G \cup {t} = P /\ Arrive(b, expected) = [phase |-> 1 - p, arrivals |-> 0]
           \/ Arrive(b, expected) = [phase |-> p, arrivals |-> Cardinality(G \cup {t})]
<1>1. IsFiniteSet(G) /\ IsFiniteSet(G \cup {t}) /\ G \cup {t} \subseteq P
  BY FS_Subset
<1>2. Cardinality(G \cup {t}) = Cardinality(G) + 1 /\ Cardinality(G) \in Nat
  BY <1>1, FS_AddElement, FS_CardinalityType
<1>3. Cardinality(G \cup {t}) <= Cardinality(P) /\ Cardinality(P) \in Nat
  BY <1>1, FS_Subset, FS_CardinalityType
<1>4. CASE Cardinality(G) + 1 >= expected
  <2>1. Cardinality(G \cup {t}) = Cardinality(P)
    BY <1>2, <1>3, <1>4
  <2>2. G \cup {t} = P
    BY <1>1, <2>1, FS_Subset
  <2> QED BY <1>4, <2>2 DEF Arrive
<1>5. CASE Cardinality(G) + 1 < expected
  BY <1>2, <1>5 DEF Arrive
<1> QED BY <1>2, <1>4, <1>5

\* A step of a pair makes its task a participant.
LEMMA Participates ==
    ASSUME NEW m, NEW t \in DOMAIN m.steps, NEW i \in DOMAIN m.steps[t]
    PROVE  LET s == m.steps[t][i]
           IN  /\ s.stage \in {"ProducerAcquire", "ProducerCommit"} => t \in ProducersOf(m, s.rid)
               /\ s.stage \in {"ConsumerWait", "ConsumerRelease"} => t \in ConsumersOf(m, s.rid)
BY DEF ProducersOf, ConsumersOf

\* The ring stage a step of a pair addresses.
LEMMA NextRecord ==
    ASSUME NEW m, WellFormedModel(m), NEW cs, InRange(m, cs), NEW t \in Unfinished(m, cs),
           NextStep(m, cs, t).stage \in PairStages
    PROVE  <<NextStep(m, cs, t).rid, NextStep(m, cs, t).slot>> \in Records(m)
<1> DEFINE s == NextStep(m, cs, t)
<1>1. t \in DOMAIN m.steps /\ cs[t] + 1 \in DOMAIN m.steps[t] /\ s = m.steps[t][cs[t] + 1]
  BY NextIndex
<1>2. s.stage \in BarrierStages
  BY DEF PairStages, BarrierStages
<1> QED BY <1>1, <1>2, StepFacts

\* A step that can be taken is in the round its ring stage has reached.
LEMMA NextRound ==
    ASSUME NEW m, Ready(m), NEW cs, InRange(m, cs), NEW bs, NEW t \in Unfinished(m, cs),
           StepEnabled(NextStep(m, cs, t), bs), NEW rec, NEW e \in Nat, NEW f \in Nat,
           rec = <<NextStep(m, cs, t).rid, NextStep(m, cs, t).slot>>,
           Lockstep(m, cs, bs, rec, e, f)
    PROVE  LET s == NextStep(m, cs, t)
           IN  /\ s.stage = "ProducerAcquire" => f = e /\ Done(m, cs, t, s.stage, rec) = e
               /\ s.stage = "ProducerCommit"  => f = e /\ Done(m, cs, t, s.stage, rec) = f
                                                       /\ Done(m, cs, t, "ProducerAcquire", rec) = f + 1
               /\ s.stage = "ConsumerWait"    => f = e + 1 /\ Done(m, cs, t, s.stage, rec) = e
               /\ s.stage = "ConsumerRelease" => f = e + 1 /\ Done(m, cs, t, s.stage, rec) = e
                                                       /\ Done(m, cs, t, "ConsumerWait", rec) = f
<1> DEFINE s == NextStep(m, cs, t)
           i == cs[t] + 1
           n(stage) == Done(m, cs, t, stage, rec)
<1>1. /\ t \in DOMAIN m.steps /\ cs[t] \in Nat /\ i \in DOMAIN m.steps[t]
      /\ cs[t] \in 0..Len(m.steps[t]) /\ s = m.steps[t][i] /\ i - 1 = cs[t]
  BY NextIndex DEF Ready
<1>2. rec[1] = s.rid /\ rec[2] = s.slot
  OBVIOUS
<1>3. \A stage : n(stage) \in Nat
  BY <1>1, DoneType DEF Ready
<1>4. s.stage \in PairStages =>
        /\ n(s.stage) = Round(m, t, i)
        /\ s.phase = Round(m, t, i) % 2
  <2> SUFFICES ASSUME s.stage \in PairStages
               PROVE  n(s.stage) = Round(m, t, i) /\ s.phase = Round(m, t, i) % 2
    OBVIOUS
  <2>1. CountAt(m.steps[t], i - 1, s.stage, s.rid, s.slot) = Round(m, t, i)
    BY <1>1, RoundCounts
  <2>2. s.phase = Round(m, t, i) % 2
    BY <1>1, StepPhase
  <2> QED BY <1>1, <1>2, <2>1, <2>2 DEF Done
<1>5. s.stage \in {"ProducerAcquire", "ProducerCommit"} =>
        f <= n("ProducerCommit") /\ n("ProducerCommit") <= n("ProducerAcquire")
        /\ n("ProducerAcquire") <= e + 1
  <2>1. s.stage \in {"ProducerAcquire", "ProducerCommit"} => t \in ProducersOf(m, rec[1])
    BY <1>1, <1>2, Participates
  <2> QED BY <2>1 DEF Lockstep
<1>6. s.stage \in {"ConsumerWait", "ConsumerRelease"} =>
        e <= n("ConsumerRelease") /\ n("ConsumerRelease") <= n("ConsumerWait")
        /\ n("ConsumerWait") <= f
  <2>1. s.stage \in {"ConsumerWait", "ConsumerRelease"} => t \in ConsumersOf(m, rec[1])
    BY <1>1, <1>2, Participates
  <2> QED BY <2>1 DEF Lockstep
<1>7. e <= f /\ f <= e + 1 /\ bs[rec].full.phase = f % 2 /\ bs[rec].empty.phase = (e + 1) % 2
  BY DEF Lockstep
<1>8. ASSUME s.stage = "ProducerAcquire" PROVE f = e /\ n("ProducerAcquire") = e
  <2>1. bs[rec].empty.phase # s.phase
    BY <1>8 DEF StepEnabled
  <2>2. (e + 1) % 2 # n("ProducerAcquire") % 2
    BY <1>4, <1>7, <1>8, <2>1 DEF PairStages
  <2>3. n("ProducerAcquire") # e + 1
    BY <2>2
  <2> QED BY <1>3, <1>5, <1>7, <1>8, <2>3
<1>9. ASSUME s.stage = "ConsumerWait" PROVE f = e + 1 /\ n("ConsumerWait") = e
  <2>1. bs[rec].full.phase # s.phase
    BY <1>9 DEF StepEnabled
  <2>2. f % 2 # n("ConsumerWait") % 2
    BY <1>4, <1>7, <1>9, <2>1 DEF PairStages
  <2>3. n("ConsumerWait") # f
    BY <2>2
  <2> QED BY <1>3, <1>6, <1>7, <1>9, <2>3
<1>10. ASSUME s.stage = "ProducerCommit"
       PROVE  f = e /\ n("ProducerCommit") = f /\ n("ProducerAcquire") = f + 1
  <2>1. CountOn(m.steps[t], i - 1, "ProducerCommit", s.rid)
          < CountOn(m.steps[t], i - 1, "ProducerAcquire", s.rid)
    BY <1>1, <1>10 DEF Ready, Bracketed
  <2>2. Ordinal(m.steps[t], i) = CountOn(m.steps[t], i - 1, "ProducerCommit", s.rid)
        /\ Ordinal(m.steps[t], i) \in Nat
    BY <1>1, <1>10, StepOrdinal DEF PairStages
  <2>3. /\ CountAt(m.steps[t], cs[t], "ProducerAcquire", s.rid, s.slot) > Round(m, t, i) <=>
             CountOn(m.steps[t], cs[t], "ProducerAcquire", s.rid) > Ordinal(m.steps[t], i)
    BY <1>1, <1>10, RoundCompare DEF PairStages
  <2>4. CountOn(m.steps[t], cs[t], "ProducerAcquire", s.rid) > Ordinal(m.steps[t], i)
    <3>1. CountOn(m.steps[t], i - 1, "ProducerAcquire", s.rid) \in Nat
      BY <1>1, CountOnType
    <3> QED BY <1>1, <2>1, <2>2, <3>1
  <2>5. n("ProducerAcquire") > n("ProducerCommit")
    BY <1>2, <1>4, <1>10, <2>3, <2>4 DEF Done, PairStages
  <2> QED BY <1>3, <1>5, <1>7, <1>10, <2>5
<1>11. ASSUME s.stage = "ConsumerRelease"
       PROVE  f = e + 1 /\ n("ConsumerRelease") = e /\ n("ConsumerWait") = f
  <2>1. CountOn(m.steps[t], i - 1, "ConsumerRelease", s.rid)
          < CountOn(m.steps[t], i - 1, "ConsumerWait", s.rid)
    BY <1>1, <1>11 DEF Ready, Bracketed
  <2>2. Ordinal(m.steps[t], i) = CountOn(m.steps[t], i - 1, "ConsumerRelease", s.rid)
        /\ Ordinal(m.steps[t], i) \in Nat
    BY <1>1, <1>11, StepOrdinal DEF PairStages
  <2>3. /\ CountAt(m.steps[t], cs[t], "ConsumerWait", s.rid, s.slot) > Round(m, t, i) <=>
             CountOn(m.steps[t], cs[t], "ConsumerWait", s.rid) > Ordinal(m.steps[t], i)
    BY <1>1, <1>11, RoundCompare DEF PairStages
  <2>4. CountOn(m.steps[t], cs[t], "ConsumerWait", s.rid) > Ordinal(m.steps[t], i)
    <3>1. CountOn(m.steps[t], i - 1, "ConsumerWait", s.rid) \in Nat
      BY <1>1, CountOnType
    <3> QED BY <1>1, <2>1, <2>2, <3>1
  <2>5. n("ConsumerWait") > n("ConsumerRelease")
    BY <1>2, <1>4, <1>11, <2>3, <2>4 DEF Done, PairStages
  <2> QED BY <1>3, <1>6, <1>7, <1>11, <2>5
<1> HIDE DEF s, i, n
<1>12. /\ s.stage = "ProducerAcquire" => f = e /\ n(s.stage) = e
       /\ s.stage = "ProducerCommit"  => f = e /\ n(s.stage) = f /\ n("ProducerAcquire") = f + 1
       /\ s.stage = "ConsumerWait"    => f = e + 1 /\ n(s.stage) = e
       /\ s.stage = "ConsumerRelease" => f = e + 1 /\ n(s.stage) = e /\ n("ConsumerWait") = f
  BY <1>8, <1>9, <1>10, <1>11
<1> QED BY <1>12 DEF s, n

\* The phase bit flips with every round.
LEMMA Parity ==
    ASSUME NEW f \in Nat
    PROVE  1 - (f % 2) = (f + 1) % 2 /\ f % 2 \in {0, 1}
OBVIOUS

\* Lockstep only looks at what the participants have done and at the two barriers.
LEMMA LockstepSame ==
    ASSUME NEW m, NEW cs, NEW ds, NEW bs, NEW cr, NEW rec, NEW e, NEW f,
           Lockstep(m, cs, bs, rec, e, f),
           \A u \in ProducersOf(m, rec[1]) \cup ConsumersOf(m, rec[1]) : \A stage \in PairStages :
               Done(m, ds, u, stage, rec) = Done(m, cs, u, stage, rec),
           cr[rec].full = bs[rec].full, cr[rec].empty = bs[rec].empty
    PROVE  Lockstep(m, ds, cr, rec, e, f)
<1>1. Filling(m, ds, rec, f) = Filling(m, cs, rec, f)
  BY DEF Filling, PairStages
<1>2. Emptying(m, ds, rec, e) = Emptying(m, cs, rec, e)
  BY DEF Emptying, PairStages
<1> QED BY <1>1, <1>2 DEF Lockstep, PairStages

\* Each kind of step keeps the participants of its ring stage in lockstep.
LEMMA LockstepAcquire ==
    ASSUME NEW m, Ready(m), NEW cs, NEW ds, NEW bs, NEW rec \in Records(m),
           NEW e \in Nat, NEW f \in Nat, Lockstep(m, cs, bs, rec, e, f),
           InRange(m, cs), NEW t \in DOMAIN m.steps, f = e,
           Done(m, cs, t, "ProducerAcquire", rec) = e,
           Done(m, ds, t, "ProducerAcquire", rec) = e + 1,
           \A u \in DOMAIN m.steps : \A stage \in PairStages :
               ~(u = t /\ stage = "ProducerAcquire") =>
                    Done(m, ds, u, stage, rec) = Done(m, cs, u, stage, rec)
    PROVE  Lockstep(m, ds, bs, rec, e, f)
<1>0. ProducersOf(m, rec[1]) \subseteq DOMAIN m.steps /\ ConsumersOf(m, rec[1]) \subseteq DOMAIN m.steps
  BY RecordFacts, ParticipantFacts DEF Ready
<1>1. Filling(m, ds, rec, f) = Filling(m, cs, rec, f)
  BY <1>0 DEF Filling, PairStages
<1>2. Emptying(m, ds, rec, e) = Emptying(m, cs, rec, e)
  BY <1>0 DEF Emptying, PairStages
<1>3. ASSUME NEW u \in ProducersOf(m, rec[1])
      PROVE  /\ f <= Done(m, ds, u, "ProducerCommit", rec)
             /\ Done(m, ds, u, "ProducerCommit", rec) <= Done(m, ds, u, "ProducerAcquire", rec)
             /\ Done(m, ds, u, "ProducerAcquire", rec) <= e + 1
  <2>1. /\ f <= Done(m, cs, u, "ProducerCommit", rec)
        /\ Done(m, cs, u, "ProducerCommit", rec) <= Done(m, cs, u, "ProducerAcquire", rec)
        /\ Done(m, cs, u, "ProducerAcquire", rec) <= e + 1
    BY DEF Lockstep
  <2>2. Done(m, ds, u, "ProducerCommit", rec) = Done(m, cs, u, "ProducerCommit", rec)
    BY <1>0 DEF PairStages
  <2>3. \A stage : Done(m, cs, u, stage, rec) \in Nat
    BY <1>0, DoneType DEF Ready
  <2>4. u # t => Done(m, ds, u, "ProducerAcquire", rec) = Done(m, cs, u, "ProducerAcquire", rec)
    BY <1>0 DEF PairStages
  <2> QED BY <2>1, <2>2, <2>3, <2>4
<1>4. ASSUME NEW u \in ConsumersOf(m, rec[1])
      PROVE  /\ e <= Done(m, ds, u, "ConsumerRelease", rec)
             /\ Done(m, ds, u, "ConsumerRelease", rec) <= Done(m, ds, u, "ConsumerWait", rec)
             /\ Done(m, ds, u, "ConsumerWait", rec) <= f
  BY <1>0 DEF Lockstep, PairStages
<1> QED BY <1>1, <1>2, <1>3, <1>4 DEF Lockstep

\* A consumer that waits for a full stage joins the round.
LEMMA LockstepWait ==
    ASSUME NEW m, Ready(m), NEW cs, NEW ds, NEW bs, NEW rec \in Records(m),
           NEW e \in Nat, NEW f \in Nat, Lockstep(m, cs, bs, rec, e, f),
           InRange(m, cs), NEW t \in DOMAIN m.steps, f = e + 1,
           Done(m, cs, t, "ConsumerWait", rec) = e,
           Done(m, ds, t, "ConsumerWait", rec) = e + 1,
           \A u \in DOMAIN m.steps : \A stage \in PairStages :
               ~(u = t /\ stage = "ConsumerWait") =>
                    Done(m, ds, u, stage, rec) = Done(m, cs, u, stage, rec)
    PROVE  Lockstep(m, ds, bs, rec, e, f)
<1>0. ProducersOf(m, rec[1]) \subseteq DOMAIN m.steps /\ ConsumersOf(m, rec[1]) \subseteq DOMAIN m.steps
  BY RecordFacts, ParticipantFacts DEF Ready
<1>1. Filling(m, ds, rec, f) = Filling(m, cs, rec, f)
  BY <1>0 DEF Filling, PairStages
<1>2. Emptying(m, ds, rec, e) = Emptying(m, cs, rec, e)
  BY <1>0 DEF Emptying, PairStages
<1>3. ASSUME NEW u \in ProducersOf(m, rec[1])
      PROVE  /\ f <= Done(m, ds, u, "ProducerCommit", rec)
             /\ Done(m, ds, u, "ProducerCommit", rec) <= Done(m, ds, u, "ProducerAcquire", rec)
             /\ Done(m, ds, u, "ProducerAcquire", rec) <= e + 1
  BY <1>0 DEF Lockstep, PairStages
<1>4. ASSUME NEW u \in ConsumersOf(m, rec[1])
      PROVE  /\ e <= Done(m, ds, u, "ConsumerRelease", rec)
             /\ Done(m, ds, u, "ConsumerRelease", rec) <= Done(m, ds, u, "ConsumerWait", rec)
             /\ Done(m, ds, u, "ConsumerWait", rec) <= f
  <2>1. /\ e <= Done(m, cs, u, "ConsumerRelease", rec)
        /\ Done(m, cs, u, "ConsumerRelease", rec) <= Done(m, cs, u, "ConsumerWait", rec)
        /\ Done(m, cs, u, "ConsumerWait", rec) <= f
    BY DEF Lockstep
  <2>2. Done(m, ds, u, "ConsumerRelease", rec) = Done(m, cs, u, "ConsumerRelease", rec)
    BY <1>0 DEF PairStages
  <2>3. \A stage : Done(m, cs, u, stage, rec) \in Nat
    BY <1>0, DoneType DEF Ready
  <2>4. u # t => Done(m, ds, u, "ConsumerWait", rec) = Done(m, cs, u, "ConsumerWait", rec)
    BY <1>0 DEF PairStages
  <2> QED BY <2>1, <2>2, <2>3, <2>4
<1> QED BY <1>1, <1>2, <1>3, <1>4 DEF Lockstep

\* A producer's commit fills its part of the round; the last one flips the phase.
LEMMA LockstepCommit ==
    ASSUME NEW m, Ready(m), NEW cs, NEW ds, NEW bs, NEW cr, NEW rec \in Records(m),
           NEW e \in Nat, NEW f \in Nat, Lockstep(m, cs, bs, rec, e, f),
           InRange(m, cs), NEW t \in ProducersOf(m, rec[1]), f = e,
           Done(m, cs, t, "ProducerCommit", rec) = f, Done(m, cs, t, "ProducerAcquire", rec) = f + 1,
           Done(m, ds, t, "ProducerCommit", rec) = f + 1,
           \A u \in DOMAIN m.steps : \A stage \in PairStages :
               ~(u = t /\ stage = "ProducerCommit") =>
                    Done(m, ds, u, stage, rec) = Done(m, cs, u, stage, rec),
           cr[rec].full = Arrive(bs[rec].full, m.producers[rec[1]]), cr[rec].empty = bs[rec].empty
    PROVE  \/ Lockstep(m, ds, cr, rec, e, f)
           \/ Lockstep(m, ds, cr, rec, e, f + 1)
<1> DEFINE P == ProducersOf(m, rec[1])
           G == Filling(m, cs, rec, f)
<1>0. /\ P \subseteq DOMAIN m.steps /\ ConsumersOf(m, rec[1]) \subseteq DOMAIN m.steps
      /\ IsFiniteSet(P) /\ Cardinality(P) <= m.producers[rec[1]] /\ m.producers[rec[1]] \in Nat \ {0}
  BY RecordFacts, ParticipantFacts DEF Ready
<1>1. \A u \in P : \A stage : Done(m, cs, u, stage, rec) \in Nat
  BY <1>0, DoneType DEF Ready
<1>2. Emptying(m, ds, rec, e) = Emptying(m, cs, rec, e)
  BY <1>0 DEF Emptying, PairStages
<1>3. ASSUME NEW u \in P
      PROVE  /\ Done(m, ds, u, "ProducerCommit", rec) =
                  IF u = t THEN f + 1 ELSE Done(m, cs, u, "ProducerCommit", rec)
             /\ Done(m, ds, u, "ProducerAcquire", rec) = Done(m, cs, u, "ProducerAcquire", rec)
             /\ f <= Done(m, cs, u, "ProducerCommit", rec)
             /\ Done(m, cs, u, "ProducerCommit", rec) <= Done(m, cs, u, "ProducerAcquire", rec)
             /\ Done(m, cs, u, "ProducerAcquire", rec) <= e + 1
  <2>1. /\ f <= Done(m, cs, u, "ProducerCommit", rec)
        /\ Done(m, cs, u, "ProducerCommit", rec) <= Done(m, cs, u, "ProducerAcquire", rec)
        /\ Done(m, cs, u, "ProducerAcquire", rec) <= e + 1
    BY DEF Lockstep
  <2>2. u \in DOMAIN m.steps
    BY <1>0
  <2> QED BY <2>1, <2>2 DEF PairStages
<1>4. ASSUME NEW u \in P
      PROVE  /\ f <= Done(m, ds, u, "ProducerCommit", rec)
             /\ Done(m, ds, u, "ProducerCommit", rec) <= Done(m, ds, u, "ProducerAcquire", rec)
             /\ Done(m, ds, u, "ProducerAcquire", rec) <= e + 1
             /\ Done(m, ds, u, "ProducerCommit", rec) \in {f, f + 1}
  BY <1>1, <1>3
<1>5. ASSUME NEW u \in ConsumersOf(m, rec[1])
      PROVE  /\ e <= Done(m, ds, u, "ConsumerRelease", rec)
             /\ Done(m, ds, u, "ConsumerRelease", rec) <= Done(m, ds, u, "ConsumerWait", rec)
             /\ Done(m, ds, u, "ConsumerWait", rec) <= f
  BY <1>0 DEF Lockstep, PairStages
<1>6. G \in SUBSET P /\ t \notin G
  BY DEF Filling
<1>7. Filling(m, ds, rec, f) = G \cup {t}
  BY <1>3 DEF Filling
<1>8. bs[rec].full = [phase |-> f % 2, arrivals |-> Cardinality(G)] /\ f % 2 \in {0, 1}
      /\ 1 - (f % 2) = (f + 1) % 2
  BY Parity DEF Lockstep
<1>9. cr[rec].empty = [phase |-> (e + 1) % 2, arrivals |-> Cardinality(Emptying(m, ds, rec, e))]
  BY <1>2 DEF Lockstep
<1>10. \/ /\ G \cup {t} = P
          /\ cr[rec].full = [phase |-> 1 - (f % 2), arrivals |-> 0]
       \/ cr[rec].full = [phase |-> f % 2, arrivals |-> Cardinality(G \cup {t})]
  <2> DEFINE p == f % 2
             b == bs[rec].full
             n == m.producers[rec[1]]
  <2>1. t \in P /\ b = [phase |-> p, arrivals |-> Cardinality(G)] /\ cr[rec].full = Arrive(b, n)
        /\ IsFiniteSet(P) /\ Cardinality(P) <= n /\ n \in Nat \ {0}
    BY <1>0, <1>8
  <2> HIDE DEF P, G, p, b, n
  <2>2. \/ G \cup {t} = P /\ Arrive(b, n) = [phase |-> 1 - p, arrivals |-> 0]
        \/ Arrive(b, n) = [phase |-> p, arrivals |-> Cardinality(G \cup {t})]
    BY <1>6, <2>1, GroupArrives
  <2> QED BY <2>1, <2>2 DEF p
<1>11. CASE cr[rec].full = [phase |-> f % 2, arrivals |-> Cardinality(G \cup {t})]
  <2>1. Lockstep(m, ds, cr, rec, e, f)
    BY <1>4, <1>5, <1>7, <1>9, <1>11 DEF Lockstep
  <2> QED BY <2>1
<1>12. CASE G \cup {t} = P /\ cr[rec].full = [phase |-> 1 - (f % 2), arrivals |-> 0]
  <2>1. \A u \in P : Done(m, ds, u, "ProducerCommit", rec) = f + 1
    BY <1>3, <1>12 DEF Filling
  <2>2. Filling(m, ds, rec, f + 1) = {}
    BY <2>1 DEF Filling
  <2>3. Cardinality(Filling(m, ds, rec, f + 1)) = 0
    BY <2>2, FS_EmptySet
  <2>4. \A u \in ConsumersOf(m, rec[1]) : Done(m, ds, u, "ConsumerWait", rec) \in Int
    <3> SUFFICES ASSUME NEW u \in ConsumersOf(m, rec[1])
                 PROVE  Done(m, ds, u, "ConsumerWait", rec) \in Int
      OBVIOUS
    <3>1. Done(m, cs, u, "ConsumerWait", rec) \in Nat
      BY <1>0, DoneType DEF Ready
    <3> QED BY <1>0, <3>1 DEF PairStages
  <2>5. \A u \in ConsumersOf(m, rec[1]) : Done(m, ds, u, "ConsumerWait", rec) <= f + 1
    BY <1>5, <2>4
  <2>6. cr[rec].full = [phase |-> (f + 1) % 2, arrivals |-> Cardinality(Filling(m, ds, rec, f + 1))]
    BY <1>8, <1>12, <2>3
  <2>7. e <= f + 1 /\ f + 1 <= e + 1
    OBVIOUS
  <2>8. \A u \in P : f + 1 <= Done(m, ds, u, "ProducerCommit", rec)
    BY <2>1
  <2> HIDE DEF P, G
  <2>9. Lockstep(m, ds, cr, rec, e, f + 1)
    BY <1>4, <1>5, <1>9, <2>5, <2>6, <2>7, <2>8 DEF Lockstep, P
  <2> QED BY <2>9
<1> QED BY <1>10, <1>11, <1>12

\* A consumer's release empties its part of the round; the last one flips the phase.
LEMMA LockstepRelease ==
    ASSUME NEW m, Ready(m), NEW cs, NEW ds, NEW bs, NEW cr, NEW rec \in Records(m),
           NEW e \in Nat, NEW f \in Nat, Lockstep(m, cs, bs, rec, e, f),
           InRange(m, cs), NEW t \in ConsumersOf(m, rec[1]), f = e + 1,
           Done(m, cs, t, "ConsumerRelease", rec) = e, Done(m, cs, t, "ConsumerWait", rec) = f,
           Done(m, ds, t, "ConsumerRelease", rec) = e + 1,
           \A u \in DOMAIN m.steps : \A stage \in PairStages :
               ~(u = t /\ stage = "ConsumerRelease") =>
                    Done(m, ds, u, stage, rec) = Done(m, cs, u, stage, rec),
           cr[rec].empty = Arrive(bs[rec].empty, m.consumers[rec[1]]), cr[rec].full = bs[rec].full
    PROVE  \/ Lockstep(m, ds, cr, rec, e, f)
           \/ Lockstep(m, ds, cr, rec, e + 1, f)
<1> DEFINE P == ConsumersOf(m, rec[1])
           G == Emptying(m, cs, rec, e)
<1>0. /\ P \subseteq DOMAIN m.steps /\ ProducersOf(m, rec[1]) \subseteq DOMAIN m.steps
      /\ IsFiniteSet(P) /\ Cardinality(P) <= m.consumers[rec[1]] /\ m.consumers[rec[1]] \in Nat \ {0}
  BY RecordFacts, ParticipantFacts DEF Ready
<1>1. \A u \in P : \A stage : Done(m, cs, u, stage, rec) \in Nat
  BY <1>0, DoneType DEF Ready
<1>2. Filling(m, ds, rec, f) = Filling(m, cs, rec, f)
  BY <1>0 DEF Filling, PairStages
<1>3. ASSUME NEW u \in P
      PROVE  /\ Done(m, ds, u, "ConsumerRelease", rec) =
                  IF u = t THEN e + 1 ELSE Done(m, cs, u, "ConsumerRelease", rec)
             /\ Done(m, ds, u, "ConsumerWait", rec) = Done(m, cs, u, "ConsumerWait", rec)
             /\ e <= Done(m, cs, u, "ConsumerRelease", rec)
             /\ Done(m, cs, u, "ConsumerRelease", rec) <= Done(m, cs, u, "ConsumerWait", rec)
             /\ Done(m, cs, u, "ConsumerWait", rec) <= f
  <2>1. /\ e <= Done(m, cs, u, "ConsumerRelease", rec)
        /\ Done(m, cs, u, "ConsumerRelease", rec) <= Done(m, cs, u, "ConsumerWait", rec)
        /\ Done(m, cs, u, "ConsumerWait", rec) <= f
    BY DEF Lockstep
  <2>2. u \in DOMAIN m.steps
    BY <1>0
  <2> QED BY <2>1, <2>2 DEF PairStages
<1>4. ASSUME NEW u \in P
      PROVE  /\ e <= Done(m, ds, u, "ConsumerRelease", rec)
             /\ Done(m, ds, u, "ConsumerRelease", rec) <= Done(m, ds, u, "ConsumerWait", rec)
             /\ Done(m, ds, u, "ConsumerWait", rec) <= f
             /\ Done(m, ds, u, "ConsumerRelease", rec) \in {e, e + 1}
  BY <1>1, <1>3
<1>5. ASSUME NEW u \in ProducersOf(m, rec[1])
      PROVE  /\ f <= Done(m, ds, u, "ProducerCommit", rec)
             /\ Done(m, ds, u, "ProducerCommit", rec) <= Done(m, ds, u, "ProducerAcquire", rec)
             /\ Done(m, ds, u, "ProducerAcquire", rec) <= e + 1
             /\ Done(m, ds, u, "ProducerAcquire", rec) \in Int
  <2>1. Done(m, cs, u, "ProducerAcquire", rec) \in Nat
    BY <1>0, DoneType DEF Ready
  <2> QED BY <1>0, <2>1 DEF Lockstep, PairStages
<1>6. G \in SUBSET P /\ t \notin G
  BY DEF Emptying
<1>7. Emptying(m, ds, rec, e) = G \cup {t}
  BY <1>3 DEF Emptying
<1>8. bs[rec].empty = [phase |-> (e + 1) % 2, arrivals |-> Cardinality(G)] /\ (e + 1) % 2 \in {0, 1}
      /\ 1 - ((e + 1) % 2) = ((e + 1) + 1) % 2
  <2>1. e + 1 \in Nat
    OBVIOUS
  <2> QED BY <2>1, Parity DEF Lockstep
<1>9. cr[rec].full = [phase |-> f % 2, arrivals |-> Cardinality(Filling(m, ds, rec, f))]
  BY <1>2 DEF Lockstep
<1>10. \/ /\ G \cup {t} = P
          /\ cr[rec].empty = [phase |-> 1 - ((e + 1) % 2), arrivals |-> 0]
       \/ cr[rec].empty = [phase |-> (e + 1) % 2, arrivals |-> Cardinality(G \cup {t})]
  <2> DEFINE p == (e + 1) % 2
             b == bs[rec].empty
             n == m.consumers[rec[1]]
  <2>1. t \in P /\ b = [phase |-> p, arrivals |-> Cardinality(G)] /\ cr[rec].empty = Arrive(b, n)
        /\ IsFiniteSet(P) /\ Cardinality(P) <= n /\ n \in Nat \ {0}
    BY <1>0, <1>8
  <2> HIDE DEF P, G, p, b, n
  <2>2. \/ G \cup {t} = P /\ Arrive(b, n) = [phase |-> 1 - p, arrivals |-> 0]
        \/ Arrive(b, n) = [phase |-> p, arrivals |-> Cardinality(G \cup {t})]
    BY <1>6, <2>1, GroupArrives
  <2> QED BY <2>1, <2>2 DEF p
<1>11. CASE cr[rec].empty = [phase |-> (e + 1) % 2, arrivals |-> Cardinality(G \cup {t})]
  <2>1. Lockstep(m, ds, cr, rec, e, f)
    BY <1>4, <1>5, <1>7, <1>9, <1>11 DEF Lockstep
  <2> QED BY <2>1
<1>12. CASE G \cup {t} = P /\ cr[rec].empty = [phase |-> 1 - ((e + 1) % 2), arrivals |-> 0]
  <2>1. \A u \in P : Done(m, ds, u, "ConsumerRelease", rec) = e + 1
    BY <1>3, <1>12 DEF Emptying
  <2>2. Emptying(m, ds, rec, e + 1) = {}
    BY <2>1 DEF Emptying
  <2>3. Cardinality(Emptying(m, ds, rec, e + 1)) = 0
    BY <2>2, FS_EmptySet
  <2>4. \A u \in ProducersOf(m, rec[1]) : Done(m, ds, u, "ProducerAcquire", rec) <= (e + 1) + 1
    BY <1>5
  <2>5. cr[rec].empty = [phase |-> ((e + 1) + 1) % 2,
                         arrivals |-> Cardinality(Emptying(m, ds, rec, e + 1))]
    BY <1>8, <1>12, <2>3
  <2>6. e + 1 <= f /\ f <= (e + 1) + 1
    OBVIOUS
  <2>7. \A u \in P : e + 1 <= Done(m, ds, u, "ConsumerRelease", rec)
    BY <2>1
  <2> HIDE DEF P, G
  <2>8. Lockstep(m, ds, cr, rec, e + 1, f)
    BY <1>4, <1>5, <1>9, <2>4, <2>5, <2>6, <2>7 DEF Lockstep, P
  <2> QED BY <2>8
<1> QED BY <1>10, <1>11, <1>12

\* Whatever step is taken, every ring stage stays in lockstep.
LEMMA LockstepStep ==
    ASSUME NEW m, Ready(m), NEW cs, InRange(m, cs), NEW bs \in BarrierVectors(m), InLockstep(m, cs, bs),
           NEW t \in Unfinished(m, cs), StepEnabled(NextStep(m, cs, t), bs)
    PROVE  InLockstep(m, [cs EXCEPT ![t] = @ + 1], BarriersAfter(m, NextStep(m, cs, t), bs))
<1> DEFINE s == NextStep(m, cs, t)
           own == <<s.rid, s.slot>>
           ds == [cs EXCEPT ![t] = @ + 1]
           cr == BarriersAfter(m, s, bs)
<1>1. t \in DOMAIN m.steps /\ cs[t] + 1 \in DOMAIN m.steps[t] /\ s = m.steps[t][cs[t] + 1]
  BY NextIndex DEF Ready
<1>2. s.stage \in PairStages => own \in Records(m)
  BY NextRecord DEF Ready
<1> SUFFICES ASSUME NEW rec \in Records(m)
             PROVE  \E e, f \in Nat : Lockstep(m, ds, cr, rec, e, f)
  BY DEF InLockstep
<1>3. PICK e \in Nat, f \in Nat : Lockstep(m, cs, bs, rec, e, f)
  BY DEF InLockstep
<1>4. /\ s.stage = "ProducerCommit" /\ own = rec =>
            cr[rec].full = Arrive(bs[rec].full, m.producers[s.rid])
      /\ ~(s.stage = "ProducerCommit" /\ own = rec) => cr[rec].full = bs[rec].full
      /\ s.stage = "ConsumerRelease" /\ own = rec =>
            cr[rec].empty = Arrive(bs[rec].empty, m.consumers[s.rid])
      /\ ~(s.stage = "ConsumerRelease" /\ own = rec) => cr[rec].empty = bs[rec].empty
  <2>1. own = <<s.rid, s.slot>> /\ cr = BarriersAfter(m, s, bs)
    OBVIOUS
  <2> HIDE DEF s, own, cr
  <2> QED BY <1>2, <2>1, RecordAfter
<1>5. \A u \in DOMAIN m.steps : \A stage :
        /\ u = t /\ s.stage = stage /\ own = rec =>
              Done(m, ds, u, stage, rec) = Done(m, cs, u, stage, rec) + 1
        /\ ~(u = t /\ s.stage = stage /\ own = rec) =>
              Done(m, ds, u, stage, rec) = Done(m, cs, u, stage, rec)
  BY DoneNext DEF Ready
<1>6. CASE ~(s.stage \in PairStages /\ own = rec)
  <2>1. ProducersOf(m, rec[1]) \cup ConsumersOf(m, rec[1]) \subseteq DOMAIN m.steps
    BY DEF ProducersOf, ConsumersOf
  <2>2. \A u \in ProducersOf(m, rec[1]) \cup ConsumersOf(m, rec[1]) : \A stage \in PairStages :
          Done(m, ds, u, stage, rec) = Done(m, cs, u, stage, rec)
    <3> HIDE DEF s, ds
    <3> QED BY <1>5, <1>6, <2>1
  <2>3. cr[rec].full = bs[rec].full /\ cr[rec].empty = bs[rec].empty
    <3> HIDE DEF s, cr
    <3> QED BY <1>4, <1>6 DEF PairStages
  <2> HIDE DEF s, ds, cr
  <2> QED BY <1>3, <2>2, <2>3, LockstepSame
<1>7. CASE s.stage \in PairStages /\ own = rec
  <2>1. /\ s.stage = "ProducerAcquire" => f = e /\ Done(m, cs, t, "ProducerAcquire", rec) = e
        /\ s.stage = "ProducerCommit"  => f = e /\ Done(m, cs, t, "ProducerCommit", rec) = f
                                                /\ Done(m, cs, t, "ProducerAcquire", rec) = f + 1
        /\ s.stage = "ConsumerWait"    => f = e + 1 /\ Done(m, cs, t, "ConsumerWait", rec) = e
        /\ s.stage = "ConsumerRelease" => f = e + 1 /\ Done(m, cs, t, "ConsumerRelease", rec) = e
                                                /\ Done(m, cs, t, "ConsumerWait", rec) = f
    BY <1>3, <1>7, NextRound
  <2>2. /\ s.stage = "ProducerCommit" => t \in ProducersOf(m, rec[1])
        /\ s.stage = "ConsumerRelease" => t \in ConsumersOf(m, rec[1])
        /\ s.rid = rec[1]
    BY <1>1, <1>7, Participates
  <2> HIDE DEF s, ds, cr
  <2>3. CASE s.stage = "ProducerAcquire"
    <3>1. Done(m, ds, t, "ProducerAcquire", rec) = e + 1
      BY <1>1, <1>5, <1>7, <2>1, <2>3
    <3>2. \A u \in DOMAIN m.steps : \A stage \in PairStages :
            ~(u = t /\ stage = "ProducerAcquire") =>
                Done(m, ds, u, stage, rec) = Done(m, cs, u, stage, rec)
      BY <1>5, <2>3
    <3>3. Lockstep(m, ds, bs, rec, e, f)
      BY <1>1, <1>3, <2>1, <2>3, <3>1, <3>2, LockstepAcquire
    <3>4. cr[rec].full = bs[rec].full /\ cr[rec].empty = bs[rec].empty
      BY <1>4, <2>3
    <3> QED BY <3>3, <3>4, LockstepSame
  <2>4. CASE s.stage = "ConsumerWait"
    <3>1. Done(m, ds, t, "ConsumerWait", rec) = e + 1
      BY <1>1, <1>5, <1>7, <2>1, <2>4
    <3>2. \A u \in DOMAIN m.steps : \A stage \in PairStages :
            ~(u = t /\ stage = "ConsumerWait") =>
                Done(m, ds, u, stage, rec) = Done(m, cs, u, stage, rec)
      BY <1>5, <2>4
    <3>3. Lockstep(m, ds, bs, rec, e, f)
      BY <1>1, <1>3, <2>1, <2>4, <3>1, <3>2, LockstepWait
    <3>4. cr[rec].full = bs[rec].full /\ cr[rec].empty = bs[rec].empty
      BY <1>4, <2>4
    <3> QED BY <3>3, <3>4, LockstepSame
  <2>5. CASE s.stage = "ProducerCommit"
    <3>1. Done(m, ds, t, "ProducerCommit", rec) = f + 1
      BY <1>1, <1>5, <1>7, <2>1, <2>5
    <3>2. \A u \in DOMAIN m.steps : \A stage \in PairStages :
            ~(u = t /\ stage = "ProducerCommit") =>
                Done(m, ds, u, stage, rec) = Done(m, cs, u, stage, rec)
      BY <1>5, <2>5
    <3>3. cr[rec].full = Arrive(bs[rec].full, m.producers[rec[1]]) /\ cr[rec].empty = bs[rec].empty
      BY <1>4, <1>7, <2>2, <2>5
    <3>4. Lockstep(m, ds, cr, rec, e, f) \/ Lockstep(m, ds, cr, rec, e, f + 1)
      BY <1>3, <2>1, <2>2, <2>5, <3>1, <3>2, <3>3, LockstepCommit
    <3>5. f + 1 \in Nat
      OBVIOUS
    <3> QED BY <3>4, <3>5
  <2>6. CASE s.stage = "ConsumerRelease"
    <3>1. Done(m, ds, t, "ConsumerRelease", rec) = e + 1
      BY <1>1, <1>5, <1>7, <2>1, <2>6
    <3>2. \A u \in DOMAIN m.steps : \A stage \in PairStages :
            ~(u = t /\ stage = "ConsumerRelease") =>
                Done(m, ds, u, stage, rec) = Done(m, cs, u, stage, rec)
      BY <1>5, <2>6
    <3>3. cr[rec].empty = Arrive(bs[rec].empty, m.consumers[rec[1]]) /\ cr[rec].full = bs[rec].full
      BY <1>4, <1>7, <2>2, <2>6
    <3>4. Lockstep(m, ds, cr, rec, e, f) \/ Lockstep(m, ds, cr, rec, e + 1, f)
      BY <1>3, <2>1, <2>2, <2>6, <3>1, <3>2, <3>3, LockstepRelease
    <3>5. e + 1 \in Nat
      OBVIOUS
    <3> QED BY <3>4, <3>5
  <2> QED BY <1>7, <2>3, <2>4, <2>5, <2>6 DEF PairStages
<1> QED BY <1>6, <1>7

\* At the start every ring stage is empty.
LEMMA LockstepInit ==
    ASSUME NEW m, Ready(m), NEW cs, cs = [t \in DOMAIN m.steps |-> 0]
    PROVE  InLockstep(m, cs, InitialBarriers(m)) /\ InRange(m, cs)
<1>1. InRange(m, cs)
  <2>1. \A t \in DOMAIN m.steps : Len(m.steps[t]) \in Nat
    BY DEF Ready, WellFormedModel
  <2> QED BY <2>1 DEF InRange
<1> SUFFICES ASSUME NEW rec \in Records(m)
             PROVE  Lockstep(m, cs, InitialBarriers(m), rec, 0, 0)
  BY <1>1 DEF InLockstep
<1>2. \A t \in DOMAIN m.steps : \A stage : Done(m, cs, t, stage, rec) = 0
  BY UpToNext DEF Done, CountAt
<1>3. Filling(m, cs, rec, 0) = {} /\ Emptying(m, cs, rec, 0) = {}
  BY <1>2 DEF Filling, Emptying, ProducersOf, ConsumersOf
<1>4. Cardinality(Filling(m, cs, rec, 0)) = 0 /\ Cardinality(Emptying(m, cs, rec, 0)) = 0
  BY <1>3, FS_EmptySet
<1>5. ProducersOf(m, rec[1]) \subseteq DOMAIN m.steps /\ ConsumersOf(m, rec[1]) \subseteq DOMAIN m.steps
  BY DEF ProducersOf, ConsumersOf
<1>6. InitialBarriers(m)[rec] = InitialRecord
  BY DEF InitialBarriers
<1> QED BY <1>2, <1>4, <1>5, <1>6 DEF Lockstep, InitialRecord

\* While a step can be taken, no other task can flip the barrier it looks at.
LEMMA EnabledStays ==
    ASSUME NEW m, Ready(m), NEW cs, InRange(m, cs), NEW bs \in BarrierVectors(m), InLockstep(m, cs, bs),
           NEW t \in Unfinished(m, cs), StepEnabled(NextStep(m, cs, t), bs),
           NEW u \in Unfinished(m, cs), StepEnabled(NextStep(m, cs, u), bs)
    PROVE  StepEnabled(NextStep(m, cs, t), BarriersAfter(m, NextStep(m, cs, u), bs))
<1> DEFINE s == NextStep(m, cs, t)
           rec == <<s.rid, s.slot>>
           w == NextStep(m, cs, u)
           own == <<w.rid, w.slot>>
           cr == BarriersAfter(m, w, bs)
<1>1. /\ s.stage \in PairStages => rec \in Records(m)
      /\ w.stage \in PairStages => own \in Records(m)
  BY NextRecord DEF Ready
<1>2. ASSUME rec \in Records(m)
      PROVE  /\ ~(w.stage = "ProducerCommit" /\ own = rec) => cr[rec].full = bs[rec].full
             /\ ~(w.stage = "ConsumerRelease" /\ own = rec) => cr[rec].empty = bs[rec].empty
  <2>1. own = <<w.rid, w.slot>> /\ cr = BarriersAfter(m, w, bs)
    OBVIOUS
  <2> HIDE DEF s, rec, w, own, cr
  <2> QED BY <1>1, <1>2, <2>1, RecordAfter
<1>3. CASE s.stage = "ProducerAcquire"
  <2>1. rec \in Records(m)
    BY <1>1, <1>3 DEF PairStages
  <2>2. PICK e \in Nat, f \in Nat : Lockstep(m, cs, bs, rec, e, f)
    BY <2>1 DEF InLockstep
  <2>3. f = e
    BY <1>3, <2>2, NextRound
  <2>4. w.stage = "ConsumerRelease" /\ own = rec => f = e + 1
    BY <2>2, NextRound
  <2>5. cr[rec].empty = bs[rec].empty
    <3> HIDE DEF s, w, own, rec, cr
    <3> QED BY <1>2, <2>1, <2>3, <2>4
  <2> QED BY <1>3, <2>5 DEF StepEnabled
<1>4. CASE s.stage = "ConsumerWait"
  <2>1. rec \in Records(m)
    BY <1>1, <1>4 DEF PairStages
  <2>2. PICK e \in Nat, f \in Nat : Lockstep(m, cs, bs, rec, e, f)
    BY <2>1 DEF InLockstep
  <2>3. f = e + 1
    BY <1>4, <2>2, NextRound
  <2>4. w.stage = "ProducerCommit" /\ own = rec => f = e
    BY <2>2, NextRound
  <2>5. cr[rec].full = bs[rec].full
    <3> HIDE DEF s, w, own, rec, cr
    <3> QED BY <1>2, <2>1, <2>3, <2>4
  <2> QED BY <1>4, <2>5 DEF StepEnabled
<1>5. CASE s.stage # "ProducerAcquire" /\ s.stage # "ConsumerWait"
  BY <1>5 DEF StepEnabled
<1> QED BY <1>3, <1>4, <1>5

(***************************************************************************)
(* Ordinals and rounds.                                                    *)
(***************************************************************************)

\* A step's ordinal is its round on its ring stage and the ring stage.
LEMMA OrdinalValue ==
    ASSUME NEW m, Ready(m), NEW t \in DOMAIN m.steps, NEW i \in DOMAIN m.steps[t],
           m.steps[t][i].stage \in PairStages
    PROVE  /\ Ordinal(m.steps[t], i) \in Nat /\ Round(m, t, i) \in Nat
           /\ m.stages[m.steps[t][i].rid] \in Nat \ {0} /\ m.steps[t][i].slot \in Int
           /\ Ordinal(m.steps[t], i) = m.stages[m.steps[t][i].rid] * Round(m, t, i) + m.steps[t][i].slot
<1> DEFINE s == m.steps[t][i]
           n == m.stages[s.rid]
           k == Ordinal(m.steps[t], i)
<1>1. n \in Nat \ {0}
  BY StepFacts DEF Ready
<1>2. k \in Nat /\ s.slot = k % n
  BY PairedStep
<1>3. k \div n \in Nat /\ k % n \in 0..(n - 1) /\ k = n * (k \div n) + (k % n)
  BY <1>1, <1>2, DivMod
<1>4. s.slot \in Int /\ k = n * (k \div n) + s.slot
  <2> HIDE DEF k, n, s
  <2> QED BY <1>1, <1>2, <1>3
<1> QED BY <1>1, <1>2, <1>3, <1>4, Zenon DEF Round

\* On one ring stage, ordinals are ordered as rounds.
LEMMA OrdinalOrder ==
    ASSUME NEW m, Ready(m), NEW t \in DOMAIN m.steps, NEW i \in DOMAIN m.steps[t],
           NEW u \in DOMAIN m.steps, NEW j \in DOMAIN m.steps[u],
           m.steps[t][i].stage \in PairStages, m.steps[u][j].stage \in PairStages,
           m.steps[t][i].rid = m.steps[u][j].rid
    PROVE  /\ m.steps[t][i].slot = m.steps[u][j].slot =>
                 (Ordinal(m.steps[t], i) < Ordinal(m.steps[u], j) <=> Round(m, t, i) < Round(m, u, j))
           /\ Ordinal(m.steps[t], i) = Ordinal(m.steps[u], j) <=>
                 m.steps[t][i].slot = m.steps[u][j].slot /\ Round(m, t, i) = Round(m, u, j)
<1> DEFINE n == m.stages[m.steps[t][i].rid]
           a == Ordinal(m.steps[t], i)
           b == Ordinal(m.steps[u], j)
           p == Round(m, t, i)
           q == Round(m, u, j)
           x == m.steps[t][i].slot
           y == m.steps[u][j].slot
<1>1. n \in Nat \ {0} /\ a \in Nat /\ b \in Nat /\ p \in Nat /\ q \in Nat /\ x \in Int /\ y \in Int
  BY OrdinalValue
<1>2. a = n * p + x /\ b = n * q + y
  BY OrdinalValue
<1>3. a = b => x = y /\ p = q
  BY PairedStep DEF Round
<1>4. n * p < n * q <=> p < q
  BY <1>1, MulLess
<1> HIDE DEF n, a, b, p, q, x, y
<1>5. x = y => (a < b <=> p < q)
  BY <1>1, <1>2, <1>4
<1>6. x = y /\ p = q => a = b
  BY <1>1, <1>2
<1> QED BY <1>3, <1>5, <1>6 DEF n, a, b, p, q, x, y

\* The steps of one stage and resource of a task have different ordinals.
LEMMA OrdinalUnique ==
    ASSUME NEW m, Ready(m), NEW t \in DOMAIN m.steps,
           NEW i \in DOMAIN m.steps[t], NEW j \in DOMAIN m.steps[t],
           m.steps[t][i].stage \in PairStages, m.steps[t][i].stage = m.steps[t][j].stage,
           m.steps[t][i].rid = m.steps[t][j].rid, Ordinal(m.steps[t], i) = Ordinal(m.steps[t], j)
    PROVE  i = j
<1> DEFINE S == On(m.steps[t], m.steps[t][i].stage, m.steps[t][i].rid)
<1>1. /\ i \in Nat /\ j \in Nat /\ i - 1 \in Nat /\ j - 1 \in Nat /\ i >= 1 /\ j >= 1
  BY StepIndex DEF Ready
<1>2. /\ UpTo(S, i - 1) = UpTo(S, j - 1) /\ i \in S /\ j \in S
      /\ UpTo(S, i - 1) \in Nat
  BY StepOrdinal, StepPosition
<1> HIDE DEF S
<1>3. ~(i < j)
  <2> SUFFICES ASSUME i < j PROVE FALSE
    OBVIOUS
  <2>1. i \in 1..(j - 1)
    BY <1>1
  <2>2. UpTo(S, i - 1) < UpTo(S, j - 1)
    BY <1>1, <1>2, <2>1, UpToMember
  <2> QED BY <1>2, <2>2
<1>4. ~(j < i)
  <2> SUFFICES ASSUME j < i PROVE FALSE
    OBVIOUS
  <2>1. j \in 1..(i - 1)
    BY <1>1
  <2>2. UpTo(S, j - 1) < UpTo(S, i - 1)
    BY <1>1, <1>2, <2>1, UpToMember
  <2> QED BY <1>2, <2>2
<1> QED BY <1>1, <1>3, <1>4

\* An executed step is a step of the model.
LEMMA ExecutedIndex ==
    ASSUME NEW m, WellFormedModel(m), NEW cs, InRange(m, cs), NEW u \in DOMAIN m.steps, NEW j \in 1..cs[u]
    PROVE  j \in DOMAIN m.steps[u] /\ cs[u] \in Nat /\ j \in Nat /\ cs[u] \in 0..Len(m.steps[u])
<1>1. cs[u] \in Nat /\ cs[u] <= Len(m.steps[u])
  BY DEF InRange
<1>2. m.steps[u] \in Seq(StepType(m))
  BY DEF WellFormedModel
<1>3. DOMAIN m.steps[u] = 1..Len(m.steps[u]) /\ Len(m.steps[u]) \in Nat
  BY <1>2
<1> QED BY <1>1, <1>3

\* An executed step is one of those its ring stage has seen.
LEMMA RoundDone ==
    ASSUME NEW m, Ready(m), NEW cs, InRange(m, cs), NEW u \in DOMAIN m.steps, NEW j \in 1..cs[u],
           m.steps[u][j].stage \in PairStages, NEW rec, rec = <<m.steps[u][j].rid, m.steps[u][j].slot>>
    PROVE  Round(m, u, j) < Done(m, cs, u, m.steps[u][j].stage, rec)
<1> DEFINE s == m.steps[u][j]
           T == OnSlot(m.steps[u], s.stage, s.rid, s.slot)
<1>1. j \in DOMAIN m.steps[u] /\ cs[u] \in Nat /\ j \in Nat
  BY ExecutedIndex DEF Ready
<1>2. UpTo(T, j - 1) = Round(m, u, j)
  BY <1>1, RoundCounts DEF CountAt
<1>3. j \in T
  BY <1>1 DEF OnSlot, On
<1>4. Done(m, cs, u, s.stage, rec) = UpTo(T, cs[u])
  BY DEF Done, CountAt
<1> HIDE DEF T
<1>5. UpTo(T, j - 1) < UpTo(T, cs[u])
  BY <1>1, <1>3, UpToMember
<1> QED BY <1>2, <1>4, <1>5

(***************************************************************************)
(* Held accesses.                                                          *)
(***************************************************************************)

\* Task t takes the step s, in a state where every ring stage is in lockstep.
Taken(m, cs, bs, t, s, ds) ==
    /\ Ready(m) /\ InRange(m, cs) /\ InLockstep(m, cs, bs)
    /\ t \in Unfinished(m, cs) /\ StepEnabled(s, bs) /\ s = NextStep(m, cs, t)
    /\ ds = [cs EXCEPT ![t] = @ + 1]

\* The entry of an access, field by field.
LEMMA EntryFields ==
    ASSUME NEW m, NEW cs, NEW u, NEW j, NEW h, h = m.steps[u][j]
    PROVE  EntryOf(m, cs, u, j) =
             [task |-> u, rid |-> h.rid,
              access |-> IF h.stage = "ProducerAcquire" THEN "write" ELSE "read", slot |-> h.slot,
              tag |-> IF h.stage = "ProducerAcquire" THEN Untagged ELSE TagOf(m, cs, u, j),
              at |-> j - 1]
BY DEF EntryOf, Entry

\* Step j of task u took an access that is open and not among the reads D.
Kept(m, cs, D, u, j) == StillOpen(m, cs, u, j) /\ <<u, j>> \notin D

\* An entry stands for an executed step that still holds its access.
LEMMA HeldMember ==
    ASSUME NEW m, NEW cs, NEW D, NEW x
    PROVE  x \in HeldBut(m, cs, D) <=>
             \E u \in DOMAIN m.steps : \E j \in 1..cs[u] :
                Kept(m, cs, D, u, j) /\ x = EntryOf(m, cs, u, j)
<1> DEFINE Of(u) == {EntryOf(m, cs, u, i) : i \in {j \in 1..cs[u] : Kept(m, cs, D, u, j)}}
<1>1. HeldBut(m, cs, D) = UNION {Of(u) : u \in DOMAIN m.steps}
  BY DEF HeldBut, Kept
<1>2. \A u : x \in Of(u) <=> \E j \in 1..cs[u] : Kept(m, cs, D, u, j) /\ x = EntryOf(m, cs, u, j)
  OBVIOUS
<1> HIDE DEF Of
<1>3. x \in HeldBut(m, cs, D) <=> \E u \in DOMAIN m.steps : x \in Of(u)
  BY <1>1
<1> QED BY <1>2, <1>3

\* Only an acquire or a wait holds anything.
LEMMA HolderStage ==
    ASSUME NEW m, NEW cs, NEW D, NEW u, NEW j, Kept(m, cs, D, u, j)
    PROVE  m.steps[u][j].stage \in {"ProducerAcquire", "ConsumerWait"}
BY DEF Kept, StillOpen

\* A generation is the ordinal of a completion step.
LEMMA Generation ==
    ASSUME NEW m, Ready(m), NEW t \in DOMAIN m.steps, NEW i \in DOMAIN m.steps[t],
           m.steps[t][i].comp # {}
    PROVE  /\ m.steps[t][i].stage \in {"ProducerCommit", "ConsumerWait"}
           /\ m.steps[t][i].stage \in PairStages
           /\ m.steps[t][i].gen = Ordinal(m.steps[t], i) /\ m.steps[t][i].gen \in Nat
           /\ m.steps[t][i].gen # Untagged
<1>1. /\ m.steps[t][i].stage \in {"ProducerCommit", "ConsumerWait"}
      /\ m.steps[t][i].gen = Ordinal(m.steps[t], i)
  BY DEF Ready, Precomputed
<1>2. m.steps[t][i].stage \in PairStages
  BY <1>1 DEF PairStages
<1>3. Ordinal(m.steps[t], i) \in Nat
  BY <1>2, PairedStep
<1> QED BY <1>1, <1>2, <1>3 DEF Untagged

\* A tag is the generation of the first commit that covers the read.
LEMMA TagFacts ==
    ASSUME NEW m, Ready(m), NEW cs, InRange(m, cs), NEW u \in DOMAIN m.steps, NEW j \in Nat
    PROVE  \/ CoveringCommits(m, cs, u, j) = {} /\ TagOf(m, cs, u, j) = Untagged
           \/ \E k \in CoveringCommits(m, cs, u, j) :
                /\ \A l \in CoveringCommits(m, cs, u, j) : k <= l
                /\ TagOf(m, cs, u, j) = m.steps[u][k].gen
                /\ m.steps[u][k].gen \in Nat
                /\ m.steps[u][k].gen # Untagged
<1> DEFINE C == CoveringCommits(m, cs, u, j)
<1>1. cs[u] \in Nat
  BY DEF InRange
<1>2. C \in SUBSET Nat
  BY <1>1 DEF CoveringCommits
<1>3. CASE C = {}
  BY <1>3 DEF TagOf
<1>4. CASE C # {}
  <2>1. \E k \in C : \A l \in C : k <= l
    <3> HIDE DEF C
    <3> QED BY <1>2, <1>4, LeastNat
  <2> DEFINE k == CHOOSE k \in C : \A l \in C : k <= l
  <2>2. k \in C /\ \A l \in C : k <= l
    <3> HIDE DEF C
    <3> QED BY <2>1
  <2>3. TagOf(m, cs, u, j) = m.steps[u][k].gen
    BY <1>4 DEF TagOf
  <2>4. k \in 1..cs[u] /\ m.steps[u][k].comp # {}
    <3> HIDE DEF k
    <3> QED BY <1>1, <2>2 DEF CoveringCommits
  <2>5. k \in DOMAIN m.steps[u]
    <3> HIDE DEF k
    <3> QED BY <2>4, ExecutedIndex DEF Ready
  <2>6. m.steps[u][k].gen \in Nat /\ m.steps[u][k].gen # Untagged
    <3> HIDE DEF k
    <3> QED BY <2>4, <2>5, Generation
  <2> HIDE DEF k, C
  <2> QED BY <2>2, <2>3, <2>6 DEF C
<1> QED BY <1>3, <1>4

\* What is known of the step taken.
LEMMA TakenFacts ==
    ASSUME NEW m, NEW cs, NEW bs, NEW t, NEW s, NEW ds, Taken(m, cs, bs, t, s, ds)
    PROVE  /\ Ready(m) /\ WellFormedModel(m) /\ InRange(m, cs) /\ InRange(m, ds)
           /\ t \in DOMAIN m.steps /\ cs[t] \in Nat /\ cs[t] + 1 \in DOMAIN m.steps[t]
           /\ s = m.steps[t][cs[t] + 1] /\ ds[t] = cs[t] + 1 /\ (cs[t] + 1) - 1 = cs[t]
           /\ cs[t] \in 0..Len(m.steps[t])
           /\ \A u \in DOMAIN m.steps : u # t => ds[u] = cs[u]
           /\ \A u \in DOMAIN m.steps : cs[u] \in Nat /\ ds[u] \in Nat /\ cs[u] <= ds[u]
           /\ cs[t] + 1 \in 1..ds[t]
<1>1. Ready(m) /\ WellFormedModel(m) /\ InRange(m, cs)
  BY DEF Taken, Ready
<1>2. /\ t \in DOMAIN m.steps /\ cs[t] \in Nat /\ cs[t] + 1 \in DOMAIN m.steps[t]
      /\ cs[t] \in 0..Len(m.steps[t])
      /\ s = m.steps[t][cs[t] + 1] /\ (cs[t] + 1) - 1 = cs[t]
  BY <1>1, NextIndex DEF Taken
<1>3. InRange(m, ds)
  BY <1>1, RangeAfter DEF Taken
<1>4. ds[t] = cs[t] + 1 /\ \A u \in DOMAIN m.steps : u # t => ds[u] = cs[u]
  BY <1>1, <1>2 DEF Taken, InRange
<1>5. \A u \in DOMAIN m.steps : cs[u] \in Nat /\ ds[u] \in Nat
  BY <1>1, <1>3 DEF InRange
<1>6. \A u \in DOMAIN m.steps : cs[u] <= ds[u]
  BY <1>2, <1>4, <1>5
<1>7. cs[t] + 1 \in 1..ds[t]
  BY <1>2, <1>4
<1> QED BY <1>1, <1>2, <1>3, <1>4, <1>5, <1>6, <1>7

\* A step counts once, for its own task, stage and resource.
LEMMA CountOnNext ==
    ASSUME NEW m, NEW cs, NEW bs, NEW t, NEW s, NEW ds, Taken(m, cs, bs, t, s, ds),
           NEW u \in DOMAIN m.steps, NEW stage, NEW rid
    PROVE  /\ CountOn(m.steps[u], cs[u], stage, rid) \in Nat
           /\ u = t /\ s.stage = stage /\ s.rid = rid =>
                 CountOn(m.steps[u], ds[u], stage, rid) = CountOn(m.steps[u], cs[u], stage, rid) + 1
           /\ ~(u = t /\ s.stage = stage /\ s.rid = rid) =>
                 CountOn(m.steps[u], ds[u], stage, rid) = CountOn(m.steps[u], cs[u], stage, rid)
<1> DEFINE S == On(m.steps[t], stage, rid)
<1>1. t \in DOMAIN m.steps /\ cs[t] \in Nat /\ s = m.steps[t][cs[t] + 1] /\ cs[u] \in Nat
  BY TakenFacts
<1>2. cs[t] + 1 \in S <=> s.stage = stage /\ s.rid = rid
  BY <1>1 DEF On
<1>3. (u # t => ds[u] = cs[u]) /\ ds[t] = cs[t] + 1
  BY TakenFacts
<1>4. /\ cs[t] + 1 \in S => UpTo(S, cs[t] + 1) = UpTo(S, cs[t]) + 1
      /\ cs[t] + 1 \notin S => UpTo(S, cs[t] + 1) = UpTo(S, cs[t])
  BY <1>1, UpToNext
<1>5. CountOn(m.steps[u], cs[u], stage, rid) \in Nat
  BY <1>1, CountOnType
<1>6. CASE u # t
  BY <1>3, <1>5, <1>6
<1>7. CASE u = t
  <2>1. CountOn(m.steps[t], cs[t], stage, rid) = UpTo(S, cs[t])
    BY <1>1, CountOnIsUpTo
  <2>2. CountOn(m.steps[t], cs[t] + 1, stage, rid) = UpTo(S, cs[t] + 1)
    <3>1. cs[t] + 1 \in Nat
      BY <1>1
    <3> QED BY <3>1, CountOnIsUpTo
  <2> HIDE DEF S
  <2> QED BY <1>2, <1>3, <1>4, <1>5, <1>7, <2>1, <2>2
<1> QED BY <1>6, <1>7

\* A step changes the tag of a read only by covering it first.
LEMMA TagAfter ==
    ASSUME NEW m, NEW cs, NEW bs, NEW t, NEW s, NEW ds, Taken(m, cs, bs, t, s, ds),
           NEW u \in DOMAIN m.steps, NEW j \in 1..cs[u]
    PROVE  /\ \/ ~(u = t /\ s.stage = "ProducerCommit" /\ m.steps[u][j].rid \in s.comp)
              \/ TagOf(m, cs, u, j) # Untagged
              => TagOf(m, ds, u, j) = TagOf(m, cs, u, j)
           /\ /\ u = t /\ s.stage = "ProducerCommit" /\ m.steps[u][j].rid \in s.comp
              /\ TagOf(m, cs, u, j) = Untagged
              => TagOf(m, ds, u, j) = s.gen
<1> DEFINE C == CoveringCommits(m, cs, u, j)
           D == CoveringCommits(m, ds, u, j)
           covers == u = t /\ s.stage = "ProducerCommit" /\ m.steps[u][j].rid \in s.comp
           i == cs[t] + 1
<1>1. /\ Ready(m) /\ InRange(m, cs) /\ InRange(m, ds) /\ t \in DOMAIN m.steps /\ cs[t] \in Nat
      /\ s = m.steps[t][i] /\ ds[t] = i /\ cs[u] \in Nat /\ ds[u] \in Nat /\ j \in Nat
      /\ u # t => ds[u] = cs[u]
  BY TakenFacts
<1>2. ~covers => D = C
  <2> SUFFICES ASSUME ~covers, NEW k PROVE k \in D <=> k \in C
    OBVIOUS
  <2>1. CASE u # t
    BY <1>1, <2>1 DEF CoveringCommits
  <2>2. CASE u = t
    BY <1>1, <2>2 DEF CoveringCommits
  <2> QED BY <2>1, <2>2
<1>3. covers => D = C \cup {i}
  BY <1>1 DEF CoveringCommits
<1>4. \A k \in C : k \in Nat /\ (u = t => k < i)
  BY <1>1 DEF CoveringCommits
<1>5. ~covers => TagOf(m, ds, u, j) = TagOf(m, cs, u, j)
  BY <1>2 DEF TagOf
<1>6. \/ C = {} /\ TagOf(m, cs, u, j) = Untagged
      \/ \E k \in C : /\ \A l \in C : k <= l
                      /\ TagOf(m, cs, u, j) = m.steps[u][k].gen
                      /\ m.steps[u][k].gen # Untagged
  BY <1>1, TagFacts
<1>7. \/ D = {} /\ TagOf(m, ds, u, j) = Untagged
      \/ \E k \in D : /\ \A l \in D : k <= l
                      /\ TagOf(m, ds, u, j) = m.steps[u][k].gen
                      /\ m.steps[u][k].gen # Untagged
  BY <1>1, TagFacts
<1>8. ASSUME covers, TagOf(m, cs, u, j) = Untagged PROVE TagOf(m, ds, u, j) = s.gen
  <2>1. C = {}
    BY <1>6, <1>8
  <2>2. D = {i}
    BY <1>3, <1>8, <2>1
  <2> QED BY <1>1, <1>7, <1>8, <2>2
<1>9. ASSUME covers, TagOf(m, cs, u, j) # Untagged PROVE TagOf(m, ds, u, j) = TagOf(m, cs, u, j)
  <2>1. PICK k \in C : (\A l \in C : k <= l) /\ TagOf(m, cs, u, j) = m.steps[u][k].gen
    BY <1>6, <1>9
  <2>2. PICK l \in D : (\A n \in D : l <= n) /\ TagOf(m, ds, u, j) = m.steps[u][l].gen
    BY <1>3, <1>7, <1>9
  <2>3. k = l
    <3> HIDE DEF C, D, i
    <3>1. k \in Nat /\ k < i /\ i \in Nat
      BY <1>1, <1>4, <1>9 DEF i
    <3>2. k \in D /\ l \in C \cup {i} /\ l <= k
      BY <1>3, <1>9, <2>2
    <3>3. l \in C
      BY <3>1, <3>2
    <3>4. l \in Nat /\ k <= l
      BY <1>4, <2>1, <3>3
    <3> QED BY <3>1, <3>2, <3>4
  <2> QED BY <2>1, <2>2, <2>3
<1> QED BY <1>5, <1>8, <1>9

\* A step taken is in the round its ring stage has reached; what the other
\* tasks have done there brackets it.
LEMMA TakenRound ==
    ASSUME NEW m, NEW cs, NEW bs, NEW t, NEW s, NEW ds, Taken(m, cs, bs, t, s, ds),
           s.stage \in PairStages, NEW rec, rec = <<s.rid, s.slot>>
    PROVE  /\ Round(m, t, cs[t] + 1) \in Nat
           /\ s.stage = "ProducerAcquire" =>
                 /\ Done(m, cs, t, "ProducerCommit", rec) <= Round(m, t, cs[t] + 1)
                 /\ \A u \in ConsumersOf(m, s.rid) :
                       Done(m, cs, u, "ConsumerWait", rec) <= Round(m, t, cs[t] + 1)
           /\ s.stage = "ProducerCommit" =>
                 /\ Done(m, cs, t, "ProducerAcquire", rec) = Round(m, t, cs[t] + 1) + 1
                 /\ \A u \in ConsumersOf(m, s.rid) :
                       Done(m, cs, u, "ConsumerWait", rec) <= Round(m, t, cs[t] + 1)
           /\ s.stage = "ConsumerWait" =>
                 /\ Done(m, cs, t, "ConsumerRelease", rec) <= Round(m, t, cs[t] + 1)
                 /\ \A u \in ProducersOf(m, s.rid) :
                       Done(m, cs, u, "ProducerAcquire", rec) <= Round(m, t, cs[t] + 1) + 1
           /\ s.stage = "ConsumerRelease" =>
                 Done(m, cs, t, "ConsumerWait", rec) = Round(m, t, cs[t] + 1) + 1
<1> DEFINE i == cs[t] + 1
           q == Round(m, t, i)
           n(stage) == Done(m, cs, t, stage, rec)
<1>0. /\ Ready(m) /\ WellFormedModel(m) /\ InRange(m, cs) /\ t \in DOMAIN m.steps /\ i \in DOMAIN m.steps[t]
      /\ s = m.steps[t][i] /\ i - 1 = cs[t] /\ cs[t] \in 0..Len(m.steps[t])
  BY TakenFacts
<1>1. /\ Ready(m) /\ WellFormedModel(m) /\ InRange(m, cs) /\ t \in DOMAIN m.steps /\ i \in DOMAIN m.steps[t]
      /\ s = m.steps[t][i] /\ i - 1 = cs[t] /\ t \in Unfinished(m, cs) /\ StepEnabled(s, bs)
      /\ s = NextStep(m, cs, t) /\ InLockstep(m, cs, bs) /\ cs[t] \in 0..Len(m.steps[t])
  BY <1>0 DEF Taken
<1>2. rec \in Records(m) /\ rec[1] = s.rid /\ rec[2] = s.slot
  BY <1>1, NextRecord
<1>3. PICK e \in Nat, f \in Nat : Lockstep(m, cs, bs, rec, e, f)
  BY <1>1, <1>2 DEF InLockstep
<1>4. n(s.stage) = q /\ q \in Nat
  <2>1. CountAt(m.steps[t], i - 1, s.stage, s.rid, s.slot) = q
    BY <1>1, RoundCounts
  <2>2. q \in Nat
    BY <1>1, RoundCompare
  <2> QED BY <1>1, <1>2, <2>1, <2>2 DEF Done
<1>5. /\ s.stage = "ProducerAcquire" => f = e /\ n(s.stage) = e
      /\ s.stage = "ProducerCommit"  => f = e /\ n(s.stage) = f /\ n("ProducerAcquire") = f + 1
      /\ s.stage = "ConsumerWait"    => f = e + 1 /\ n(s.stage) = e
      /\ s.stage = "ConsumerRelease" => f = e + 1 /\ n(s.stage) = e /\ n("ConsumerWait") = f
  BY <1>1, <1>3, NextRound
<1>6. /\ s.stage = "ProducerAcquire" => n("ProducerCommit") <= n("ProducerAcquire")
      /\ s.stage = "ConsumerWait" => n("ConsumerRelease") <= n("ConsumerWait")
  <2>1. /\ s.stage = "ProducerAcquire" => t \in ProducersOf(m, rec[1])
        /\ s.stage = "ConsumerWait" => t \in ConsumersOf(m, rec[1])
    BY <1>1, <1>2, Participates
  <2> QED BY <1>3, <2>1 DEF Lockstep
<1>7. /\ \A u \in ConsumersOf(m, s.rid) : Done(m, cs, u, "ConsumerWait", rec) <= f
      /\ \A u \in ProducersOf(m, s.rid) : Done(m, cs, u, "ProducerAcquire", rec) <= e + 1
  BY <1>2, <1>3 DEF Lockstep
<1> HIDE DEF i, q, n
<1>8. /\ s.stage = "ProducerAcquire" => f = q /\ e = q /\ n("ProducerCommit") <= q
      /\ s.stage = "ProducerCommit"  => f = q /\ n("ProducerAcquire") = q + 1
      /\ s.stage = "ConsumerWait"    => e = q /\ n("ConsumerRelease") <= q
      /\ s.stage = "ConsumerRelease" => n("ConsumerWait") = q + 1
  BY <1>4, <1>5, <1>6
<1> QED BY <1>4, <1>7, <1>8 DEF i, q, n

\* An executed step is in a round its participants have reached.
LEMMA ExecutedRound ==
    ASSUME NEW m, Ready(m), NEW cs, InRange(m, cs), NEW u \in DOMAIN m.steps, NEW j \in 1..cs[u],
           NEW h, h = m.steps[u][j], h.stage \in PairStages, NEW rec, rec = <<h.rid, h.slot>>
    PROVE  /\ j \in DOMAIN m.steps[u] /\ Round(m, u, j) \in Nat
           /\ Done(m, cs, u, h.stage, rec) \in Nat /\ Round(m, u, j) < Done(m, cs, u, h.stage, rec)
           /\ h.stage \in {"ProducerAcquire", "ProducerCommit"} => u \in ProducersOf(m, h.rid)
           /\ h.stage \in {"ConsumerWait", "ConsumerRelease"} => u \in ConsumersOf(m, h.rid)
<1>1. j \in DOMAIN m.steps[u]
  BY ExecutedIndex DEF Ready
<1>2. Round(m, u, j) \in Nat
  BY <1>1, OrdinalValue
<1>3. Done(m, cs, u, h.stage, rec) \in Nat
  BY DoneType DEF Ready
<1>4. Round(m, u, j) < Done(m, cs, u, h.stage, rec)
  BY RoundDone
<1>5. /\ h.stage \in {"ProducerAcquire", "ProducerCommit"} => u \in ProducersOf(m, h.rid)
      /\ h.stage \in {"ConsumerWait", "ConsumerRelease"} => u \in ConsumersOf(m, h.rid)
  BY <1>1, Participates
<1> QED BY <1>1, <1>2, <1>3, <1>4, <1>5

\* An acquire comes after every wait executed on its ring stage.
LEMMA AcquireIsLater ==
    ASSUME NEW m, NEW cs, NEW bs, NEW t, NEW s, NEW ds, Taken(m, cs, bs, t, s, ds),
           NEW u \in DOMAIN m.steps, NEW j \in 1..cs[u], m.steps[u][j].stage = "ConsumerWait",
           s.stage = "ProducerAcquire", m.steps[u][j].rid = s.rid, m.steps[u][j].slot = s.slot
    PROVE  Ordinal(m.steps[u], j) < Ordinal(m.steps[t], cs[t] + 1)
<1> DEFINE h == m.steps[u][j]
           i == cs[t] + 1
           rec == <<s.rid, s.slot>>
<1>1. /\ Ready(m) /\ InRange(m, cs) /\ t \in DOMAIN m.steps /\ i \in DOMAIN m.steps[t]
      /\ s = m.steps[t][i]
  BY TakenFacts
<1>2. s.stage \in PairStages /\ h.stage \in PairStages
  BY DEF PairStages
<1>3. /\ j \in DOMAIN m.steps[u] /\ Round(m, u, j) \in Nat /\ u \in ConsumersOf(m, h.rid)
      /\ Done(m, cs, u, "ConsumerWait", rec) \in Nat
      /\ Round(m, u, j) < Done(m, cs, u, "ConsumerWait", rec)
  BY <1>1, <1>2, ExecutedRound
<1>4. Done(m, cs, u, "ConsumerWait", rec) <= Round(m, t, i) /\ Round(m, t, i) \in Nat
  BY <1>2, <1>3, TakenRound
<1>5. Round(m, u, j) < Round(m, t, i)
  BY <1>3, <1>4
<1> QED BY <1>1, <1>2, <1>3, <1>5, OrdinalOrder

\* No executed wait names the generation of a commit that is yet to be made.
LEMMA CommitIsNew ==
    ASSUME NEW m, NEW cs, NEW bs, NEW t, NEW s, NEW ds, Taken(m, cs, bs, t, s, ds),
           NEW v \in DOMAIN m.steps, NEW k \in 1..cs[v], m.steps[v][k].stage = "ConsumerWait",
           s.stage = "ProducerCommit", s.comp \cap m.steps[v][k].comp # {}, OneAccumulator(m)
    PROVE  m.steps[v][k].gen # s.gen
<1> DEFINE w == m.steps[v][k]
           i == cs[t] + 1
           rec == <<s.rid, s.slot>>
<1>1. /\ Ready(m) /\ InRange(m, cs) /\ t \in DOMAIN m.steps /\ i \in DOMAIN m.steps[t]
      /\ s = m.steps[t][i]
  BY TakenFacts
<1>2. k \in DOMAIN m.steps[v]
  BY <1>1, ExecutedIndex DEF Ready
<1>3. w.rid = s.rid
  BY <1>1, <1>2 DEF OneAccumulator
<1>4. w.gen = Ordinal(m.steps[v], k) /\ s.gen = Ordinal(m.steps[t], i)
  BY <1>1, <1>2, Generation
<1>5. s.stage \in PairStages /\ w.stage \in PairStages
  BY DEF PairStages
<1> SUFFICES ASSUME w.gen = s.gen PROVE FALSE
  OBVIOUS
<1>6. w.slot = s.slot /\ Round(m, v, k) = Round(m, t, i)
  BY <1>1, <1>2, <1>3, <1>4, <1>5, OrdinalOrder
<1>7. /\ Round(m, v, k) \in Nat /\ v \in ConsumersOf(m, w.rid)
      /\ Done(m, cs, v, "ConsumerWait", rec) \in Nat
      /\ Round(m, v, k) < Done(m, cs, v, "ConsumerWait", rec)
  BY <1>1, <1>3, <1>5, <1>6, ExecutedRound
<1>8. Done(m, cs, v, "ConsumerWait", rec) <= Round(m, t, i) /\ Round(m, t, i) \in Nat
  BY <1>3, <1>5, <1>7, TakenRound
<1> QED BY <1>6, <1>7, <1>8

\* The step s is a completion wait for the generation of step j of task u.
Frees(m, cs, s, u, j) ==
    /\ m.steps[u][j].stage = "ConsumerWait" /\ m.steps[u][j].dma /\ s.stage = "ConsumerWait"
    /\ m.steps[u][j].rid \in s.comp /\ TagOf(m, cs, u, j) = s.gen

\* The executed reads the step s frees.
Freed(m, cs, s) == {x \in Positions(m, cs) : Frees(m, cs, s, x[1], x[2])}

\* E is D and the reads the step s frees.
Added(E, D, m, cs, s) == E = D \cup Freed(m, cs, s)

\* The step s closes the access step j of task u took, on its own resource.
Closes(m, t, s, u, j) ==
    LET h == m.steps[u][j]
    IN  \/ /\ h.stage = "ProducerAcquire" /\ s.stage = "ProducerCommit"
           /\ u = t /\ s.rid = h.rid /\ s.slot = h.slot
        \/ /\ h.stage = "ConsumerWait" /\ ~h.dma /\ s.stage = "ConsumerRelease"
           /\ u = t /\ s.rid = h.rid /\ s.slot = h.slot
        \/ /\ h.stage = "ConsumerWait" /\ h.dma /\ s.stage = "ProducerAcquire"
           /\ s.rid = h.rid /\ s.slot = h.slot

\* The step s ends the access step j of task u took.
Ends(m, cs, t, s, u, j) == Closes(m, t, s, u, j) \/ Frees(m, cs, s, u, j)

\* The steps executed after a step are those executed before, and the step.
LEMMA ExecutedAfter ==
    ASSUME NEW m, NEW cs, NEW bs, NEW t, NEW s, NEW ds, Taken(m, cs, bs, t, s, ds),
           NEW v \in DOMAIN m.steps, NEW k
    PROVE  k \in 1..ds[v] <=> k \in 1..cs[v] \/ (v = t /\ k = cs[t] + 1)
<1>1. /\ cs[t] \in Nat /\ ds[t] = cs[t] + 1
      /\ \A u \in DOMAIN m.steps : u # t => ds[u] = cs[u]
  BY TakenFacts
<1>2. CASE v # t
  BY <1>1, <1>2
<1>3. CASE v = t
  BY <1>1, <1>3
<1> QED BY <1>2, <1>3

\* When an operand read is overwritten.
LEMMA OverwrittenAfter ==
    ASSUME NEW m, NEW cs, NEW bs, NEW t, NEW s, NEW ds, Taken(m, cs, bs, t, s, ds),
           NEW u \in DOMAIN m.steps, NEW j \in 1..cs[u],
           m.steps[u][j].stage = "ConsumerWait", m.steps[u][j].dma
    PROVE  Overwritten(m, ds, u, j) <=> Overwritten(m, cs, u, j) \/ Closes(m, t, s, u, j)
<1> DEFINE h == m.steps[u][j]
           i == cs[t] + 1
           Over(v, k) ==
             /\ m.steps[v][k].stage = "ProducerAcquire" /\ m.steps[v][k].rid = h.rid
             /\ m.steps[v][k].slot = h.slot
             /\ Ordinal(m.steps[v], k) > Ordinal(m.steps[u], j)
<1>1. /\ Ready(m) /\ InRange(m, cs) /\ t \in DOMAIN m.steps /\ i \in DOMAIN m.steps[t]
      /\ s = m.steps[t][i]
  BY TakenFacts
<1>2. \A xs : Overwritten(m, xs, u, j) <=>
                \E v \in DOMAIN m.steps : \E k \in 1..xs[v] : Over(v, k)
  BY DEF Overwritten
<1>4. s.stage = "ProducerAcquire" /\ s.rid = h.rid /\ s.slot = h.slot =>
        Ordinal(m.steps[t], i) > Ordinal(m.steps[u], j)
  <2> SUFFICES ASSUME s.stage = "ProducerAcquire", s.rid = h.rid, s.slot = h.slot
               PROVE  Ordinal(m.steps[t], i) > Ordinal(m.steps[u], j)
    OBVIOUS
  <2>1. Ordinal(m.steps[u], j) < Ordinal(m.steps[t], i)
    BY AcquireIsLater
  <2>2. Ordinal(m.steps[u], j) \in Nat /\ Ordinal(m.steps[t], i) \in Nat
    <3>1. j \in DOMAIN m.steps[u]
      BY <1>1, ExecutedIndex DEF Ready
    <3> QED BY <1>1, <3>1, OrdinalValue DEF PairStages
  <2> QED BY <2>1, <2>2
<1>5. Over(t, i) <=> Closes(m, t, s, u, j)
  BY <1>1, <1>4 DEF Closes
<1>7. \A v \in DOMAIN m.steps : \A k : k \in 1..ds[v] <=> k \in 1..cs[v] \/ (v = t /\ k = i)
  BY ExecutedAfter
<1> HIDE DEF Over, i
<1> QED BY <1>1, <1>2, <1>5, <1>7

\* The tag of a read a completion wait has named does not change any more.
LEMMA CompletedStays ==
    ASSUME NEW m, NEW cs, NEW bs, NEW t, NEW s, NEW ds, Taken(m, cs, bs, t, s, ds),
           NEW u \in DOMAIN m.steps, NEW j \in 1..cs[u],
           Completed(m, cs, u, j) \/ Frees(m, cs, s, u, j)
    PROVE  Completed(m, ds, u, j)
<1> DEFINE h == m.steps[u][j]
           i == cs[t] + 1
<1>1. /\ Ready(m) /\ InRange(m, cs) /\ t \in DOMAIN m.steps /\ i \in DOMAIN m.steps[t]
      /\ s = m.steps[t][i]
  BY TakenFacts
<1>2. \/ ~(u = t /\ s.stage = "ProducerCommit" /\ h.rid \in s.comp)
      \/ TagOf(m, cs, u, j) # Untagged
      => TagOf(m, ds, u, j) = TagOf(m, cs, u, j)
  BY TagAfter
<1>3. \A v \in DOMAIN m.steps : \A k : k \in 1..ds[v] <=> k \in 1..cs[v] \/ (v = t /\ k = i)
  BY ExecutedAfter
<1>4. CASE Completed(m, cs, u, j)
  <2>1. PICK v \in DOMAIN m.steps : \E k \in 1..cs[v] :
          /\ m.steps[v][k].stage = "ConsumerWait" /\ h.rid \in m.steps[v][k].comp
          /\ TagOf(m, cs, u, j) = m.steps[v][k].gen
    BY <1>4 DEF Completed
  <2>2. PICK k \in 1..cs[v] :
          /\ m.steps[v][k].stage = "ConsumerWait" /\ h.rid \in m.steps[v][k].comp
          /\ TagOf(m, cs, u, j) = m.steps[v][k].gen
    BY <2>1
  <2>3. k \in DOMAIN m.steps[v]
    BY <1>1, ExecutedIndex DEF Ready
  <2>4. TagOf(m, cs, u, j) # Untagged
    BY <1>1, <2>2, <2>3, Generation
  <2> HIDE DEF h, i
  <2> QED BY <1>2, <1>3, <2>2, <2>4 DEF Completed, h
<1>5. CASE Frees(m, cs, s, u, j)
  <2>1. s.stage = "ConsumerWait" /\ h.rid \in s.comp /\ TagOf(m, cs, u, j) = s.gen
    BY <1>5 DEF Frees
  <2>2. TagOf(m, ds, u, j) = s.gen
    BY <1>2, <2>1
  <2>3. i \in 1..ds[t]
    BY <1>1, <1>3
  <2> HIDE DEF h, i
  <2> QED BY <1>1, <2>1, <2>2, <2>3 DEF Completed, h
<1> QED BY <1>4, <1>5

\* With one accumulator a completion wait comes after the commit it waits for,
\* so it frees every read it completes.
LEMMA CompletedAfter ==
    ASSUME NEW m, NEW cs, NEW bs, NEW t, NEW s, NEW ds, Taken(m, cs, bs, t, s, ds),
           NEW u \in DOMAIN m.steps, NEW j \in 1..cs[u],
           m.steps[u][j].stage = "ConsumerWait", m.steps[u][j].dma,
           OneAccumulator(m), Completed(m, ds, u, j)
    PROVE  Completed(m, cs, u, j) \/ Frees(m, cs, s, u, j)
<1> DEFINE h == m.steps[u][j]
           i == cs[t] + 1
<1>1. /\ Ready(m) /\ InRange(m, cs) /\ t \in DOMAIN m.steps /\ i \in DOMAIN m.steps[t]
      /\ s = m.steps[t][i]
  BY TakenFacts
<1>2. /\ \/ ~(u = t /\ s.stage = "ProducerCommit" /\ h.rid \in s.comp)
         \/ TagOf(m, cs, u, j) # Untagged
         => TagOf(m, ds, u, j) = TagOf(m, cs, u, j)
      /\ /\ u = t /\ s.stage = "ProducerCommit" /\ h.rid \in s.comp
         /\ TagOf(m, cs, u, j) = Untagged
         => TagOf(m, ds, u, j) = s.gen
  BY TagAfter
<1>3. PICK v \in DOMAIN m.steps : \E k \in 1..ds[v] :
        /\ m.steps[v][k].stage = "ConsumerWait" /\ h.rid \in m.steps[v][k].comp
        /\ TagOf(m, ds, u, j) = m.steps[v][k].gen
  BY DEF Completed
<1>4. PICK k \in 1..ds[v] :
        /\ m.steps[v][k].stage = "ConsumerWait" /\ h.rid \in m.steps[v][k].comp
        /\ TagOf(m, ds, u, j) = m.steps[v][k].gen
  BY <1>3
<1>5. k \in 1..cs[v] \/ (v = t /\ k = i)
  BY ExecutedAfter
<1>6. CASE v = t /\ k = i
  <2>1. s.stage = "ConsumerWait" /\ h.rid \in s.comp /\ TagOf(m, ds, u, j) = s.gen
    BY <1>1, <1>4, <1>6
  <2>2. TagOf(m, cs, u, j) = s.gen
    BY <1>2, <2>1
  <2> QED BY <2>1, <2>2 DEF Frees
<1>7. CASE k \in 1..cs[v]
  <2>1. k \in DOMAIN m.steps[v]
    BY <1>1, <1>7, ExecutedIndex DEF Ready
  <2>2. m.steps[v][k].gen # Untagged
    BY <1>1, <1>4, <2>1, Generation
  <2>3. s.stage = "ProducerCommit" /\ h.rid \in s.comp => m.steps[v][k].gen # s.gen
    BY <1>4, <1>7, CommitIsNew
  <2>4. TagOf(m, cs, u, j) = m.steps[v][k].gen
    BY <1>2, <1>4, <2>2, <2>3
  <2> QED BY <1>4, <1>7, <2>4 DEF Completed
<1> QED BY <1>5, <1>6, <1>7

\* The step that closes an access was opened by the access of its own ordinal:
\* a later one on the ring stage cannot have been executed.
LEMMA ClosesOwn ==
    ASSUME NEW m, NEW cs, NEW bs, NEW t, NEW s, NEW ds, Taken(m, cs, bs, t, s, ds),
           NEW j \in 1..cs[t], NEW h, h = m.steps[t][j],
           \/ h.stage = "ProducerAcquire" /\ s.stage = "ProducerCommit"
           \/ h.stage = "ConsumerWait" /\ s.stage = "ConsumerRelease",
           s.rid = h.rid
    PROVE  /\ j \in DOMAIN m.steps[t]
           /\ Ordinal(m.steps[t], j) \in Nat /\ Ordinal(m.steps[t], cs[t] + 1) \in Nat
           /\ CountOn(m.steps[t], cs[t], s.stage, s.rid) = Ordinal(m.steps[t], cs[t] + 1)
           /\ s.slot = h.slot => Ordinal(m.steps[t], j) <= Ordinal(m.steps[t], cs[t] + 1)
           /\ Ordinal(m.steps[t], j) = Ordinal(m.steps[t], cs[t] + 1) => s.slot = h.slot
<1> DEFINE i == cs[t] + 1
           rec == <<s.rid, s.slot>>
<1>1. /\ Ready(m) /\ InRange(m, cs) /\ t \in DOMAIN m.steps /\ i \in DOMAIN m.steps[t]
      /\ s = m.steps[t][i] /\ i - 1 = cs[t] /\ cs[t] \in Nat
  BY TakenFacts
<1>2. s.stage \in PairStages /\ h.stage \in PairStages
  BY DEF PairStages
<1>3. j \in DOMAIN m.steps[t]
  BY <1>1, ExecutedIndex DEF Ready
<1>4. Ordinal(m.steps[t], j) \in Nat /\ Ordinal(m.steps[t], i) \in Nat
  BY <1>1, <1>2, <1>3, OrdinalValue
<1>5. CountOn(m.steps[t], cs[t], s.stage, s.rid) = Ordinal(m.steps[t], i)
  BY <1>1, <1>2, StepOrdinal
<1>6. ASSUME s.slot = h.slot PROVE Ordinal(m.steps[t], j) <= Ordinal(m.steps[t], i)
  <2>1. /\ Round(m, t, j) \in Nat /\ Done(m, cs, t, h.stage, rec) \in Nat
        /\ Round(m, t, j) < Done(m, cs, t, h.stage, rec)
    BY <1>1, <1>2, <1>6, ExecutedRound
  <2>2. Done(m, cs, t, h.stage, rec) = Round(m, t, i) + 1 /\ Round(m, t, i) \in Nat
    BY <1>2, TakenRound
  <2>3. ~(Round(m, t, i) < Round(m, t, j))
    BY <2>1, <2>2
  <2>4. ~(Ordinal(m.steps[t], i) < Ordinal(m.steps[t], j))
    BY <1>1, <1>2, <1>3, <1>6, <2>3, OrdinalOrder
  <2> QED BY <1>4, <2>4
<1>7. Ordinal(m.steps[t], j) = Ordinal(m.steps[t], i) => s.slot = h.slot
  BY <1>1, <1>2, <1>3, OrdinalOrder
<1> QED BY <1>3, <1>4, <1>5, <1>6, <1>7

\* An access is open until a step closes it.
LEMMA StillOpenAfter ==
    ASSUME NEW m, NEW cs, NEW bs, NEW t, NEW s, NEW ds, Taken(m, cs, bs, t, s, ds),
           NEW u \in DOMAIN m.steps, NEW j \in 1..cs[u]
    PROVE  StillOpen(m, ds, u, j) <=> StillOpen(m, cs, u, j) /\ ~Closes(m, t, s, u, j)
<1> DEFINE h == m.steps[u][j]
           k == Ordinal(m.steps[u], j)
           n(xs, stage) == CountOn(m.steps[u], xs[u], stage, h.rid)
<1>1. /\ Ready(m) /\ WellFormedModel(m) /\ InRange(m, cs) /\ t \in Unfinished(m, cs)
      /\ t \in DOMAIN m.steps /\ cs[t] + 1 \in DOMAIN m.steps[t] /\ s = m.steps[t][cs[t] + 1]
      /\ s = NextStep(m, cs, t) /\ ds = [cs EXCEPT ![t] = @ + 1]
  <2>1. /\ Ready(m) /\ WellFormedModel(m) /\ InRange(m, cs)
        /\ t \in DOMAIN m.steps /\ cs[t] + 1 \in DOMAIN m.steps[t] /\ s = m.steps[t][cs[t] + 1]
    BY TakenFacts
  <2> QED BY <2>1 DEF Taken
<1>2. \A stage : /\ n(cs, stage) \in Nat
                 /\ u = t /\ s.stage = stage /\ s.rid = h.rid => n(ds, stage) = n(cs, stage) + 1
                 /\ ~(u = t /\ s.stage = stage /\ s.rid = h.rid) => n(ds, stage) = n(cs, stage)
  <2> SUFFICES ASSUME NEW stage
               PROVE  /\ n(cs, stage) \in Nat
                      /\ u = t /\ s.stage = stage /\ s.rid = h.rid => n(ds, stage) = n(cs, stage) + 1
                      /\ ~(u = t /\ s.stage = stage /\ s.rid = h.rid) => n(ds, stage) = n(cs, stage)
    OBVIOUS
  <2> HIDE DEF h
  <2> QED BY CountOnNext
<1>3. ASSUME NEW stage,
             \/ h.stage = "ProducerAcquire" /\ stage = "ProducerCommit"
             \/ h.stage = "ConsumerWait" /\ stage = "ConsumerRelease"
      PROVE  ~(n(ds, stage) > k) <=>
                ~(n(cs, stage) > k) /\ ~(u = t /\ s.stage = stage /\ s.rid = h.rid /\ s.slot = h.slot)
  <2>1. CASE u = t /\ s.stage = stage /\ s.rid = h.rid
    <3>1. /\ k \in Nat /\ Ordinal(m.steps[t], cs[t] + 1) \in Nat
          /\ n(cs, stage) = Ordinal(m.steps[t], cs[t] + 1)
          /\ s.slot = h.slot => k <= Ordinal(m.steps[t], cs[t] + 1)
          /\ k = Ordinal(m.steps[t], cs[t] + 1) => s.slot = h.slot
      BY <1>3, <2>1, ClosesOwn
    <3>2. n(ds, stage) = n(cs, stage) + 1
      BY <1>2, <2>1
    <3> HIDE DEF k, n, h
    <3> QED BY <2>1, <3>1, <3>2
  <2>2. CASE ~(u = t /\ s.stage = stage /\ s.rid = h.rid)
    <3>1. n(ds, stage) = n(cs, stage)
      BY <1>2, <2>2
    <3> HIDE DEF k, n, h
    <3> QED BY <2>2, <3>1
  <2> QED BY <2>1, <2>2
<1>4. CASE h.stage = "ProducerAcquire"
  BY <1>3, <1>4 DEF StillOpen, Closes
<1>5. CASE h.stage = "ConsumerWait" /\ ~h.dma
  BY <1>3, <1>5 DEF StillOpen, Closes
<1>6. CASE h.stage = "ConsumerWait" /\ h.dma
  <2>1. Overwritten(m, ds, u, j) <=> Overwritten(m, cs, u, j) \/ Closes(m, t, s, u, j)
    BY <1>6, OverwrittenAfter
  <2> QED BY <1>6, <2>1 DEF StillOpen
<1>7. CASE h.stage \notin {"ProducerAcquire", "ConsumerWait"}
  BY <1>7 DEF StillOpen
<1> QED BY <1>4, <1>5, <1>6, <1>7

\* The executed steps, one by one.
LEMMA PositionMember ==
    ASSUME NEW m, NEW cs, NEW u, NEW j
    PROVE  <<u, j>> \in Positions(m, cs) <=> u \in DOMAIN m.steps /\ j \in 1..cs[u]
BY DEF Positions

\* An access is kept until a step ends it.
LEMMA KeptAfter ==
    ASSUME NEW m, NEW cs, NEW bs, NEW t, NEW s, NEW ds, Taken(m, cs, bs, t, s, ds),
           NEW D, NEW E, Added(E, D, m, cs, s), NEW u \in DOMAIN m.steps, NEW j \in 1..cs[u]
    PROVE  Kept(m, ds, E, u, j) <=> Kept(m, cs, D, u, j) /\ ~Ends(m, cs, t, s, u, j)
<1>1. StillOpen(m, ds, u, j) <=> StillOpen(m, cs, u, j) /\ ~Closes(m, t, s, u, j)
  BY StillOpenAfter
<1>2. <<u, j>> \in Positions(m, cs) /\ <<u, j>>[1] = u /\ <<u, j>>[2] = j
  BY PositionMember
<1>3. <<u, j>> \in Freed(m, cs, s) <=> Frees(m, cs, s, u, j)
  BY <1>2 DEF Freed
<1> QED BY <1>1, <1>3 DEF Kept, Ends, Added

\* The steps of the closing stage so far on a resource: no more than an opening
\* step of the round its task has reached there.
LEMMA NotClosedYet ==
    ASSUME NEW m, NEW cs, NEW bs, NEW t, NEW s, NEW ds, Taken(m, cs, bs, t, s, ds), NEW stage,
           \/ s.stage = "ProducerAcquire" /\ stage = "ProducerCommit"
           \/ s.stage = "ConsumerWait" /\ stage = "ConsumerRelease"
    PROVE  ~(CountOn(m.steps[t], ds[t], stage, s.rid) > Ordinal(m.steps[t], cs[t] + 1))
<1> DEFINE i == cs[t] + 1
           rec == <<s.rid, s.slot>>
<1>1. /\ Ready(m) /\ WellFormedModel(m) /\ InRange(m, cs) /\ t \in Unfinished(m, cs)
      /\ t \in DOMAIN m.steps /\ i \in DOMAIN m.steps[t] /\ s = m.steps[t][i]
      /\ cs[t] \in 0..Len(m.steps[t])
      /\ s = NextStep(m, cs, t) /\ ds = [cs EXCEPT ![t] = @ + 1]
  <2>1. /\ Ready(m) /\ WellFormedModel(m) /\ InRange(m, cs) /\ cs[t] \in 0..Len(m.steps[t])
        /\ t \in DOMAIN m.steps /\ i \in DOMAIN m.steps[t] /\ s = m.steps[t][i]
    BY TakenFacts
  <2> QED BY <2>1 DEF Taken
<1>2. s.stage \in PairStages /\ stage \in PairStages
  BY DEF PairStages
<1>3. CountOn(m.steps[t], ds[t], stage, s.rid) = CountOn(m.steps[t], cs[t], stage, s.rid)
  <2>1. s.stage # stage
    OBVIOUS
  <2>2. t \in DOMAIN m.steps
    BY <1>1
  <2>3. \A st : s.stage # st =>
          CountOn(m.steps[t], ds[t], st, s.rid) = CountOn(m.steps[t], cs[t], st, s.rid)
    BY <2>2, CountOnNext
  <2> QED BY <2>1, <2>3
<1>4. CountAt(m.steps[t], cs[t], stage, s.rid, s.slot) > Round(m, t, i) <=>
        CountOn(m.steps[t], cs[t], stage, s.rid) > Ordinal(m.steps[t], i)
  BY <1>1, <1>2, RoundCompare
<1>5. Done(m, cs, t, stage, rec) <= Round(m, t, i) /\ Round(m, t, i) \in Nat
  BY <1>2, TakenRound
<1>6. Done(m, cs, t, stage, rec) = CountAt(m.steps[t], cs[t], stage, s.rid, s.slot)
  BY DEF Done
<1>7. Done(m, cs, t, stage, rec) \in Nat
  BY <1>1, DoneType
<1> QED BY <1>3, <1>4, <1>5, <1>6, <1>7

\* No commit covers a step when it is taken.
LEMMA NewTag ==
    ASSUME NEW m, NEW ds, NEW t, ds[t] \in Nat
    PROVE  TagOf(m, ds, t, ds[t]) = Untagged
<1>1. CoveringCommits(m, ds, t, ds[t]) = {}
  BY DEF CoveringCommits
<1> QED BY <1>1 DEF TagOf

\* An acquire or a wait holds the access it takes.
LEMMA NewHold ==
    ASSUME NEW m, NEW cs, NEW bs, NEW t, NEW s, NEW ds, Taken(m, cs, bs, t, s, ds),
           NEW D \in SUBSET Positions(m, cs), NEW E, Added(E, D, m, cs, s)
    PROVE  /\ Kept(m, ds, E, t, cs[t] + 1) <=> s.stage \in {"ProducerAcquire", "ConsumerWait"}
           /\ TagOf(m, ds, t, cs[t] + 1) = Untagged
<1> DEFINE i == cs[t] + 1
           rec == <<s.rid, s.slot>>
<1>1. /\ Ready(m) /\ InRange(m, cs) /\ InRange(m, ds) /\ t \in DOMAIN m.steps /\ i \in DOMAIN m.steps[t]
      /\ s = m.steps[t][i] /\ cs[t] \in Nat /\ ds[t] = i
      /\ \A v \in DOMAIN m.steps : v # t => ds[v] = cs[v]
  BY TakenFacts
<1>2. TagOf(m, ds, t, i) = Untagged
  <2>1. ds[t] \in Nat /\ ds[t] = i
    BY <1>1
  <2> QED BY <2>1, NewTag
<1>3. ASSUME s.stage = "ConsumerWait", Overwritten(m, ds, t, i) PROVE FALSE
  <2>1. PICK v \in DOMAIN m.steps : \E k \in 1..ds[v] :
          /\ m.steps[v][k].stage = "ProducerAcquire" /\ m.steps[v][k].rid = s.rid
          /\ m.steps[v][k].slot = s.slot /\ Ordinal(m.steps[v], k) > Ordinal(m.steps[t], i)
    BY <1>1, <1>3 DEF Overwritten
  <2>0. PICK k \in 1..ds[v] :
          /\ m.steps[v][k].stage = "ProducerAcquire" /\ m.steps[v][k].rid = s.rid
          /\ m.steps[v][k].slot = s.slot /\ Ordinal(m.steps[v], k) > Ordinal(m.steps[t], i)
    BY <2>1
  <2> DEFINE w == m.steps[v][k]
  <2>2. k \in DOMAIN m.steps[v]
    BY <1>1, ExecutedIndex DEF Ready
  <2>4. /\ w.stage = "ProducerAcquire" /\ w.rid = s.rid
        /\ w.slot = s.slot /\ Ordinal(m.steps[v], k) > Ordinal(m.steps[t], i)
    BY <2>0
  <2>5. k \in 1..cs[v]
    <3>1. CASE v # t
      BY <1>1, <3>1
    <3>2. CASE v = t
      BY <1>1, <1>3, <2>4, <3>2
    <3> QED BY <3>1, <3>2
  <2>6. s.stage \in PairStages /\ w.stage \in PairStages
    BY <1>3, <2>4 DEF PairStages
  <2>7. /\ Round(m, v, k) \in Nat /\ v \in ProducersOf(m, w.rid)
        /\ Done(m, cs, v, "ProducerAcquire", rec) \in Nat
        /\ Round(m, v, k) < Done(m, cs, v, "ProducerAcquire", rec)
    BY <1>1, <2>4, <2>5, <2>6, ExecutedRound
  <2>8. Done(m, cs, v, "ProducerAcquire", rec) <= Round(m, t, i) + 1 /\ Round(m, t, i) \in Nat
    BY <1>3, <2>4, <2>6, <2>7, TakenRound
  <2>9. ~(Round(m, t, i) < Round(m, v, k))
    BY <2>7, <2>8
  <2>10. ~(Ordinal(m.steps[t], i) < Ordinal(m.steps[v], k))
    BY <1>1, <2>2, <2>4, <2>6, <2>9, OrdinalOrder
  <2>11. Ordinal(m.steps[t], i) \in Nat /\ Ordinal(m.steps[v], k) \in Nat
    BY <1>1, <2>2, <2>6, OrdinalValue
  <2> QED BY <2>4, <2>10, <2>11
<1>7. <<t, i>> \notin E
  <2>1. i \notin 1..cs[t]
    BY <1>1
  <2>2. <<t, i>> \notin Positions(m, cs)
    BY <2>1, PositionMember
  <2> QED BY <2>2 DEF Freed, Added
<1>4. ASSUME s.stage = "ProducerAcquire" PROVE StillOpen(m, ds, t, i)
  <2>1. ~(CountOn(m.steps[t], ds[t], "ProducerCommit", s.rid) > Ordinal(m.steps[t], i))
    BY <1>4, NotClosedYet
  <2> QED BY <1>1, <1>2, <1>4, <2>1 DEF StillOpen
<1>5. ASSUME s.stage = "ConsumerWait" PROVE StillOpen(m, ds, t, i)
  <2>1. ~(CountOn(m.steps[t], ds[t], "ConsumerRelease", s.rid) > Ordinal(m.steps[t], i))
    BY <1>5, NotClosedYet
  <2> QED BY <1>1, <1>2, <1>3, <1>5, <2>1 DEF StillOpen
<1>6. ASSUME s.stage \notin {"ProducerAcquire", "ConsumerWait"} PROVE ~StillOpen(m, ds, t, i)
  BY <1>1, <1>2, <1>6 DEF StillOpen
<1> QED BY <1>2, <1>4, <1>5, <1>6, <1>7 DEF Kept

\* The accesses in flight after a step: those it does not end, and the one it takes.
LEMMA HeldOfAfter ==
    ASSUME NEW m, NEW cs, NEW bs, NEW t, NEW s, NEW ds, Taken(m, cs, bs, t, s, ds),
           NEW D \in SUBSET Positions(m, cs), NEW E, Added(E, D, m, cs, s),
           NEW x
    PROVE  x \in HeldBut(m, ds, E) <=>
             \/ \E u \in DOMAIN m.steps : \E j \in 1..cs[u] :
                   /\ Kept(m, cs, D, u, j) /\ ~Ends(m, cs, t, s, u, j)
                   /\ x = EntryOf(m, ds, u, j)
             \/ s.stage = "ProducerAcquire" /\ x = Entry(t, s, "write", cs[t])
             \/ s.stage = "ConsumerWait" /\ x = Entry(t, s, "read", cs[t])
<1> DEFINE i == cs[t] + 1
<1>1. /\ t \in DOMAIN m.steps /\ s = m.steps[t][i] /\ cs[t] \in Nat /\ ds[t] = i /\ i - 1 = cs[t]
      /\ \A v \in DOMAIN m.steps : v # t => ds[v] = cs[v]
      /\ i \in 1..ds[t]
  BY TakenFacts
<1>2. \A u \in DOMAIN m.steps : \A j : j \in 1..ds[u] <=> j \in 1..cs[u] \/ (u = t /\ j = i)
  <2> SUFFICES ASSUME NEW u \in DOMAIN m.steps, NEW j
               PROVE  j \in 1..ds[u] <=> j \in 1..cs[u] \/ (u = t /\ j = i)
    OBVIOUS
  <2>1. CASE u # t
    BY <1>1, <2>1
  <2>2. CASE u = t
    BY <1>1, <2>2
  <2> QED BY <2>1, <2>2
<1>3. \A u \in DOMAIN m.steps : \A j \in 1..cs[u] :
        Kept(m, ds, E, u, j) <=> Kept(m, cs, D, u, j) /\ ~Ends(m, cs, t, s, u, j)
  BY KeptAfter
<1>4. Kept(m, ds, E, t, i) <=> s.stage \in {"ProducerAcquire", "ConsumerWait"}
  BY NewHold
<1>5. /\ s.stage = "ProducerAcquire" => EntryOf(m, ds, t, i) = Entry(t, s, "write", cs[t])
      /\ s.stage = "ConsumerWait" => EntryOf(m, ds, t, i) = Entry(t, s, "read", cs[t])
  <2>1. TagOf(m, ds, t, i) = Untagged
    BY NewHold
  <2>2. EntryOf(m, ds, t, i) =
             [task |-> t, rid |-> s.rid,
              access |-> IF s.stage = "ProducerAcquire" THEN "write" ELSE "read", slot |-> s.slot,
              tag |-> IF s.stage = "ProducerAcquire" THEN Untagged ELSE TagOf(m, ds, t, i),
              at |-> i - 1]
    BY <1>1, EntryFields
  <2> HIDE DEF i
  <2> QED BY <1>1, <2>1, <2>2 DEF Entry
<1>6. x \in HeldBut(m, ds, E) <=>
        \E u \in DOMAIN m.steps : \E j \in 1..ds[u] :
            Kept(m, ds, E, u, j) /\ x = EntryOf(m, ds, u, j)
  BY HeldMember
<1> HIDE DEF i
<1> QED BY <1>1, <1>2, <1>3, <1>4, <1>5, <1>6

\* What the entry of an access says of the step that took it.
LEMMA EntrySays ==
    ASSUME NEW m, NEW cs, NEW D, NEW u, NEW j, Kept(m, cs, D, u, j), NEW x, x = EntryOf(m, cs, u, j),
           NEW h, h = m.steps[u][j]
    PROVE  /\ x.task = u /\ x.rid = h.rid /\ x.slot = h.slot /\ x.at = j - 1
           /\ x.access = "write" <=> h.stage = "ProducerAcquire"
           /\ x.access = "read" <=> h.stage = "ConsumerWait"
           /\ h.stage = "ProducerAcquire" => x.tag = Untagged
           /\ h.stage = "ConsumerWait" => x.tag = TagOf(m, cs, u, j)
<1>1. h.stage \in {"ProducerAcquire", "ConsumerWait"}
  BY HolderStage
<1>2. x = [task |-> u, rid |-> h.rid,
           access |-> IF h.stage = "ProducerAcquire" THEN "write" ELSE "read", slot |-> h.slot,
           tag |-> IF h.stage = "ProducerAcquire" THEN Untagged ELSE TagOf(m, cs, u, j),
           at |-> j - 1]
  BY EntryFields
<1> QED BY <1>1, <1>2

\* The entry of an access that goes on changes only when a commit covers it.
LEMMA EntryAfter ==
    ASSUME NEW m, NEW cs, NEW bs, NEW t, NEW s, NEW ds, Taken(m, cs, bs, t, s, ds), NEW D,
           NEW u \in DOMAIN m.steps, NEW j \in 1..cs[u], Kept(m, cs, D, u, j),
           NEW x, x = EntryOf(m, cs, u, j)
    PROVE  EntryOf(m, ds, u, j) =
             IF s.stage = "ProducerCommit" /\ x.task = t /\ x.access = "read"
                /\ x.tag = Untagged /\ x.rid \in s.comp
             THEN [x EXCEPT !.tag = s.gen] ELSE x
<1> DEFINE h == m.steps[u][j]
           acc == IF h.stage = "ProducerAcquire" THEN "write" ELSE "read"
           y == EntryOf(m, ds, u, j)
<1>1. h.stage \in {"ProducerAcquire", "ConsumerWait"}
  BY HolderStage
<1>2. x = [task |-> u, rid |-> h.rid, access |-> acc, slot |-> h.slot,
           tag |-> IF h.stage = "ProducerAcquire" THEN Untagged ELSE TagOf(m, cs, u, j),
           at |-> j - 1]
  BY EntryFields
<1>3. y = [task |-> u, rid |-> h.rid, access |-> acc, slot |-> h.slot,
           tag |-> IF h.stage = "ProducerAcquire" THEN Untagged ELSE TagOf(m, ds, u, j),
           at |-> j - 1]
  BY EntryFields
<1>4. /\ \/ ~(u = t /\ s.stage = "ProducerCommit" /\ h.rid \in s.comp)
         \/ TagOf(m, cs, u, j) # Untagged
         => TagOf(m, ds, u, j) = TagOf(m, cs, u, j)
      /\ /\ u = t /\ s.stage = "ProducerCommit" /\ h.rid \in s.comp
         /\ TagOf(m, cs, u, j) = Untagged
         => TagOf(m, ds, u, j) = s.gen
  BY TagAfter
<1> HIDE DEF h, y
<1>5. CASE h.stage = "ProducerAcquire"
  BY <1>2, <1>3, <1>5 DEF y
<1>6. CASE h.stage = "ConsumerWait"
  <2>1. CASE u = t /\ s.stage = "ProducerCommit" /\ h.rid \in s.comp /\ TagOf(m, cs, u, j) = Untagged
    BY <1>2, <1>3, <1>4, <1>6, <2>1 DEF y
  <2>2. CASE ~(u = t /\ s.stage = "ProducerCommit" /\ h.rid \in s.comp /\ TagOf(m, cs, u, j) = Untagged)
    <3>1. TagOf(m, ds, u, j) = TagOf(m, cs, u, j)
      BY <1>4, <2>2
    <3>2. y = x
      BY <1>2, <1>3, <3>1
    <3>3. ~(s.stage = "ProducerCommit" /\ x.task = t /\ x.tag = Untagged /\ x.rid \in s.comp)
      BY <1>2, <1>6, <2>2
    <3> QED BY <3>2, <3>3 DEF y
  <2> QED BY <2>1, <2>2
<1> QED BY <1>1, <1>5, <1>6

\* Removing the first of at most one matching entry removes all of them.
LEMMA RemoveOnly ==
    ASSUME NEW H, NEW t, NEW s, NEW a,
           \A x \in H : x.tag \in Int,
           \A x, y \in H : /\ x.task = t /\ x.rid = s.rid /\ x.access = a /\ x.slot = s.slot
                           /\ y.task = t /\ y.rid = s.rid /\ y.access = a /\ y.slot = s.slot
                           => x = y
    PROVE  RemoveFirstEntry(H, t, s, a) =
             {x \in H : ~(x.task = t /\ x.rid = s.rid /\ x.access = a /\ x.slot = s.slot)}
<1> DEFINE M == {x \in H : /\ x.task = t /\ x.rid = s.rid /\ x.access = a /\ x.slot = s.slot}
           first == CHOOSE x \in M : \A y \in M : x.tag <= y.tag
<1>1. RemoveFirstEntry(H, t, s, a) = IF M = {} THEN H ELSE H \ {first}
  BY DEF RemoveFirstEntry
<1>2. {x \in H : ~(x.task = t /\ x.rid = s.rid /\ x.access = a /\ x.slot = s.slot)} = H \ M
  OBVIOUS
<1>3. \A x, y \in M : x = y
  OBVIOUS
<1>4. \A x \in M : x.tag <= x.tag
  OBVIOUS
<1>5. ASSUME M # {} PROVE M = {first}
  <2> HIDE DEF M
  <2>1. \E x \in M : \A y \in M : x.tag <= y.tag
    BY <1>3, <1>4, <1>5
  <2>2. first \in M
    BY <2>1
  <2> QED BY <1>3, <2>2
<1> HIDE DEF M, first
<1> QED BY <1>1, <1>2, <1>5

\* The entries of the cursors, and their tags.
LEMMA TagsAreNumbers ==
    ASSUME NEW m, Ready(m), NEW cs, InRange(m, cs), NEW D
    PROVE  \A x \in HeldBut(m, cs, D) : x.tag \in Int
<1> SUFFICES ASSUME NEW x \in HeldBut(m, cs, D) PROVE x.tag \in Int
  OBVIOUS
<1>1. PICK u \in DOMAIN m.steps : \E j \in 1..cs[u] : Kept(m, cs, D, u, j) /\ x = EntryOf(m, cs, u, j)
  BY HeldMember
<1>2. PICK j \in 1..cs[u] : Kept(m, cs, D, u, j) /\ x = EntryOf(m, cs, u, j)
  BY <1>1
<1>3. j \in Nat
  OBVIOUS
<1>4. TagOf(m, cs, u, j) \in Int
  BY <1>3, TagFacts DEF Untagged
<1>5. m.steps[u][j].stage \in {"ProducerAcquire", "ConsumerWait"}
  BY <1>2, HolderStage
<1> QED BY <1>2, <1>4, <1>5, EntrySays DEF Untagged

\* A commit or a release finds at most one access to close.
LEMMA OneToClose ==
    ASSUME NEW m, NEW cs, NEW bs, NEW t, NEW s, NEW ds, Taken(m, cs, bs, t, s, ds), NEW D, NEW a,
           \/ a = "write" /\ s.stage = "ProducerCommit"
           \/ a = "read" /\ s.stage = "ConsumerRelease" /\ ~s.dma
    PROVE  \A x, y \in HeldBut(m, cs, D) :
              /\ x.task = t /\ x.rid = s.rid /\ x.access = a /\ x.slot = s.slot
              /\ y.task = t /\ y.rid = s.rid /\ y.access = a /\ y.slot = s.slot
              => x = y
<1> DEFINE open == IF a = "write" THEN "ProducerAcquire" ELSE "ConsumerWait"
           i == cs[t] + 1
<1>1. /\ Ready(m) /\ InRange(m, cs) /\ t \in DOMAIN m.steps /\ i \in DOMAIN m.steps[t]
      /\ s = m.steps[t][i]
  BY TakenFacts
<1>2. ASSUME NEW x \in HeldBut(m, cs, D), x.task = t, x.rid = s.rid, x.access = a, x.slot = s.slot
      PROVE  \E j \in DOMAIN m.steps[t] : /\ x = EntryOf(m, cs, t, j) /\ m.steps[t][j].stage = open
                               /\ m.steps[t][j].rid = s.rid
                               /\ Ordinal(m.steps[t], j) = Ordinal(m.steps[t], i)
  <2>1. PICK u \in DOMAIN m.steps : \E j \in 1..cs[u] : Kept(m, cs, D, u, j) /\ x = EntryOf(m, cs, u, j)
    BY HeldMember
  <2>2. PICK j \in 1..cs[u] : Kept(m, cs, D, u, j) /\ x = EntryOf(m, cs, u, j)
    BY <2>1
  <2> DEFINE h == m.steps[u][j]
  <2>3. u = t /\ h.rid = s.rid /\ h.slot = s.slot
    BY <1>2, <2>2, EntrySays
  <2>4. h.stage = open
    BY <1>2, <2>2, EntrySays
  <2>5. /\ j \in DOMAIN m.steps[t]
        /\ Ordinal(m.steps[t], j) \in Nat /\ Ordinal(m.steps[t], i) \in Nat
        /\ CountOn(m.steps[t], cs[t], s.stage, s.rid) = Ordinal(m.steps[t], i)
        /\ Ordinal(m.steps[t], j) <= Ordinal(m.steps[t], i)
    BY <2>3, <2>4, ClosesOwn
  <2>6. a = "read" => ~h.dma
    <3>1. h.dma = s.dma
      BY <1>1, <2>3, <2>5, DmaOfResource
    <3> QED BY <3>1
  <2>7. ~(CountOn(m.steps[t], cs[t], s.stage, s.rid) > Ordinal(m.steps[t], j))
    BY <2>2, <2>3, <2>4, <2>6 DEF Kept, StillOpen
  <2>8. Ordinal(m.steps[t], j) = Ordinal(m.steps[t], i)
    <3> HIDE DEF h, i, open
    <3> QED BY <2>5, <2>7
  <2> QED BY <2>2, <2>3, <2>4, <2>5, <2>8
<1>3. open \in PairStages
  BY DEF PairStages
<1> SUFFICES ASSUME NEW x \in HeldBut(m, cs, D), NEW y \in HeldBut(m, cs, D),
                    x.task = t, x.rid = s.rid, x.access = a, x.slot = s.slot,
                    y.task = t, y.rid = s.rid, y.access = a, y.slot = s.slot
             PROVE  x = y
  OBVIOUS
<1> HIDE DEF open
<1>4. PICK j \in DOMAIN m.steps[t] : /\ x = EntryOf(m, cs, t, j) /\ m.steps[t][j].stage = open
                          /\ m.steps[t][j].rid = s.rid
                          /\ Ordinal(m.steps[t], j) = Ordinal(m.steps[t], i)
  BY <1>2
<1>5. PICK k \in DOMAIN m.steps[t] : /\ y = EntryOf(m, cs, t, k) /\ m.steps[t][k].stage = open
                          /\ m.steps[t][k].rid = s.rid
                          /\ Ordinal(m.steps[t], k) = Ordinal(m.steps[t], i)
  BY <1>2
<1>6. j = k
  BY <1>1, <1>3, <1>4, <1>5, OrdinalUnique
<1> QED BY <1>4, <1>5, <1>6

\* Which entries _apply_step takes out are those of the accesses the step ends.
LEMMA EndsSays ==
    ASSUME NEW m, NEW cs, NEW bs, NEW t, NEW s, NEW ds, Taken(m, cs, bs, t, s, ds), NEW D,
           NEW u \in DOMAIN m.steps, NEW j \in 1..cs[u], Kept(m, cs, D, u, j),
           NEW x, x = EntryOf(m, cs, u, j)
    PROVE  /\ s.stage = "ProducerAcquire" =>
                (Ends(m, cs, t, s, u, j) <=>
                    s.dma /\ x.rid = s.rid /\ x.access = "read" /\ x.slot = s.slot)
           /\ s.stage = "ConsumerWait" =>
                (Ends(m, cs, t, s, u, j) <=> x.access = "read" /\ x.tag = s.gen /\ x.rid \in s.comp)
           /\ s.stage = "ProducerCommit" =>
                (Ends(m, cs, t, s, u, j) <=>
                    x.task = t /\ x.rid = s.rid /\ x.access = "write" /\ x.slot = s.slot)
           /\ s.stage = "ConsumerRelease" =>
                (Ends(m, cs, t, s, u, j) <=>
                    ~s.dma /\ x.task = t /\ x.rid = s.rid /\ x.access = "read" /\ x.slot = s.slot)
           /\ s.stage \notin PairStages => ~Ends(m, cs, t, s, u, j)
<1> DEFINE h == m.steps[u][j]
<1>1. /\ Ready(m) /\ InRange(m, cs) /\ t \in DOMAIN m.steps /\ cs[t] + 1 \in DOMAIN m.steps[t]
      /\ s = m.steps[t][cs[t] + 1]
  BY TakenFacts
<1>2. j \in DOMAIN m.steps[u]
  BY <1>1, ExecutedIndex DEF Ready
<1>3. (h.rid = s.rid => h.dma = s.dma) /\ (h.rid \in s.comp => h.dma)
  BY <1>1, <1>2 DEF Ready, Precomputed
<1>4. /\ x.task = u /\ x.rid = h.rid /\ x.slot = h.slot
      /\ x.access = "write" <=> h.stage = "ProducerAcquire"
      /\ x.access = "read" <=> h.stage = "ConsumerWait"
      /\ h.stage = "ConsumerWait" => x.tag = TagOf(m, cs, u, j)
  BY EntrySays
<1> HIDE DEF h
<1> QED BY <1>3, <1>4 DEF Ends, Closes, Frees, PairStages, h

\* The entries kept by _apply_step are those of the cursors.
LEMMA HeldAcquire ==
    ASSUME NEW m, NEW cs, NEW bs, NEW t, NEW s, NEW ds, Taken(m, cs, bs, t, s, ds),
           NEW D \in SUBSET Positions(m, cs), NEW E, Added(E, D, m, cs, s),
           s.stage = "ProducerAcquire"
    PROVE  HeldAfterAcquire(HeldBut(m, cs, D), t, s, cs[t]) = HeldBut(m, ds, E)
<1> SUFFICES ASSUME NEW x PROVE x \in HeldAfterAcquire(HeldBut(m, cs, D), t, s, cs[t]) <=> x \in HeldBut(m, ds, E)
  OBVIOUS
<1>1. x \in HeldBut(m, ds, E) <=>
        \/ \E u \in DOMAIN m.steps : \E j \in 1..cs[u] :
              /\ Kept(m, cs, D, u, j) /\ ~Ends(m, cs, t, s, u, j) /\ x = EntryOf(m, ds, u, j)
        \/ x = Entry(t, s, "write", cs[t])
  <2>1. x \in HeldBut(m, ds, E) <=>
          \/ \E u \in DOMAIN m.steps : \E j \in 1..cs[u] :
                /\ Kept(m, cs, D, u, j) /\ ~Ends(m, cs, t, s, u, j) /\ x = EntryOf(m, ds, u, j)
          \/ s.stage = "ProducerAcquire" /\ x = Entry(t, s, "write", cs[t])
          \/ s.stage = "ConsumerWait" /\ x = Entry(t, s, "read", cs[t])
    BY HeldOfAfter
  <2> QED BY <2>1
<1>2. x \in HeldBut(m, cs, D) <=>
        \E u \in DOMAIN m.steps : \E j \in 1..cs[u] :
            Kept(m, cs, D, u, j) /\ x = EntryOf(m, cs, u, j)
  BY HeldMember
<1>3. \A u \in DOMAIN m.steps : \A j \in 1..cs[u] : Kept(m, cs, D, u, j) =>
        /\ EntryOf(m, ds, u, j) = EntryOf(m, cs, u, j)
        /\ x = EntryOf(m, cs, u, j) =>
              (Ends(m, cs, t, s, u, j) <=>
                    s.dma /\ x.rid = s.rid /\ x.access = "read" /\ x.slot = s.slot)
  BY EntryAfter, EndsSays
<1> QED BY <1>1, <1>2, <1>3 DEF HeldAfterAcquire

\* A wait opens its read and closes the operand reads its generation covers.
LEMMA HeldWait ==
    ASSUME NEW m, NEW cs, NEW bs, NEW t, NEW s, NEW ds, Taken(m, cs, bs, t, s, ds),
           NEW D \in SUBSET Positions(m, cs), NEW E, Added(E, D, m, cs, s),
           s.stage = "ConsumerWait"
    PROVE  HeldAfterWait(HeldBut(m, cs, D), t, s, cs[t]) = HeldBut(m, ds, E)
<1> SUFFICES ASSUME NEW x PROVE x \in HeldAfterWait(HeldBut(m, cs, D), t, s, cs[t]) <=> x \in HeldBut(m, ds, E)
  OBVIOUS
<1>1. x \in HeldBut(m, ds, E) <=>
        \/ \E u \in DOMAIN m.steps : \E j \in 1..cs[u] :
              /\ Kept(m, cs, D, u, j) /\ ~Ends(m, cs, t, s, u, j) /\ x = EntryOf(m, ds, u, j)
        \/ x = Entry(t, s, "read", cs[t])
  BY HeldOfAfter
<1>2. x \in HeldBut(m, cs, D) <=>
        \E u \in DOMAIN m.steps : \E j \in 1..cs[u] :
            Kept(m, cs, D, u, j) /\ x = EntryOf(m, cs, u, j)
  BY HeldMember
<1>3. \A u \in DOMAIN m.steps : \A j \in 1..cs[u] : Kept(m, cs, D, u, j) =>
        /\ EntryOf(m, ds, u, j) = EntryOf(m, cs, u, j)
        /\ x = EntryOf(m, cs, u, j) =>
              (Ends(m, cs, t, s, u, j) <=> x.access = "read" /\ x.tag = s.gen /\ x.rid \in s.comp)
  BY EntryAfter, EndsSays
<1> QED BY <1>1, <1>2, <1>3 DEF HeldAfterWait

\* A commit closes its write and tags the operand reads it is the first to cover.
LEMMA HeldCommit ==
    ASSUME NEW m, NEW cs, NEW bs, NEW t, NEW s, NEW ds, Taken(m, cs, bs, t, s, ds),
           NEW D \in SUBSET Positions(m, cs), NEW E, Added(E, D, m, cs, s),
           s.stage = "ProducerCommit"
    PROVE  HeldAfterCommit(HeldBut(m, cs, D), t, s) = HeldBut(m, ds, E)
<1> DEFINE H == HeldBut(m, cs, D)
           Covered(y) == y.task = t /\ y.access = "read" /\ y.tag = Untagged /\ y.rid \in s.comp
           After(y) == IF Covered(y) THEN [y EXCEPT !.tag = s.gen] ELSE y
           Closed(y) == y.task = t /\ y.rid = s.rid /\ y.access = "write" /\ y.slot = s.slot
<1>1. RemoveFirstEntry(H, t, s, "write") = {y \in H : ~Closed(y)}
  <2>1. \A x, y \in H : /\ x.task = t /\ x.rid = s.rid /\ x.access = "write" /\ x.slot = s.slot
                        /\ y.task = t /\ y.rid = s.rid /\ y.access = "write" /\ y.slot = s.slot
                        => x = y
    BY OneToClose
  <2>2. \A x \in H : x.tag \in Int
    BY TakenFacts, TagsAreNumbers
  <2> HIDE DEF H
  <2> QED BY <2>1, <2>2, RemoveOnly
<1>2. HeldAfterCommit(H, t, s) = {After(y) : y \in {z \in H : ~Closed(z)}}
  <2> HIDE DEF H, Closed
  <2> QED BY <1>1 DEF HeldAfterCommit
<1> SUFFICES ASSUME NEW x PROVE x \in {After(y) : y \in {z \in H : ~Closed(z)}} <=> x \in HeldBut(m, ds, E)
  BY <1>2
<1>3. x \in HeldBut(m, ds, E) <=>
        \E u \in DOMAIN m.steps : \E j \in 1..cs[u] :
              /\ Kept(m, cs, D, u, j) /\ ~Ends(m, cs, t, s, u, j) /\ x = EntryOf(m, ds, u, j)
  BY HeldOfAfter
<1>4. \A y : y \in H <=>
        \E u \in DOMAIN m.steps : \E j \in 1..cs[u] :
            Kept(m, cs, D, u, j) /\ y = EntryOf(m, cs, u, j)
  BY HeldMember
<1>5. \A u \in DOMAIN m.steps : \A j \in 1..cs[u] : Kept(m, cs, D, u, j) =>
        /\ EntryOf(m, ds, u, j) = After(EntryOf(m, cs, u, j))
        /\ Ends(m, cs, t, s, u, j) <=> Closed(EntryOf(m, cs, u, j))
  <2> SUFFICES ASSUME NEW u \in DOMAIN m.steps, NEW j \in 1..cs[u], Kept(m, cs, D, u, j),
                      NEW y, y = EntryOf(m, cs, u, j)
               PROVE  /\ EntryOf(m, ds, u, j) = After(y)
                      /\ Ends(m, cs, t, s, u, j) <=> Closed(y)
    OBVIOUS
  <2>1. EntryOf(m, ds, u, j) = After(y)
    BY EntryAfter
  <2>2. Ends(m, cs, t, s, u, j) <=> Closed(y)
    BY EndsSays
  <2> QED BY <2>1, <2>2
<1> HIDE DEF H, After, Closed
<1> QED BY <1>3, <1>4, <1>5

\* A release closes its read, unless it is one of the tensor core.
LEMMA HeldRelease ==
    ASSUME NEW m, NEW cs, NEW bs, NEW t, NEW s, NEW ds, Taken(m, cs, bs, t, s, ds),
           NEW D \in SUBSET Positions(m, cs), NEW E, Added(E, D, m, cs, s),
           s.stage = "ConsumerRelease"
    PROVE  HeldAfterRelease(HeldBut(m, cs, D), t, s) = HeldBut(m, ds, E)
<1> DEFINE H == HeldBut(m, cs, D)
           Closed(y) == ~s.dma /\ y.task = t /\ y.rid = s.rid /\ y.access = "read" /\ y.slot = s.slot
<1>1. HeldAfterRelease(H, t, s) = {y \in H : ~Closed(y)}
  <2>1. CASE s.dma
    BY <2>1 DEF HeldAfterRelease
  <2>2. CASE ~s.dma
    <3>1. \A x, y \in H : /\ x.task = t /\ x.rid = s.rid /\ x.access = "read" /\ x.slot = s.slot
                          /\ y.task = t /\ y.rid = s.rid /\ y.access = "read" /\ y.slot = s.slot
                          => x = y
      BY <2>2, OneToClose
    <3>2. \A x \in H : x.tag \in Int
      BY TakenFacts, TagsAreNumbers
    <3> HIDE DEF H
    <3> QED BY <2>2, <3>1, <3>2, RemoveOnly DEF HeldAfterRelease
  <2> QED BY <2>1, <2>2
<1> SUFFICES ASSUME NEW x PROVE x \in {y \in H : ~Closed(y)} <=> x \in HeldBut(m, ds, E)
  BY <1>1
<1>3. x \in HeldBut(m, ds, E) <=>
        \E u \in DOMAIN m.steps : \E j \in 1..cs[u] :
              /\ Kept(m, cs, D, u, j) /\ ~Ends(m, cs, t, s, u, j) /\ x = EntryOf(m, ds, u, j)
  BY HeldOfAfter
<1>4. x \in H <=>
        \E u \in DOMAIN m.steps : \E j \in 1..cs[u] :
            Kept(m, cs, D, u, j) /\ x = EntryOf(m, cs, u, j)
  BY HeldMember
<1>5. \A u \in DOMAIN m.steps : \A j \in 1..cs[u] : Kept(m, cs, D, u, j) =>
        /\ EntryOf(m, ds, u, j) = EntryOf(m, cs, u, j)
        /\ x = EntryOf(m, cs, u, j) => (Ends(m, cs, t, s, u, j) <=> Closed(x))
  BY EntryAfter, EndsSays
<1> HIDE DEF H, Closed
<1> QED BY <1>3, <1>4, <1>5

\* Any other step opens and closes nothing.
LEMMA HeldPassive ==
    ASSUME NEW m, NEW cs, NEW bs, NEW t, NEW s, NEW ds, Taken(m, cs, bs, t, s, ds),
           NEW D \in SUBSET Positions(m, cs), NEW E, Added(E, D, m, cs, s),
           s.stage \notin PairStages
    PROVE  HeldBut(m, cs, D) = HeldBut(m, ds, E)
<1> SUFFICES ASSUME NEW x PROVE x \in HeldBut(m, cs, D) <=> x \in HeldBut(m, ds, E)
  OBVIOUS
<1>1. x \in HeldBut(m, ds, E) <=>
        \E u \in DOMAIN m.steps : \E j \in 1..cs[u] :
              /\ Kept(m, cs, D, u, j) /\ ~Ends(m, cs, t, s, u, j) /\ x = EntryOf(m, ds, u, j)
  BY HeldOfAfter DEF PairStages
<1>2. x \in HeldBut(m, cs, D) <=>
        \E u \in DOMAIN m.steps : \E j \in 1..cs[u] :
            Kept(m, cs, D, u, j) /\ x = EntryOf(m, cs, u, j)
  BY HeldMember
<1>3. \A u \in DOMAIN m.steps : \A j \in 1..cs[u] : Kept(m, cs, D, u, j) =>
        EntryOf(m, ds, u, j) = EntryOf(m, cs, u, j) /\ ~Ends(m, cs, t, s, u, j)
  BY EntryAfter, EndsSays DEF PairStages
<1> QED BY <1>1, <1>2, <1>3

\* Whatever step is taken, the entries kept are those of the cursors.
LEMMA HeldStep ==
    ASSUME NEW m, NEW cs, NEW bs, NEW t, NEW s, NEW ds, Taken(m, cs, bs, t, s, ds),
           NEW D \in SUBSET Positions(m, cs), NEW E, Added(E, D, m, cs, s)
    PROVE  HeldAfter(HeldBut(m, cs, D), t, s, cs[t]) = HeldBut(m, ds, E)
<1>1. CASE s.stage = "ProducerAcquire"
  BY <1>1, HeldAcquire DEF HeldAfter
<1>2. CASE s.stage = "ProducerCommit"
  BY <1>2, HeldCommit DEF HeldAfter
<1>3. CASE s.stage = "ConsumerWait"
  BY <1>3, HeldWait DEF HeldAfter
<1>4. CASE s.stage = "ConsumerRelease"
  BY <1>4, HeldRelease DEF HeldAfter
<1>5. CASE s.stage \notin PairStages
  BY <1>5, HeldPassive DEF HeldAfter, PairStages
<1> QED BY <1>1, <1>2, <1>3, <1>4, <1>5 DEF PairStages

\* The entries are those of the open accesses but of some completed reads, and
\* of all of them where no operand is covered by two resources' commits.
Follows(m, cs, h) ==
    \E D \in SUBSET CompletedReads(m, cs) :
        /\ h = HeldBut(m, cs, D)
        /\ OneAccumulator(m) => D = CompletedReads(m, cs)

\* A read is completed when an executed step says so.
LEMMA CompletedMember ==
    ASSUME NEW m, NEW cs, NEW u, NEW j
    PROVE  <<u, j>> \in CompletedReads(m, cs) <=>
             /\ u \in DOMAIN m.steps /\ j \in 1..cs[u]
             /\ m.steps[u][j].stage = "ConsumerWait" /\ m.steps[u][j].dma
             /\ Completed(m, cs, u, j)
<1>1. <<u, j>> \in Positions(m, cs) <=> u \in DOMAIN m.steps /\ j \in 1..cs[u]
  BY PositionMember
<1>2. <<u, j>>[1] = u /\ <<u, j>>[2] = j
  OBVIOUS
<1> QED BY <1>1, <1>2 DEF CompletedReads

\* The executed steps are pairs.
LEMMA PositionPair ==
    ASSUME NEW m, NEW cs, NEW x \in Positions(m, cs)
    PROVE  /\ x = <<x[1], x[2]>> /\ x[1] \in DOMAIN m.steps /\ x[2] \in 1..cs[x[1]]
BY DEF Positions

\* A step completes the reads it frees; no others, with one accumulator.
LEMMA CompletedReadsAfter ==
    ASSUME NEW m, NEW cs, NEW bs, NEW t, NEW s, NEW ds, Taken(m, cs, bs, t, s, ds)
    PROVE  /\ CompletedReads(m, cs) \cup Freed(m, cs, s) \subseteq CompletedReads(m, ds)
           /\ OneAccumulator(m) =>
                 CompletedReads(m, ds) = CompletedReads(m, cs) \cup Freed(m, cs, s)
<1>1. \A v \in DOMAIN m.steps : \A k : k \in 1..ds[v] <=> k \in 1..cs[v] \/ (v = t /\ k = cs[t] + 1)
  BY ExecutedAfter
<1>2. ASSUME NEW x \in CompletedReads(m, cs) \cup Freed(m, cs, s) PROVE x \in CompletedReads(m, ds)
  <2>1. x \in Positions(m, cs)
    BY DEF CompletedReads, Freed
  <2>2. x = <<x[1], x[2]>> /\ x[1] \in DOMAIN m.steps /\ x[2] \in 1..cs[x[1]]
    BY <2>1, PositionPair
  <2>3. /\ m.steps[x[1]][x[2]].stage = "ConsumerWait" /\ m.steps[x[1]][x[2]].dma
        /\ Completed(m, cs, x[1], x[2]) \/ Frees(m, cs, s, x[1], x[2])
    BY DEF CompletedReads, Freed, Frees
  <2>4. Completed(m, ds, x[1], x[2])
    BY <2>2, <2>3, CompletedStays
  <2>5. x[2] \in 1..ds[x[1]]
    BY <1>1, <2>2
  <2>6. <<x[1], x[2]>> \in CompletedReads(m, ds)
    BY <2>2, <2>3, <2>4, <2>5, CompletedMember
  <2> QED BY <2>2, <2>6
<1>3. ASSUME OneAccumulator(m), NEW x \in CompletedReads(m, ds)
      PROVE  x \in CompletedReads(m, cs) \cup Freed(m, cs, s)
  <2>1. x \in Positions(m, ds)
    BY DEF CompletedReads
  <2>2. x = <<x[1], x[2]>> /\ x[1] \in DOMAIN m.steps /\ x[2] \in 1..ds[x[1]]
    BY <2>1, PositionPair
  <2>3. /\ m.steps[x[1]][x[2]].stage = "ConsumerWait" /\ m.steps[x[1]][x[2]].dma
        /\ Completed(m, ds, x[1], x[2])
    BY DEF CompletedReads
  <2>4. x[2] \in 1..cs[x[1]]
    <3> SUFFICES ASSUME x[1] = t, x[2] = cs[t] + 1 PROVE FALSE
      BY <1>1, <2>2
    <3>1. /\ Ready(m) /\ InRange(m, ds) /\ t \in DOMAIN m.steps
          /\ ds[t] \in Nat /\ ds[t] = cs[t] + 1
      BY TakenFacts
    <3>2. TagOf(m, ds, t, cs[t] + 1) = Untagged
      BY <3>1, NewTag
    <3>3. PICK v \in DOMAIN m.steps : \E k \in 1..ds[v] :
            m.steps[v][k].comp # {} /\ m.steps[v][k].gen = Untagged
      BY <2>3, <3>2 DEF Completed
    <3>4. PICK k \in 1..ds[v] : m.steps[v][k].comp # {} /\ m.steps[v][k].gen = Untagged
      BY <3>3
    <3>5. k \in DOMAIN m.steps[v]
      BY <3>1, ExecutedIndex DEF Ready
    <3> QED BY <3>1, <3>4, <3>5, Generation
  <2>5. Completed(m, cs, x[1], x[2]) \/ Frees(m, cs, s, x[1], x[2])
    BY <1>3, <2>2, <2>3, <2>4, CompletedAfter
  <2>6. <<x[1], x[2]>> \in Positions(m, cs)
    BY <2>2, <2>4, PositionMember
  <2> QED BY <2>2, <2>3, <2>5, <2>6 DEF CompletedReads, Freed
<1> QED BY <1>2, <1>3

\* Every step keeps the entries in line with the cursors.
LEMMA FollowsStep ==
    ASSUME NEW m, NEW cs, NEW bs, NEW t, NEW s, NEW ds, Taken(m, cs, bs, t, s, ds),
           NEW h, Follows(m, cs, h)
    PROVE  Follows(m, ds, HeldAfter(h, t, s, cs[t]))
<1>1. PICK D \in SUBSET CompletedReads(m, cs) :
        h = HeldBut(m, cs, D) /\ (OneAccumulator(m) => D = CompletedReads(m, cs))
  BY DEF Follows
<1> DEFINE E == D \cup Freed(m, cs, s)
<1>2. D \in SUBSET Positions(m, cs)
  BY DEF CompletedReads
<1>3. E = D \cup Freed(m, cs, s) /\ Added(E, D, m, cs, s)
  BY DEF Added
<1> HIDE DEF E
<1>4. HeldAfter(h, t, s, cs[t]) = HeldBut(m, ds, E)
  BY <1>1, <1>2, <1>3, HeldStep
<1>5. E \in SUBSET CompletedReads(m, ds) /\ (OneAccumulator(m) => E = CompletedReads(m, ds))
  BY <1>1, <1>3, CompletedReadsAfter
<1> QED BY <1>4, <1>5 DEF Follows

\* Nothing is held at the start.
LEMMA FollowsInit ==
    ASSUME NEW m, NEW cs, \A t \in DOMAIN m.steps : cs[t] = 0
    PROVE  Follows(m, cs, {})
<1>1. \A t \in DOMAIN m.steps : 1..cs[t] = {}
  OBVIOUS
<1>2. HeldBut(m, cs, CompletedReads(m, cs)) = {}
  <2> SUFFICES ASSUME NEW x \in HeldBut(m, cs, CompletedReads(m, cs)) PROVE FALSE
    OBVIOUS
  <2> QED BY <1>1, HeldMember
<1> QED BY <1>2 DEF Follows

\* What the cursors say of the entries.
LEMMA FollowsBounds ==
    ASSUME NEW m, NEW cs, NEW h, Follows(m, cs, h)
    PROVE  /\ HeldOf(m, cs) \subseteq h /\ h \subseteq HeldBut(m, cs, {})
           /\ OneAccumulator(m) => h = HeldOf(m, cs)
<1>1. PICK D \in SUBSET CompletedReads(m, cs) :
        h = HeldBut(m, cs, D) /\ (OneAccumulator(m) => D = CompletedReads(m, cs))
  BY DEF Follows
<1> DEFINE C == CompletedReads(m, cs)
<1>2. D \subseteq C
  OBVIOUS
<1> HIDE DEF C
<1>3. ASSUME NEW x \in HeldBut(m, cs, C) PROVE x \in HeldBut(m, cs, D)
  BY <1>2, HeldMember DEF Kept
<1>4. ASSUME NEW x \in HeldBut(m, cs, D) PROVE x \in HeldBut(m, cs, {})
  BY HeldMember DEF Kept
<1> QED BY <1>1, <1>3, <1>4 DEF HeldOf, C

\* A ring stage held for writing has no reader.
LEMMA Exclusive ==
    ASSUME NEW m, Ready(m), NEW cs, InRange(m, cs), NEW bs, InLockstep(m, cs, bs),
           NEW u \in DOMAIN m.steps, NEW i \in 1..cs[u], StillOpen(m, cs, u, i),
           NEW v \in DOMAIN m.steps, NEW j \in 1..cs[v], StillOpen(m, cs, v, j),
           m.steps[u][i].stage = "ProducerAcquire", m.steps[v][j].stage = "ConsumerWait",
           m.steps[u][i].rid = m.steps[v][j].rid, m.steps[u][i].slot = m.steps[v][j].slot
    PROVE  FALSE
<1> DEFINE w == m.steps[u][i]
           r == m.steps[v][j]
           rec == <<w.rid, w.slot>>
           n(x, stage) == Done(m, cs, x, stage, rec)
           p == Round(m, u, i)
           q == Round(m, v, j)
<1>1. w.stage \in PairStages /\ r.stage \in PairStages
  BY DEF PairStages
<1>2. /\ i \in DOMAIN m.steps[u] /\ p \in Nat /\ u \in ProducersOf(m, w.rid)
      /\ n(u, "ProducerAcquire") \in Nat /\ p < n(u, "ProducerAcquire")
  BY <1>1, ExecutedRound
<1>3. /\ j \in DOMAIN m.steps[v] /\ q \in Nat /\ v \in ConsumersOf(m, w.rid)
      /\ n(v, "ConsumerWait") \in Nat /\ q < n(v, "ConsumerWait")
  BY <1>1, ExecutedRound
<1>4. rec \in Records(m) /\ rec[1] = w.rid /\ rec[2] = w.slot
  <2>1. w.stage \in BarrierStages
    BY DEF BarrierStages
  <2> QED BY <1>2, <2>1, StepFacts DEF Ready
<1>5. PICK e \in Nat, f \in Nat : Lockstep(m, cs, bs, rec, e, f)
  BY <1>4 DEF InLockstep
<1>6. /\ f <= n(u, "ProducerCommit") /\ n(u, "ProducerAcquire") <= e + 1
      /\ e <= n(v, "ConsumerRelease") /\ n(v, "ConsumerWait") <= f /\ e <= f
  BY <1>2, <1>3, <1>4, <1>5 DEF Lockstep
<1>7. \A x \in DOMAIN m.steps : \A stage : n(x, stage) \in Nat /\ cs[x] \in 0..Len(m.steps[x])
  BY DoneType DEF Ready
<1>8. n(u, "ProducerCommit") <= p
  <2>1. ~(CountOn(m.steps[u], cs[u], "ProducerCommit", w.rid) > Ordinal(m.steps[u], i))
    BY DEF StillOpen
  <2>2. CountAt(m.steps[u], cs[u], "ProducerCommit", w.rid, w.slot) > p <=>
          CountOn(m.steps[u], cs[u], "ProducerCommit", w.rid) > Ordinal(m.steps[u], i)
    BY <1>1, <1>2, <1>7, RoundCompare DEF PairStages
  <2>3. n(u, "ProducerCommit") = CountAt(m.steps[u], cs[u], "ProducerCommit", w.rid, w.slot)
    BY <1>4 DEF Done
  <2>4. n(u, "ProducerCommit") \in Nat
    BY <1>7
  <2> HIDE DEF n, p, w
  <2> QED BY <1>2, <2>1, <2>2, <2>3, <2>4
<1>9. p = e /\ f = e /\ q < p
  <2>1. n(u, "ProducerCommit") \in Nat
    BY <1>7
  <2> HIDE DEF n, p, q
  <2> QED BY <1>2, <1>3, <1>6, <1>8, <2>1
<1>10. CASE ~r.dma
  <2>1. ~(CountOn(m.steps[v], cs[v], "ConsumerRelease", r.rid) > Ordinal(m.steps[v], j))
    BY <1>10 DEF StillOpen
  <2>2. CountAt(m.steps[v], cs[v], "ConsumerRelease", r.rid, r.slot) > q <=>
          CountOn(m.steps[v], cs[v], "ConsumerRelease", r.rid) > Ordinal(m.steps[v], j)
    BY <1>1, <1>3, <1>7, RoundCompare DEF PairStages
  <2>3. n(v, "ConsumerRelease") = CountAt(m.steps[v], cs[v], "ConsumerRelease", r.rid, r.slot)
    BY <1>4 DEF Done
  <2>4. n(v, "ConsumerRelease") \in Nat
    BY <1>7
  <2> HIDE DEF n, p, q, w, r
  <2> QED BY <1>2, <1>3, <1>6, <1>9, <2>1, <2>2, <2>3, <2>4
<1>11. CASE r.dma
  <2>1. Ordinal(m.steps[v], j) < Ordinal(m.steps[u], i)
    BY <1>1, <1>2, <1>3, <1>9, OrdinalOrder
  <2>2. Ordinal(m.steps[v], j) \in Nat /\ Ordinal(m.steps[u], i) \in Nat
    BY <1>1, <1>2, <1>3, OrdinalValue
  <2>3. Ordinal(m.steps[u], i) > Ordinal(m.steps[v], j)
    BY <2>1, <2>2
  <2>4. Overwritten(m, cs, v, j)
    BY <2>3 DEF Overwritten
  <2> QED BY <1>11, <2>4 DEF StillOpen
<1> QED BY <1>10, <1>11

(***************************************************************************)
(* Barriers are a function of the cursors.                                 *)
(***************************************************************************)

\* Task t advances from the cursors cs to ds by the step s.
Stepped(m, cs, t, s, ds) ==
    /\ WellFormedModel(m) /\ InRange(m, cs)
    /\ t \in Unfinished(m, cs) /\ s = NextStep(m, cs, t) /\ ds = [cs EXCEPT ![t] = @ + 1]

\* A step adds itself, and nothing else, to the steps executed.
LEMMA PositionsNext ==
    ASSUME NEW m, NEW cs, NEW t, NEW s, NEW ds, Stepped(m, cs, t, s, ds)
    PROVE  /\ Positions(m, ds) = Positions(m, cs) \cup {<<t, cs[t] + 1>>}
           /\ <<t, cs[t] + 1>> \notin Positions(m, cs)
<1>1. t \in DOMAIN m.steps /\ cs[t] \in Nat
  BY NextIndex DEF Stepped
<1>2. /\ ds[t] = cs[t] + 1 /\ \A u \in DOMAIN m.steps : u # t => ds[u] = cs[u]
      /\ \A u \in DOMAIN m.steps : cs[u] \in Nat
  BY <1>1 DEF InRange, Stepped
<1>3. ASSUME NEW x PROVE x \in Positions(m, cs) <=>
        \E u \in DOMAIN m.steps : \E i \in 1..cs[u] : x = <<u, i>>
  BY DEF Positions
<1>4. ASSUME NEW x PROVE x \in Positions(m, ds) <=>
        \E u \in DOMAIN m.steps : \E i \in 1..ds[u] : x = <<u, i>>
  BY DEF Positions
<1>5. <<t, cs[t] + 1>> \notin Positions(m, cs)
  BY <1>1, <1>3
<1>6. ASSUME NEW x
      PROVE  x \in Positions(m, ds) <=> x \in Positions(m, cs) \/ x = <<t, cs[t] + 1>>
  <2>1. ASSUME NEW u \in DOMAIN m.steps, NEW i \in 1..ds[u], x = <<u, i>>
        PROVE  x \in Positions(m, cs) \/ x = <<t, cs[t] + 1>>
    <3>1. CASE i \in 1..cs[u]
      BY <1>3, <2>1, <3>1
    <3>2. CASE i \notin 1..cs[u]
      BY <1>1, <1>2, <2>1, <3>2
    <3> QED BY <3>1, <3>2
  <2>2. ASSUME NEW u \in DOMAIN m.steps, NEW i \in 1..cs[u], x = <<u, i>>
        PROVE  x \in Positions(m, ds)
    <3>1. i \in 1..ds[u]
      BY <1>1, <1>2
    <3> QED BY <1>4, <2>2, <3>1
  <2>3. ASSUME x = <<t, cs[t] + 1>> PROVE x \in Positions(m, ds)
    <3>1. cs[t] + 1 \in 1..ds[t]
      BY <1>1, <1>2
    <3> QED BY <1>1, <1>4, <2>3, <3>1
  <2>4. x \in Positions(m, ds) => x \in Positions(m, cs) \/ x = <<t, cs[t] + 1>>
    BY <1>4, <2>1
  <2>5. x \in Positions(m, cs) => x \in Positions(m, ds)
    BY <1>3, <2>2
  <2> QED BY <2>3, <2>4, <2>5
<1> QED BY <1>5, <1>6

\* The steps executed are finitely many.
LEMMA PositionsFinite ==
    ASSUME NEW m, WellFormedModel(m), NEW cs, InRange(m, cs)
    PROVE  IsFiniteSet(Positions(m, cs))
<1> DEFINE f == [t \in DOMAIN m.steps |-> {t} \X (1..cs[t])]
           S == {{t} \X (1..cs[t]) : t \in DOMAIN m.steps}
<1>1. IsFiniteSet(DOMAIN m.steps)
  BY TasksFinite
<1>2. f \in Surjection(DOMAIN m.steps, S)
  BY DEF Surjection
<1>3. IsFiniteSet(S)
  <2> HIDE DEF f, S
  <2> QED BY <1>1, <1>2, FS_Surjection
<1>4. ASSUME NEW t \in DOMAIN m.steps PROVE IsFiniteSet({t} \X (1..cs[t]))
  <2>1. cs[t] \in Nat
    BY DEF InRange
  <2>2. IsFiniteSet(1..cs[t])
    BY <2>1, FS_Interval
  <2>3. IsFiniteSet({t})
    BY FS_Singleton, Zenon
  <2> QED BY <2>2, <2>3, FS_Product
<1>5. IsFiniteSet(UNION S)
  <2>1. \A T \in S : IsFiniteSet(T)
    BY <1>4
  <2> HIDE DEF S
  <2> QED BY <1>3, <2>1, FS_UNION
<1> QED BY <1>5 DEF Positions

\* One barrier of a record across a step: it counts exactly the steps of its
\* own stage, so an arrival moves it on and any other step leaves it alone.
LEMMA CountStep ==
    ASSUME NEW m, NEW cs, NEW t, NEW s, NEW ds, Stepped(m, cs, t, s, ds), NEW stage, NEW rec \in Records(m)
    PROVE  /\ Cardinality(Executed(m, cs, stage, rec)) \in Nat
           /\ s.stage = stage /\ <<s.rid, s.slot>> = rec =>
                 Cardinality(Executed(m, ds, stage, rec)) = Cardinality(Executed(m, cs, stage, rec)) + 1
           /\ ~(s.stage = stage /\ <<s.rid, s.slot>> = rec) =>
                 Cardinality(Executed(m, ds, stage, rec)) = Cardinality(Executed(m, cs, stage, rec))
<1> DEFINE x == <<t, cs[t] + 1>>
           P == Positions(m, cs)
           Q == Positions(m, ds)
           At(y) == /\ m.steps[y[1]][y[2]].stage = stage
                    /\ m.steps[y[1]][y[2]].rid = rec[1]
                    /\ m.steps[y[1]][y[2]].slot = rec[2]
           E == {y \in P : At(y)}
           F == {y \in Q : At(y)}
<1>1. Q = P \cup {x} /\ x \notin P
  BY PositionsNext
<1>2. Executed(m, cs, stage, rec) = E /\ Executed(m, ds, stage, rec) = F
  BY DEF Executed
<1>3. At(x) <=> s.stage = stage /\ <<s.rid, s.slot>> = rec
  <2>1. rec = <<rec[1], rec[2]>>
    BY RecordFacts DEF Stepped
  <2>2. At(x) <=> s.stage = stage /\ s.rid = rec[1] /\ s.slot = rec[2]
    BY DEF NextStep, Stepped
  <2> HIDE DEF At, x
  <2> QED BY <2>1, <2>2
<1>4. IsFiniteSet(E)
  <2>1. IsFiniteSet(P)
    BY PositionsFinite DEF Stepped
  <2>2. E \subseteq P
    OBVIOUS
  <2> HIDE DEF E, P
  <2> QED BY <2>1, <2>2, FS_Subset
<1>5. Cardinality(E) \in Nat
  BY <1>4, FS_CardinalityType
<1>6. CASE At(x)
  <2>1. F = E \cup {x} /\ x \notin E
    <3> HIDE DEF At, P, Q, x
    <3> QED BY <1>1, <1>6
  <2>2. Cardinality(E \cup {x}) = Cardinality(E) + 1
    <3> HIDE DEF E, x
    <3> QED BY <1>4, <2>1, FS_AddElement
  <2> HIDE DEF E, F, At, x
  <2> QED BY <1>2, <1>3, <1>5, <1>6, <2>1, <2>2
<1>7. CASE ~At(x)
  <2>1. F = E
    <3> HIDE DEF At, P, Q, x
    <3> QED BY <1>1, <1>7
  <2> HIDE DEF E, F, At, x
  <2> QED BY <1>2, <1>3, <1>5, <1>7, <2>1
<1> QED BY <1>6, <1>7

\* What BarriersOf says of one record.
LEMMA BarriersOfAt ==
    ASSUME NEW m, NEW cs, NEW rec \in Records(m)
    PROVE  BarriersOf(m, cs)[rec] =
             [full  |-> BarrierAfter(0, Cardinality(Executed(m, cs, "ProducerCommit", rec)), m.producers[rec[1]]),
              empty |-> BarrierAfter(1, Cardinality(Executed(m, cs, "ConsumerRelease", rec)), m.consumers[rec[1]])]
BY DEF BarriersOf

\* Whatever step is taken, the barriers are those of the cursors.
LEMMA BarriersStep ==
    ASSUME NEW m, NEW cs, NEW t, NEW s, NEW ds, Stepped(m, cs, t, s, ds),
           NEW bs \in BarrierVectors(m), bs = BarriersOf(m, cs)
    PROVE  BarriersAfter(m, s, bs) = BarriersOf(m, ds) /\ BarriersAfter(m, s, bs) \in BarrierVectors(m)
<1> DEFINE own == <<s.rid, s.slot>>
           cr == BarriersAfter(m, s, bs)
<1>1. s.stage \in PairStages => own \in Records(m)
  BY NextRecord DEF Stepped
<1>2. m.producers[s.rid] \in Nat \ {0} /\ m.consumers[s.rid] \in Nat \ {0}
  <2>1. t \in DOMAIN m.steps /\ cs[t] + 1 \in DOMAIN m.steps[t] /\ s = m.steps[t][cs[t] + 1]
    BY NextIndex DEF Stepped
  <2>2. WellFormedModel(m)
    BY DEF Stepped
  <2>3. /\ m.producers[m.steps[t][cs[t] + 1].rid] \in Nat \ {0}
        /\ m.consumers[m.steps[t][cs[t] + 1].rid] \in Nat \ {0}
    BY <2>1, <2>2, StepFacts, Zenon
  <2> QED BY <2>1, <2>3
<1>3. cr \in BarrierVectors(m)
  BY <1>1, <1>2, BarriersAfterType
<1>4. ASSUME NEW rec \in Records(m) PROVE cr[rec] = BarriersOf(m, ds)[rec]
  <2> DEFINE f == Cardinality(Executed(m, cs, "ProducerCommit", rec))
             g == Cardinality(Executed(m, ds, "ProducerCommit", rec))
             e == Cardinality(Executed(m, cs, "ConsumerRelease", rec))
             h == Cardinality(Executed(m, ds, "ConsumerRelease", rec))
             p == m.producers[rec[1]]
             c == m.consumers[rec[1]]
  <2>1. p \in Nat \ {0} /\ c \in Nat \ {0}
    BY RecordFacts DEF Stepped
  <2>2. /\ f \in Nat /\ (s.stage = "ProducerCommit" /\ own = rec => g = f + 1)
        /\ (~(s.stage = "ProducerCommit" /\ own = rec) => g = f)
    BY CountStep
  <2>3. /\ e \in Nat /\ (s.stage = "ConsumerRelease" /\ own = rec => h = e + 1)
        /\ (~(s.stage = "ConsumerRelease" /\ own = rec) => h = e)
    BY CountStep
  <2>4. bs[rec].full = BarrierAfter(0, f, p) /\ bs[rec].empty = BarrierAfter(1, e, c)
    <3>1. BarriersOf(m, cs)[rec] = [full |-> BarrierAfter(0, f, p), empty |-> BarrierAfter(1, e, c)]
      BY BarriersOfAt
    <3> HIDE DEF f, e, p, c
    <3> QED BY <3>1
  <2>5. BarriersOf(m, ds)[rec] = [full |-> BarrierAfter(0, g, p), empty |-> BarrierAfter(1, h, c)]
    BY BarriersOfAt
  <2>6. /\ s.stage = "ProducerCommit" /\ own = rec => cr[rec].full = Arrive(bs[rec].full, m.producers[s.rid])
        /\ ~(s.stage = "ProducerCommit" /\ own = rec) => cr[rec].full = bs[rec].full
        /\ s.stage = "ConsumerRelease" /\ own = rec => cr[rec].empty = Arrive(bs[rec].empty, m.consumers[s.rid])
        /\ ~(s.stage = "ConsumerRelease" /\ own = rec) => cr[rec].empty = bs[rec].empty
    BY <1>1, RecordAfter
  <2>7. own = rec => s.rid = rec[1]
    OBVIOUS
  <2> HIDE DEF f, g, e, h, p, c, own, cr
  <2>8. Arrive(BarrierAfter(0, f, p), p) = BarrierAfter(0, f + 1, p)
    BY <2>1, <2>2, ArriveCounts
  <2>9. Arrive(BarrierAfter(1, e, c), c) = BarrierAfter(1, e + 1, c)
    BY <2>1, <2>3, ArriveCounts
  <2>10. cr[rec].full = BarrierAfter(0, g, p)
    BY <2>2, <2>4, <2>6, <2>7, <2>8 DEF p
  <2>11. cr[rec].empty = BarrierAfter(1, h, c)
    BY <2>3, <2>4, <2>6, <2>7, <2>9 DEF c
  <2>12. cr[rec] \in [full : Barrier, empty : Barrier]
    BY <1>3 DEF BarrierVectors
  <2> QED BY <2>5, <2>10, <2>11, <2>12
<1>5. DOMAIN cr = Records(m) /\ cr = [rec \in Records(m) |-> cr[rec]]
  BY <1>3 DEF BarrierVectors
<1>6. DOMAIN BarriersOf(m, ds) = Records(m)
      /\ BarriersOf(m, ds) = [rec \in Records(m) |-> BarriersOf(m, ds)[rec]]
  BY DEF BarriersOf
<1> HIDE DEF cr
<1>7. cr = BarriersOf(m, ds)
  BY <1>4, <1>5, <1>6
<1> QED BY <1>3, <1>7 DEF cr

\* Nothing has arrived at the start.
LEMMA BarriersInit ==
    ASSUME NEW m, WellFormedModel(m), NEW cs, cs = [t \in DOMAIN m.steps |-> 0]
    PROVE  InitialBarriers(m) = BarriersOf(m, cs) /\ InitialBarriers(m) \in BarrierVectors(m)
           /\ Positions(m, cs) = {}
<1>1. Positions(m, cs) = {}
  BY DEF Positions
<1>2. \A stage, rec : Executed(m, cs, stage, rec) = {}
  BY <1>1 DEF Executed
<1>3. Cardinality({}) = 0
  BY FS_EmptySet
<1>4. InitialBarriers(m) \in BarrierVectors(m)
  BY DEF InitialBarriers, InitialRecord, Barrier, BarrierVectors
<1>5. ASSUME NEW rec \in Records(m) PROVE InitialBarriers(m)[rec] = BarriersOf(m, cs)[rec]
  <2>1. m.producers[rec[1]] \in Nat \ {0} /\ m.consumers[rec[1]] \in Nat \ {0}
    BY RecordFacts
  <2>2. BarriersOf(m, cs)[rec] = [full |-> BarrierAfter(0, 0, m.producers[rec[1]]),
                                  empty |-> BarrierAfter(1, 0, m.consumers[rec[1]])]
    BY <1>2, <1>3, BarriersOfAt
  <2>3. \A e \in Nat \ {0} : 0 % e = 0 /\ 0 \div e = 0
    OBVIOUS
  <2> QED BY <2>1, <2>2, <2>3 DEF InitialBarriers, InitialRecord, BarrierAfter
<1>6. InitialBarriers(m) = BarriersOf(m, cs)
  BY <1>5 DEF InitialBarriers, BarriersOf
<1> QED BY <1>1, <1>4, <1>6

\* Types are needed to say which barrier an arrival meets.
BarrierInv == TypeOK /\ BarriersFollowCursors

\* The first half of the claim that makes the checker's cursor-only visited key
\* exact: in every interleaving of every well-formed model, each barrier is the
\* one its arrival count, a sum over the task prefixes, determines
\* (BarriersFollowCursors).
THEOREM BarriersAreCursorFunctions == Spec => []BarriersFollowCursors
<1>1. Init => BarrierInv
  <2> SUFFICES ASSUME Init PROVE BarrierInv
    OBVIOUS
  <2>1. TypeOK
    BY DEF Init, TypeOK, InitialBarriers, InitialRecord, Barrier
  <2>2. WellFormedModel(model)
    BY ModelsAssumption DEF Init
  <2> QED BY <2>1, <2>2, BarriersInit DEF Init, BarrierInv, BarriersFollowCursors
<1>2. BarrierInv /\ [Next]_vars => BarrierInv'
  <2> SUFFICES ASSUME BarrierInv, [Next]_vars PROVE BarrierInv'
    OBVIOUS
  <2>1. TypeOK'
    BY TypeOKStep DEF BarrierInv
  <2>2. CASE UNCHANGED vars
    BY <2>1, <2>2 DEF BarrierInv, BarriersFollowCursors, vars
  <2>3. ASSUME NEW t \in Unfinished(model, cursors), NEW stage, Advance(t, stage)
        PROVE  BarrierInv'
    <3>1. /\ model' = model /\ cursors' = [cursors EXCEPT ![t] = @ + 1]
          /\ barriers' = BarriersAfter(model, NextStep(model, cursors, t), barriers)
      BY <2>3 DEF Advance
    <3>2. Stepped(model, cursors, t, NextStep(model, cursors, t), cursors')
      BY <3>1, ModelsAssumption DEF BarrierInv, TypeOK, InRange, Stepped
    <3>3. barriers \in BarrierVectors(model) /\ barriers = BarriersOf(model, cursors)
      BY DEF BarrierInv, TypeOK, BarrierVectors, BarriersFollowCursors
    <3>4. BarriersAfter(model, NextStep(model, cursors, t), barriers) = BarriersOf(model, cursors')
      BY <3>2, <3>3, BarriersStep
    <3> QED BY <2>1, <3>1, <3>4 DEF BarrierInv, BarriersFollowCursors
  <2> QED BY <2>2, <2>3, NextIsAdvance
<1>3. BarrierInv => BarriersFollowCursors
  BY DEF BarrierInv
<1> QED BY <1>1, <1>2, <1>3, PTL DEF Spec

(***************************************************************************)
(* The machine.                                                            *)
(***************************************************************************)

\* The inductive invariant: the entries follow from the cursors only as long as
\* every ring stage is in lockstep, which in turn bounds what can be taken.
MachineInv ==
    /\ TypeOK
    /\ InLockstep(model, cursors, barriers)
    /\ Follows(model, cursors, held)

\* Every model of the machine meets the two assumptions.
LEMMA MachineReady ==
    ASSUME TypeOK
    PROVE  /\ Ready(model) /\ InRange(model, cursors)
           /\ barriers \in BarrierVectors(model)
BY ModelsAssumption, ProtocolAssumption DEF TypeOK, Ready, InRange, BarrierVectors

\* A step of the machine is a step taken in lockstep.
LEMMA AdvanceIsTaken ==
    ASSUME TypeOK, InLockstep(model, cursors, barriers),
           NEW t \in Unfinished(model, cursors), NEW stage, Advance(t, stage)
    PROVE  /\ Taken(model, cursors, barriers, t, NextStep(model, cursors, t), cursors')
           /\ model' = model /\ cursors' = [cursors EXCEPT ![t] = @ + 1]
           /\ barriers' = BarriersAfter(model, NextStep(model, cursors, t), barriers)
           /\ held' = HeldAfter(held, t, NextStep(model, cursors, t), cursors[t])
           /\ StepEnabled(NextStep(model, cursors, t), barriers)
<1>1. Ready(model) /\ InRange(model, cursors)
  BY MachineReady
<1> QED BY <1>1 DEF Advance, Taken

\* The invariant holds initially.
LEMMA MachineInvInit == Init => MachineInv
<1> SUFFICES ASSUME Init PROVE MachineInv
  OBVIOUS
<1>1. TypeOK
  BY DEF Init, TypeOK, InitialBarriers, InitialRecord, Barrier
<1>2. InLockstep(model, cursors, barriers)
  <2>1. Ready(model)
    BY <1>1, MachineReady
  <2> QED BY <2>1, LockstepInit DEF Init
<1>3. Follows(model, cursors, held)
  <2>1. \A t \in DOMAIN model.steps : cursors[t] = 0
    BY DEF Init
  <2> QED BY <2>1, FollowsInit DEF Init
<1> QED BY <1>1, <1>2, <1>3 DEF MachineInv

\* Every step preserves the invariant.
LEMMA MachineInvStep ==
    ASSUME MachineInv, [Next]_vars
    PROVE  MachineInv'
<1>1. TypeOK'
  BY TypeOKStep DEF MachineInv
<1>2. CASE UNCHANGED vars
  <2>1. model' = model /\ cursors' = cursors /\ barriers' = barriers /\ held' = held
    BY <1>2 DEF vars
  <2> QED BY <1>1, <2>1 DEF MachineInv
<1>3. ASSUME NEW t \in Unfinished(model, cursors), NEW stage, Advance(t, stage)
      PROVE  MachineInv'
  <2>1. /\ Taken(model, cursors, barriers, t, NextStep(model, cursors, t), cursors')
        /\ model' = model /\ cursors' = [cursors EXCEPT ![t] = @ + 1]
        /\ barriers' = BarriersAfter(model, NextStep(model, cursors, t), barriers)
        /\ held' = HeldAfter(held, t, NextStep(model, cursors, t), cursors[t])
        /\ StepEnabled(NextStep(model, cursors, t), barriers)
    BY <1>3, AdvanceIsTaken DEF MachineInv
  <2>2. InLockstep(model, cursors', barriers')
    <3>1. /\ Ready(model) /\ InRange(model, cursors) /\ barriers \in BarrierVectors(model)
          /\ InLockstep(model, cursors, barriers)
      BY MachineReady DEF MachineInv
    <3>2. InLockstep(model, [cursors EXCEPT ![t] = @ + 1],
                     BarriersAfter(model, NextStep(model, cursors, t), barriers))
      BY <2>1, <3>1, LockstepStep
    <3> QED BY <2>1, <3>2
  <2>3. Follows(model, cursors', held')
    <3>1. Follows(model, cursors', HeldAfter(held, t, NextStep(model, cursors, t), cursors[t]))
      BY <2>1, FollowsStep DEF MachineInv
    <3> QED BY <2>1, <3>1
  <2> QED BY <1>1, <2>1, <2>2, <2>3 DEF MachineInv
<1> QED BY <1>2, <1>3, NextIsAdvance

\* The invariant holds in every interleaving.
LEMMA MachineInvariant == Spec => []MachineInv
<1>1. MachineInv /\ [Next]_vars => MachineInv'
  BY MachineInvStep
<1> QED BY <1>1, MachineInvInit, PTL DEF Spec

\* The accesses in flight (AccessInv): for every model _build_model makes of
\* bracketed schedules, the entries _apply_step keeps incrementally are those the
\* executed prefixes determine, tags included, up to the operand reads a completion
\* wait of their generation may have ended, and exactly when no operand is covered by
\* two resources' commits; and no ring stage is ever held for writing by one task and
\* for reading by another.
THEOREM AccessFollowsCursors == Spec => []AccessInv
<1>1. MachineInv => AccessInv
  <2> SUFFICES ASSUME MachineInv PROVE AccessInv
    OBVIOUS
  <2>1. /\ Ready(model) /\ InRange(model, cursors) /\ InLockstep(model, cursors, barriers)
    BY MachineReady DEF MachineInv
  <2>2. HeldFollowsCursors
    BY FollowsBounds DEF MachineInv, HeldFollowsCursors
  <2>3. \A x \in held : \E u \in DOMAIN model.steps : \E i \in 1..cursors[u] :
            Kept(model, cursors, {}, u, i) /\ x = EntryOf(model, cursors, u, i)
    BY <2>2, HeldMember DEF HeldFollowsCursors
  <2>4. ASSUME NEW w \in held, NEW r \in held, w.access = "write", r.access = "read",
               w.rid = r.rid, w.slot = r.slot
        PROVE  FALSE
    <3>1. PICK u \in DOMAIN model.steps : \E i \in 1..cursors[u] :
              Kept(model, cursors, {}, u, i) /\ w = EntryOf(model, cursors, u, i)
      BY <2>3
    <3>2. PICK i \in 1..cursors[u] :
              Kept(model, cursors, {}, u, i) /\ w = EntryOf(model, cursors, u, i)
      BY <3>1
    <3>3. PICK v \in DOMAIN model.steps : \E j \in 1..cursors[v] :
              Kept(model, cursors, {}, v, j) /\ r = EntryOf(model, cursors, v, j)
      BY <2>3
    <3>4. PICK j \in 1..cursors[v] :
              Kept(model, cursors, {}, v, j) /\ r = EntryOf(model, cursors, v, j)
      BY <3>3
    <3>5. /\ model.steps[u][i].stage = "ProducerAcquire"
          /\ w.rid = model.steps[u][i].rid /\ w.slot = model.steps[u][i].slot
      BY <2>4, <3>2, EntrySays
    <3>6. /\ model.steps[v][j].stage = "ConsumerWait"
          /\ r.rid = model.steps[v][j].rid /\ r.slot = model.steps[v][j].slot
      BY <2>4, <3>4, EntrySays
    <3>7. StillOpen(model, cursors, u, i) /\ StillOpen(model, cursors, v, j)
      BY <3>2, <3>4 DEF Kept
    <3>8. /\ model.steps[u][i].rid = model.steps[v][j].rid
          /\ model.steps[u][i].slot = model.steps[v][j].slot
      BY <2>4, <3>5, <3>6
    <3> QED BY <2>1, <3>5, <3>6, <3>7, <3>8, Exclusive
  <2> QED BY <2>2, <2>4 DEF AccessInv, StageExclusive
<1> QED BY <1>1, MachineInvariant, PTL

\* A step that can be taken stays so until its task takes it (EnabledPersists): no
\* arrival of another task flips the phase a wait or an acquire has already seen,
\* so the one-bit phases of the mbarriers never alias two rounds.
THEOREM EnabledStepsPersist == Spec => EnabledPersists
<1> DEFINE A == \A t \in Unfinished(model, cursors) :
                   (cursors'[t] = cursors[t] /\ StepEnabled(NextStep(model, cursors, t), barriers))
                      => StepEnabled(NextStep(model, cursors, t), barriers')
<1>1. MachineInv /\ [Next]_vars => [A]_vars
  <2> SUFFICES ASSUME MachineInv, [Next]_vars,
                      NEW t \in Unfinished(model, cursors),
                      StepEnabled(NextStep(model, cursors, t), barriers)
               PROVE  StepEnabled(NextStep(model, cursors, t), barriers')
    OBVIOUS
  <2>1. CASE UNCHANGED vars
    BY <2>1 DEF vars
  <2>2. ASSUME NEW u \in Unfinished(model, cursors), NEW stage, Advance(u, stage)
        PROVE  StepEnabled(NextStep(model, cursors, t), barriers')
    <3>1. /\ barriers' = BarriersAfter(model, NextStep(model, cursors, u), barriers)
          /\ StepEnabled(NextStep(model, cursors, u), barriers)
      BY <2>2 DEF Advance
    <3>2. /\ Ready(model) /\ InRange(model, cursors) /\ barriers \in BarrierVectors(model)
          /\ InLockstep(model, cursors, barriers)
      BY MachineReady DEF MachineInv
    <3>3. StepEnabled(NextStep(model, cursors, t),
                      BarriersAfter(model, NextStep(model, cursors, u), barriers))
      BY <3>1, <3>2, EnabledStays
    <3> QED BY <3>1, <3>3
  <2> QED BY <2>1, <2>2, NextIsAdvance
<1>2. EnabledPersists <=> [][A]_vars
  BY DEF EnabledPersists
<1> QED BY <1>1, <1>2, MachineInvariant, PTL DEF Spec

(***************************************************************************)
(* The states of the search.                                               *)
(***************************************************************************)

\* What _build_model makes of schedules _verify_bracketing accepts.
Checkable(m) == Ready(m)

\* A state in lockstep whose barriers and holds follow from its cursors.
Sound(m, s) ==
    /\ InRange(m, s.cursors)
    /\ s.barriers \in BarrierVectors(m)
    /\ InLockstep(m, s.cursors, s.barriers)
    /\ s = [cursors |-> s.cursors, barriers |-> BarriersOf(m, s.cursors), held |-> s.held]
    /\ Follows(m, s.cursors, s.held)

\* The number of steps that lead to a state.
Depth(m, s) == Cardinality(Positions(m, s.cursors))

\* The cursors say everything of the barriers, and of the holds where no operand
\* is covered by two resources' commits.
LEMMA CursorsDetermine ==
    ASSUME NEW m, NEW a, NEW b, Sound(m, a), Sound(m, b), a.cursors = b.cursors
    PROVE  a.barriers = b.barriers /\ (OneAccumulator(m) => a = b)
<1>1. /\ a = [cursors |-> a.cursors, barriers |-> BarriersOf(m, a.cursors), held |-> a.held]
      /\ b = [cursors |-> b.cursors, barriers |-> BarriersOf(m, b.cursors), held |-> b.held]
  BY DEF Sound
<1>2. a.barriers = BarriersOf(m, a.cursors) /\ b.barriers = BarriersOf(m, b.cursors)
  BY <1>1
<1>3. OneAccumulator(m) => a.held = HeldOf(m, a.cursors) /\ b.held = HeldOf(m, b.cursors)
  BY FollowsBounds DEF Sound
<1> QED BY <1>1, <1>2, <1>3

\* The start of the search is sound and no step away from itself.
LEMMA SoundInitial ==
    ASSUME NEW m, Checkable(m)
    PROVE  Sound(m, InitialState(m)) /\ Depth(m, InitialState(m)) = 0
<1> DEFINE i == InitialState(m)
           cs == [t \in DOMAIN m.steps |-> 0]
<1>1. i = [cursors |-> cs, barriers |-> InitialBarriers(m), held |-> {}]
  BY DEF InitialState
<1>2. InLockstep(m, cs, InitialBarriers(m)) /\ InRange(m, cs)
  BY LockstepInit DEF Checkable
<1>3. /\ InitialBarriers(m) = BarriersOf(m, cs) /\ InitialBarriers(m) \in BarrierVectors(m)
      /\ Positions(m, cs) = {}
  BY BarriersInit DEF Checkable, Ready
<1>4. Follows(m, cs, {})
  <2>1. \A t \in DOMAIN m.steps : cs[t] = 0
    OBVIOUS
  <2> HIDE DEF cs
  <2> QED BY <2>1, FollowsInit
<1>5. Cardinality({}) = 0
  BY FS_EmptySet
<1> HIDE DEF i, cs
<1>6. Sound(m, i)
  BY <1>1, <1>2, <1>3, <1>4 DEF Sound
<1>7. Depth(m, i) = 0
  BY <1>1, <1>3, <1>5 DEF Depth
<1> QED BY <1>6, <1>7 DEF i

\* One iteration's successors are sound, and one step deeper.
LEMMA SoundSuccessor ==
    ASSUME NEW m, Checkable(m), NEW s, Sound(m, s), NEW t \in EnabledTasks(m, s)
    PROVE  /\ Sound(m, Successor(m, s, t))
           /\ Depth(m, Successor(m, s, t)) = Depth(m, s) + 1
           /\ Depth(m, s) \in Nat
<1> DEFINE cs == s.cursors
           bs == s.barriers
           st == NextStep(m, cs, t)
           ds == [cs EXCEPT ![t] = @ + 1]
           u == Successor(m, s, t)
<1>1. /\ InRange(m, cs) /\ bs \in BarrierVectors(m) /\ InLockstep(m, cs, bs)
      /\ bs = BarriersOf(m, cs) /\ Follows(m, cs, s.held)
  <2> HIDE DEF cs, bs
  <2> QED BY DEF Sound, cs, bs
<1>2. t \in Unfinished(m, cs) /\ StepEnabled(st, bs)
  BY DEF EnabledTasks
<1>3. Ready(m) /\ WellFormedModel(m)
  BY DEF Checkable, Ready
<1>4. u = [cursors |-> ds, barriers |-> BarriersAfter(m, st, bs), held |-> HeldAfter(s.held, t, st, cs[t])]
  BY DEF Successor
<1>5. Taken(m, cs, bs, t, st, ds) /\ Stepped(m, cs, t, st, ds)
  BY <1>1, <1>2, <1>3 DEF Taken, Stepped
<1>6. InLockstep(m, ds, BarriersAfter(m, st, bs)) /\ InRange(m, ds)
  BY <1>1, <1>2, <1>3, LockstepStep, RangeAfter
<1> HIDE DEF cs, bs, st, ds
<1>7. BarriersAfter(m, st, bs) = BarriersOf(m, ds) /\ BarriersAfter(m, st, bs) \in BarrierVectors(m)
  BY <1>1, <1>5, BarriersStep
<1>8. Follows(m, ds, HeldAfter(s.held, t, st, cs[t]))
  BY <1>1, <1>5, FollowsStep
<1>9. Sound(m, u)
  BY <1>1, <1>4, <1>6, <1>7, <1>8 DEF Sound
<1>10. Depth(m, u) = Depth(m, s) + 1 /\ Depth(m, s) \in Nat
  <2>1. /\ Positions(m, ds) = Positions(m, cs) \cup {<<t, cs[t] + 1>>}
        /\ <<t, cs[t] + 1>> \notin Positions(m, cs)
    BY <1>5, PositionsNext
  <2>2. IsFiniteSet(Positions(m, cs))
    BY <1>1, <1>3, PositionsFinite
  <2>3. /\ Cardinality(Positions(m, cs) \cup {<<t, cs[t] + 1>>}) = Cardinality(Positions(m, cs)) + 1
        /\ Cardinality(Positions(m, cs)) \in Nat
    BY <2>1, <2>2, FS_AddElement, FS_CardinalityType
  <2>4. u.cursors = ds
    BY <1>4
  <2> QED BY <2>1, <2>3, <2>4 DEF Depth, cs
<1> QED BY <1>9, <1>10

\* A state is at most as deep as there are steps, and that deep when it is complete.
LEMMA SoundDepth ==
    ASSUME NEW m, Checkable(m), NEW s, Sound(m, s)
    PROVE  /\ Depth(m, s) \in 0..Cardinality(AllSteps(m)) /\ Cardinality(AllSteps(m)) \in Nat
           /\ IsComplete(m, s) <=> Depth(m, s) = Cardinality(AllSteps(m))
           /\ IsComplete(m, s) => s.cursors = [t \in DOMAIN m.steps |-> Len(m.steps[t])]
<1> DEFINE cs == s.cursors
           full == [t \in DOMAIN m.steps |-> Len(m.steps[t])]
<1>1. InRange(m, cs) /\ WellFormedModel(m)
  BY DEF Sound, Checkable, Ready
<1>2. \A t \in DOMAIN m.steps : Len(m.steps[t]) \in Nat /\ cs[t] \in Nat /\ cs[t] <= Len(m.steps[t])
  <2>1. \A t \in DOMAIN m.steps : m.steps[t] \in Seq(StepType(m))
    BY <1>1 DEF WellFormedModel
  <2> QED BY <1>1, <2>1 DEF InRange
<1>3. InRange(m, full)
  BY <1>2 DEF InRange
<1>4. AllSteps(m) = Positions(m, full)
  BY DEF AllSteps, Positions
<1>5. IsFiniteSet(AllSteps(m))
  <2> HIDE DEF full
  <2> QED BY <1>1, <1>3, <1>4, PositionsFinite
<1>6. Positions(m, cs) \subseteq AllSteps(m)
  BY <1>2 DEF Positions, AllSteps
<1>7. /\ Cardinality(AllSteps(m)) \in Nat /\ Cardinality(Positions(m, cs)) \in Nat
      /\ Cardinality(Positions(m, cs)) <= Cardinality(AllSteps(m))
      /\ Cardinality(Positions(m, cs)) = Cardinality(AllSteps(m)) => Positions(m, cs) = AllSteps(m)
  BY <1>5, <1>6, FS_Subset, FS_CardinalityType
<1>8. ASSUME IsComplete(m, s) PROVE cs = full
  <2>1. \A t \in DOMAIN m.steps : cs[t] = Len(m.steps[t])
    BY <1>2, <1>8 DEF IsComplete, Unfinished
  <2> QED BY <1>1, <2>1 DEF InRange
<1>9. ASSUME Positions(m, cs) = AllSteps(m) PROVE IsComplete(m, s)
  <2> SUFFICES ASSUME NEW t \in DOMAIN m.steps, cs[t] < Len(m.steps[t]) PROVE FALSE
    BY DEF IsComplete, Unfinished
  <2>1. <<t, Len(m.steps[t])>> \in AllSteps(m)
    BY <1>2 DEF AllSteps
  <2>2. <<t, Len(m.steps[t])>> \notin Positions(m, cs)
    BY <1>2 DEF Positions
  <2> QED BY <1>9, <2>1, <2>2
<1> HIDE DEF full
<1>10. Depth(m, s) = Cardinality(Positions(m, cs))
  BY DEF Depth
<1>11. IsComplete(m, s) => Positions(m, cs) = AllSteps(m)
  BY <1>4, <1>8
<1> QED BY <1>7, <1>8, <1>9, <1>10, <1>11 DEF full

(***************************************************************************)
(* The reachable states.                                                   *)
(***************************************************************************)
IsLevels(f, m, N) ==
    f = [n \in 0..N |-> IF n = 0 THEN {InitialState(m)} ELSE StepsFrom(m, f[n - 1])]

\* The recursive definition of Levels has a solution.
LEMMA LevelsExist ==
    ASSUME NEW m, NEW N \in Nat
    PROVE  \E f : IsLevels(f, m, N)
<1> DEFINE Fails == {n \in Nat : ~ \E f : IsLevels(f, m, n)}
<1>1. ASSUME Fails # {} PROVE FALSE
  <2>1. PICK k \in Fails : \A n \in Fails : k <= n
    <3>1. Fails \in SUBSET Nat
      OBVIOUS
    <3> HIDE DEF Fails
    <3> QED BY <1>1, <3>1, LeastNat
  <2>2. k \in Nat /\ ~ \E f : IsLevels(f, m, k)
    OBVIOUS
  <2>3. CASE k = 0
    <3> DEFINE f == [n \in 0..0 |-> {InitialState(m)}]
    <3>1. f = [n \in 0..0 |-> IF n = 0 THEN {InitialState(m)} ELSE StepsFrom(m, f[n - 1])]
      OBVIOUS
    <3> HIDE DEF f
    <3> QED BY <2>2, <2>3, <3>1 DEF IsLevels
  <2>4. CASE k # 0
    <3>1. k - 1 \in Nat /\ k - 1 \notin Fails
      BY <2>1, <2>2, <2>4
    <3>2. PICK g : IsLevels(g, m, k - 1)
      BY <3>1
    <3> DEFINE h == [n \in 0..k |-> IF n = 0 THEN {InitialState(m)} ELSE StepsFrom(m, g[n - 1])]
    <3>3. \A n \in 0..(k - 1) : g[n] = IF n = 0 THEN {InitialState(m)} ELSE StepsFrom(m, g[n - 1])
      BY <3>2, Zenon DEF IsLevels
    <3>4. ASSUME NEW n \in 0..(k - 1) PROVE h[n] = g[n]
      <4>1. n \in 0..k
        BY <2>2
      <4>2. h[n] = IF n = 0 THEN {InitialState(m)} ELSE StepsFrom(m, g[n - 1])
        BY <4>1
      <4>3. g[n] = IF n = 0 THEN {InitialState(m)} ELSE StepsFrom(m, g[n - 1])
        BY <3>3
      <4> HIDE DEF h
      <4> QED BY <4>2, <4>3
    <3>5. \A n \in 0..k : n # 0 => n - 1 \in 0..(k - 1)
      BY <2>2
    <3>6. h = [n \in 0..k |-> IF n = 0 THEN {InitialState(m)} ELSE StepsFrom(m, h[n - 1])]
      <4>1. ASSUME NEW n \in 0..k
            PROVE  h[n] = IF n = 0 THEN {InitialState(m)} ELSE StepsFrom(m, h[n - 1])
        <5>1. n # 0 => h[n - 1] = g[n - 1]
          <6> HIDE DEF h
          <6> QED BY <3>4, <3>5
        <5>2. h[n] = IF n = 0 THEN {InitialState(m)} ELSE StepsFrom(m, g[n - 1])
          OBVIOUS
        <5> HIDE DEF h
        <5> QED BY <5>1, <5>2
      <4>2. h = [n \in 0..k |-> h[n]]
        OBVIOUS
      <4> HIDE DEF h
      <4> QED BY <4>1, <4>2
    <3> HIDE DEF h
    <3> QED BY <2>2, <3>6 DEF IsLevels
  <2> QED BY <2>3, <2>4
<1> QED BY <1>1

\* The levels as LevelsExist gives them.
LEMMA LevelsUnfold ==
    ASSUME NEW m, NEW N \in Nat, N = Cardinality(AllSteps(m))
    PROVE  /\ Levels(m)[0] = {InitialState(m)}
           /\ \A n \in 0..N : n # 0 => Levels(m)[n] = StepsFrom(m, Levels(m)[n - 1])
           /\ Reachable(m) = UNION {Levels(m)[n] : n \in 0..N}
<1>1. Levels(m) = CHOOSE f : IsLevels(f, m, N)
  BY DEF Levels, IsLevels
<1>2. IsLevels(Levels(m), m, N)
  BY <1>1, LevelsExist
<1>3. \A n \in 0..N : Levels(m)[n] = IF n = 0 THEN {InitialState(m)} ELSE StepsFrom(m, Levels(m)[n - 1])
  BY <1>2, Zenon DEF IsLevels
<1>4. 0 \in 0..N
  OBVIOUS
<1> QED BY <1>3, <1>4 DEF Reachable

\* The schedules of a model have finitely many steps.
LEMMA TotalSteps ==
    ASSUME NEW m, Checkable(m)
    PROVE  Cardinality(AllSteps(m)) \in Nat
BY SoundInitial, SoundDepth

\* The members of StepsFrom.
LEMMA StepsFromMember ==
    ASSUME NEW m, NEW S, NEW x
    PROVE  x \in StepsFrom(m, S) <=> \E s \in S : \E t \in EnabledTasks(m, s) : x = Successor(m, s, t)
BY DEF StepsFrom

\* The states of level n are sound and n steps deep.
LEMMA LevelStates ==
    ASSUME NEW m, Checkable(m), NEW n \in 0..Cardinality(AllSteps(m)), NEW s \in Levels(m)[n]
    PROVE  Sound(m, s) /\ Depth(m, s) = n
<1> DEFINE N == Cardinality(AllSteps(m))
           Bad == {k \in 0..N : \E x \in Levels(m)[k] : ~(Sound(m, x) /\ Depth(m, x) = k)}
<1>1. N \in Nat
  BY TotalSteps
<1>2. ASSUME Bad # {} PROVE FALSE
  <2>1. PICK k \in Bad : \A j \in Bad : k <= j
    <3>1. Bad \in SUBSET Nat
      BY <1>1
    <3> HIDE DEF Bad
    <3> QED BY <1>2, <3>1, LeastNat
  <2>2. k \in 0..N
    OBVIOUS
  <2>3. PICK x \in Levels(m)[k] : ~(Sound(m, x) /\ Depth(m, x) = k)
    OBVIOUS
  <2>4. CASE k = 0
    <3>1. x = InitialState(m)
      BY <1>1, <2>3, <2>4, LevelsUnfold
    <3> QED BY <2>3, <2>4, <3>1, SoundInitial
  <2>5. CASE k # 0
    <3>1. k - 1 \in 0..N /\ k \in Nat /\ k - 1 \notin Bad
      <4>1. k - 1 \in 0..N /\ k \in Nat /\ ~(k <= k - 1)
        BY <1>1, <2>2, <2>5
      <4> HIDE DEF Bad
      <4> QED BY <2>1, <4>1
    <3>2. x \in StepsFrom(m, Levels(m)[k - 1])
      BY <1>1, <2>2, <2>3, <2>5, LevelsUnfold
    <3>3. PICK p \in Levels(m)[k - 1] : \E t \in EnabledTasks(m, p) : x = Successor(m, p, t)
      BY <3>2, StepsFromMember
    <3>4. PICK t \in EnabledTasks(m, p) : x = Successor(m, p, t)
      BY <3>3
    <3>5. Sound(m, p) /\ Depth(m, p) = k - 1
      BY <3>1
    <3>6. Sound(m, x) /\ Depth(m, x) = (k - 1) + 1
      BY <3>4, <3>5, SoundSuccessor
    <3> QED BY <2>3, <3>1, <3>6
  <2> QED BY <2>4, <2>5
<1> QED BY <1>2

\* A reachable state is on some level.
LEMMA ReachableMember ==
    ASSUME NEW m, NEW x
    PROVE  x \in Reachable(m) <=> \E n \in 0..Cardinality(AllSteps(m)) : x \in Levels(m)[n]
BY DEF Reachable

\* Every interleaving stays among the reachable states, and each of them is
\* the start or one step from a reachable state.
LEMMA ReachableStates ==
    ASSUME NEW m, Checkable(m)
    PROVE  /\ InitialState(m) \in Reachable(m)
           /\ \A s \in Reachable(m) : Sound(m, s)
           /\ \A s \in Reachable(m) : \A t \in EnabledTasks(m, s) : Successor(m, s, t) \in Reachable(m)
           /\ \A s \in Reachable(m) :
                 \/ s = InitialState(m)
                 \/ \E p \in Reachable(m) : \E t \in EnabledTasks(m, p) : s = Successor(m, p, t)
<1> DEFINE N == Cardinality(AllSteps(m))
<1>1. N \in Nat
  BY TotalSteps
<1>2. /\ Levels(m)[0] = {InitialState(m)}
      /\ \A n \in 0..N : n # 0 => Levels(m)[n] = StepsFrom(m, Levels(m)[n - 1])
  BY <1>1, LevelsUnfold
<1>3. InitialState(m) \in Reachable(m)
  <2>1. 0 \in 0..N
    BY <1>1
  <2> QED BY <1>2, <2>1, ReachableMember
<1>4. ASSUME NEW s \in Reachable(m) PROVE Sound(m, s)
  <2>1. PICK n \in 0..N : s \in Levels(m)[n]
    BY ReachableMember
  <2> QED BY <2>1, LevelStates
<1>5. ASSUME NEW s \in Reachable(m), NEW t \in EnabledTasks(m, s)
      PROVE  Successor(m, s, t) \in Reachable(m)
  <2>1. PICK n \in 0..N : s \in Levels(m)[n]
    BY ReachableMember
  <2>2. Sound(m, s) /\ Depth(m, s) = n
    BY <2>1, LevelStates
  <2>3. Sound(m, Successor(m, s, t)) /\ Depth(m, Successor(m, s, t)) = n + 1
    BY <2>2, SoundSuccessor
  <2>4. n + 1 \in 0..N
    BY <2>3, SoundDepth
  <2>5. Levels(m)[n + 1] = StepsFrom(m, Levels(m)[n])
    <3>1. n + 1 # 0 /\ (n + 1) - 1 = n
      OBVIOUS
    <3> QED BY <1>2, <2>4, <3>1
  <2>6. Successor(m, s, t) \in Levels(m)[n + 1]
    BY <2>1, <2>5, StepsFromMember
  <2> QED BY <2>4, <2>6, ReachableMember
<1>6. ASSUME NEW s \in Reachable(m), s # InitialState(m)
      PROVE  \E p \in Reachable(m) : \E t \in EnabledTasks(m, p) : s = Successor(m, p, t)
  <2>1. PICK n \in 0..N : s \in Levels(m)[n]
    BY ReachableMember
  <2>2. n # 0
    BY <1>2, <1>6, <2>1
  <2>3. PICK p \in Levels(m)[n - 1] : \E t \in EnabledTasks(m, p) : s = Successor(m, p, t)
    BY <1>2, <2>1, <2>2, StepsFromMember
  <2>4. n - 1 \in 0..N
    BY <1>1, <2>2
  <2>5. p \in Reachable(m)
    BY <2>4, ReachableMember
  <2> QED BY <2>3, <2>5
<1> QED BY <1>3, <1>4, <1>5, <1>6

\* A reachable state is nowhere deeper than there are steps; its successors are
\* one step deeper.
LEMMA ReachableDepth ==
    ASSUME NEW m, Checkable(m), NEW s \in Reachable(m)
    PROVE  /\ Depth(m, s) \in 0..Cardinality(AllSteps(m)) /\ Depth(m, s) \in Nat
           /\ Cardinality(AllSteps(m)) \in Nat
           /\ IsComplete(m, s) <=> Depth(m, s) = Cardinality(AllSteps(m))
           /\ \A t \in EnabledTasks(m, s) : Depth(m, Successor(m, s, t)) = Depth(m, s) + 1
<1>1. Sound(m, s)
  BY ReachableStates
<1>2. /\ Depth(m, s) \in 0..Cardinality(AllSteps(m)) /\ Cardinality(AllSteps(m)) \in Nat
      /\ IsComplete(m, s) <=> Depth(m, s) = Cardinality(AllSteps(m))
  BY <1>1, SoundDepth
<1>3. \A t \in EnabledTasks(m, s) : Depth(m, Successor(m, s, t)) = Depth(m, s) + 1
  BY <1>1, SoundSuccessor
<1> QED BY <1>2, <1>3

\* A set of reachable states that contains the start, and the successors of its
\* members up to a depth, contains every reachable state up to that depth.
LEMMA Closure ==
    ASSUME NEW m, Checkable(m), NEW V, NEW d \in Nat,
           0 < d => InitialState(m) \in V,
           \A s \in V \cap Reachable(m) : \A t \in EnabledTasks(m, s) :
               Depth(m, Successor(m, s, t)) < d => Successor(m, s, t) \in V
    PROVE  \A s \in Reachable(m) : Depth(m, s) < d => s \in V
<1> DEFINE Bad == {k \in Nat : \E s \in Reachable(m) : Depth(m, s) = k /\ k < d /\ s \notin V}
<1>1. ASSUME Bad # {} PROVE FALSE
  <2>1. PICK k \in Bad : \A j \in Bad : k <= j
    <3>1. Bad \in SUBSET Nat
      OBVIOUS
    <3> HIDE DEF Bad
    <3> QED BY <1>1, <3>1, LeastNat
  <2>2. PICK s \in Reachable(m) : Depth(m, s) = k /\ k < d /\ s \notin V
    OBVIOUS
  <2>3. k \in Nat
    OBVIOUS
  <2>4. s # InitialState(m)
    BY <2>2, <2>3
  <2>5. PICK p \in Reachable(m) : \E t \in EnabledTasks(m, p) : s = Successor(m, p, t)
    BY <2>4, ReachableStates
  <2>6. PICK t \in EnabledTasks(m, p) : s = Successor(m, p, t)
    BY <2>5
  <2>7. Depth(m, p) \in Nat /\ k = Depth(m, p) + 1
    BY <2>2, <2>6, ReachableDepth
  <2>8. p \in V
    <3>1. Depth(m, p) \notin Bad
      <4> HIDE DEF Bad
      <4> QED BY <2>1, <2>7
    <3>2. Depth(m, p) < d
      BY <2>2, <2>3, <2>7
    <3> QED BY <2>7, <3>1, <3>2
  <2> QED BY <2>2, <2>6, <2>8
<1>2. ASSUME NEW s \in Reachable(m), Depth(m, s) < d, s \notin V PROVE FALSE
  <2>1. Depth(m, s) \in Bad
    BY <1>2, ReachableDepth
  <2> QED BY <1>1, <2>1
<1> QED BY <1>2

\* Where no interleaving deadlocks, one of them completes.
LEMMA SomeComplete ==
    ASSUME NEW m, Checkable(m), DeadlockStates(m) = {}
    PROVE  \E s \in Reachable(m) : IsComplete(m, s)
<1> DEFINE N == Cardinality(AllSteps(m))
           Missing == {k \in 0..N : ~ \E s \in Reachable(m) : Depth(m, s) = k}
<1>1. N \in Nat
  BY TotalSteps
<1>2. ASSUME Missing # {} PROVE FALSE
  <2>1. PICK k \in Missing : \A j \in Missing : k <= j
    <3>1. Missing \in SUBSET Nat
      BY <1>1
    <3> HIDE DEF Missing
    <3> QED BY <1>2, <3>1, LeastNat
  <2>2. k \in 0..N /\ ~ \E s \in Reachable(m) : Depth(m, s) = k
    OBVIOUS
  <2>3. k # 0
    BY <2>2, SoundInitial, ReachableStates
  <2>4. k - 1 \in 0..N /\ k - 1 \notin Missing
    <3>1. k - 1 \in 0..N /\ ~(k <= k - 1)
      BY <1>1, <2>2, <2>3
    <3> HIDE DEF Missing
    <3> QED BY <2>1, <3>1
  <2>5. PICK s \in Reachable(m) : Depth(m, s) = k - 1
    BY <2>4
  <2>6. ~IsComplete(m, s)
    <3>1. k - 1 # N
      BY <1>1, <2>2, <2>3
    <3> QED BY <2>5, <3>1, ReachableDepth
  <2>7. PICK t \in EnabledTasks(m, s) : TRUE
    BY <2>6 DEF DeadlockStates, IsDeadlock
  <2>8. Successor(m, s, t) \in Reachable(m) /\ Depth(m, Successor(m, s, t)) = (k - 1) + 1
    BY <2>5, ReachableStates, ReachableDepth
  <2> QED BY <1>1, <2>2, <2>8
<1>3. N \in 0..N
  BY <1>1
<1>4. PICK s \in Reachable(m) : Depth(m, s) = N
  BY <1>2, <1>3
<1> QED BY <1>4, ReachableDepth

(***************************************************************************)
(* The order in which the search takes the enabled tasks.                  *)
(***************************************************************************)

\* Ascending lists every member of a finite set of numbers.
LEMMA AscendingLists ==
    ASSUME NEW S, IsFiniteSet(S), S \subseteq Nat
    PROVE  /\ Cardinality(S) \in Nat
           /\ Len(Ascending(S)) = Cardinality(S)
           /\ \A i \in 1..Cardinality(S) : Ascending(S)[i] \in S
           /\ \A t \in S : \E i \in 1..Cardinality(S) : Ascending(S)[i] = t
<1> DEFINE n == Cardinality(S)
           rank == [t \in S |-> Cardinality({u \in S : u <= t})]
           T == {rank[t] : t \in S}
<1>1. n \in Nat
  BY FS_CardinalityType
<1>2. ASSUME NEW t \in S
      PROVE  rank[t] \in 1..n /\ IsFiniteSet({u \in S : u <= t})
  <2> DEFINE U == {u \in S : u <= t}
  <2>1. U \subseteq S /\ t \in U
    OBVIOUS
  <2> HIDE DEF U
  <2>2. IsFiniteSet(U) /\ Cardinality(U) <= n /\ Cardinality(U) \in Nat
    BY <2>1, FS_Subset, FS_CardinalityType
  <2>3. Cardinality(U) # 0
    BY <2>1, <2>2, FS_EmptySet
  <2>4. rank[t] = Cardinality(U)
    BY DEF U
  <2> HIDE DEF rank
  <2> QED BY <1>1, <2>2, <2>3, <2>4 DEF U
<1>3. ASSUME NEW t \in S, NEW u \in S, t < u PROVE rank[t] # rank[u]
  <2> DEFINE A == {v \in S : v <= t}
             B == {v \in S : v <= u}
  <2>1. A \subseteq B /\ u \in B /\ u \notin A
    <3>1. t \in Nat /\ u \in Nat /\ \A v \in S : v \in Nat
      OBVIOUS
    <3>2. \A v \in S : v <= t => v <= u
      BY <1>3, <3>1
    <3>3. u <= u /\ ~(u <= t)
      BY <1>3, <3>1
    <3> QED BY <3>2, <3>3
  <2>2. IsFiniteSet(B)
    BY <1>2
  <2>3. rank[t] = Cardinality(A) /\ rank[u] = Cardinality(B)
    OBVIOUS
  <2> HIDE DEF A, B, rank
  <2>4. Cardinality(A) # Cardinality(B)
    BY <2>1, <2>2, FS_Subset
  <2> QED BY <2>3, <2>4
<1>4. \A t, u \in S : rank[t] = rank[u] => t = u
  <2> HIDE DEF rank
  <2> QED BY <1>3
<1>5. rank \in Surjection(S, T) /\ rank \in Injection(S, T)
  <2>1. rank = [t \in S |-> rank[t]] /\ rank \in [S -> T]
    OBVIOUS
  <2> HIDE DEF rank
  <2> QED BY <1>4, <2>1 DEF Surjection, Injection, IsInjective
<1>6. T = 1..n
  <2>1. T \subseteq 1..n
    BY <1>2
  <2>2. Cardinality(T) = n
    <3> HIDE DEF rank, T
    <3> QED BY <1>5, FS_Surjection
  <2>3. IsFiniteSet(1..n) /\ Cardinality(1..n) = n
    BY <1>1, FS_Interval
  <2> HIDE DEF T
  <2> QED BY <2>1, <2>2, <2>3, FS_Subset
<1> DEFINE At(i) == CHOOSE t \in S : Cardinality({u \in S : u <= t}) = i
<1>7. ASSUME NEW i \in 1..n PROVE At(i) \in S /\ rank[At(i)] = i
  <2>1. \E t \in S : rank[t] = i
    BY <1>6
  <2>2. \E t \in S : Cardinality({u \in S : u <= t}) = i
    BY <2>1
  <2>3. At(i) \in S /\ Cardinality({u \in S : u <= At(i)}) = i
    BY <2>2
  <2> HIDE DEF At
  <2> QED BY <2>3
<1>8. Ascending(S) = [i \in 1..n |-> At(i)]
  BY DEF Ascending
<1>9. \A i \in 1..n : Ascending(S)[i] = At(i)
  BY <1>8
<1>10. Len(Ascending(S)) = n
  <2> HIDE DEF At
  <2> QED BY <1>1, <1>8
<1>11. ASSUME NEW t \in S PROVE \E i \in 1..n : Ascending(S)[i] = t
  <2>1. rank[t] \in 1..n
    BY <1>2
  <2>2. At(rank[t]) \in S /\ rank[At(rank[t])] = rank[t]
    BY <1>7, <2>1
  <2> HIDE DEF At, rank
  <2>3. At(rank[t]) = t
    BY <1>4, <2>2
  <2> QED BY <1>9, <2>1, <2>3
<1> HIDE DEF At, rank, T
<1> QED BY <1>1, <1>7, <1>9, <1>10, <1>11

\* The successors the search appends: one for each enabled task, one step deeper.
LEMMA SuccessorsListed ==
    ASSUME NEW m, Checkable(m), NEW s \in Reachable(m), NEW L, L = SuccessorList(m, s)
    PROVE  /\ L \in Seq(Reachable(m))
           /\ \A i \in 1..Len(L) : Depth(m, L[i]) = Depth(m, s) + 1
           /\ \A t \in EnabledTasks(m, s) : \E i \in 1..Len(L) : L[i] = Successor(m, s, t)
<1> DEFINE E == EnabledTasks(m, s)
           order == Ascending(E)
           n == Cardinality(E)
<1>1. E \subseteq Nat /\ IsFiniteSet(E)
  <2>1. IsFiniteSet(DOMAIN m.steps) /\ DOMAIN m.steps \subseteq Nat
    BY TasksFinite DEF Checkable, Ready
  <2>2. E \subseteq DOMAIN m.steps
    BY DEF EnabledTasks, Unfinished
  <2> HIDE DEF E
  <2> QED BY <2>1, <2>2, FS_Subset
<1>2. /\ n \in Nat /\ Len(order) = n
      /\ \A i \in 1..n : order[i] \in E
      /\ \A t \in E : \E i \in 1..n : order[i] = t
  <2> HIDE DEF E
  <2> QED BY <1>1, AscendingLists
<1>3. L = [i \in 1..n |-> Successor(m, s, order[i])]
  <2>1. L = [i \in 1..Len(order) |-> Successor(m, s, order[i])]
    BY DEF SuccessorList
  <2> HIDE DEF order, n, E
  <2> QED BY <1>2, <2>1
<1>4. \A t \in E : Successor(m, s, t) \in Reachable(m) /\ Depth(m, Successor(m, s, t)) = Depth(m, s) + 1
  BY ReachableStates, ReachableDepth
<1> HIDE DEF order, n, E
<1>5. \A i \in 1..n : L[i] = Successor(m, s, order[i]) /\ L[i] \in Reachable(m)
  BY <1>2, <1>3, <1>4
<1>6. L \in Seq(Reachable(m)) /\ Len(L) = n
  <2>1. DOMAIN L = 1..n /\ L \in [1..n -> Reachable(m)]
    BY <1>3, <1>5
  <2> QED BY <1>2, <2>1
<1>7. \A i \in 1..Len(L) : Depth(m, L[i]) = Depth(m, s) + 1
  BY <1>2, <1>4, <1>5, <1>6
<1>8. \A t \in E : \E i \in 1..Len(L) : L[i] = Successor(m, s, t)
  BY <1>2, <1>5, <1>6
<1> QED BY <1>6, <1>7, <1>8 DEF E

(***************************************************************************)
(* The queue.                                                              *)
(***************************************************************************)
Members(q) == {q[i] : i \in 1..Len(q)}

\* Breadth first: the queue holds the rest of one level and then the next.
LevelOrdered(m, q) ==
    \A i, j \in 1..Len(q) : i < j => /\ Depth(m, q[i]) <= Depth(m, q[j])
                                     /\ Depth(m, q[j]) <= Depth(m, q[i]) + 1

\* What taking the head of a queue leaves.
LEMMA Popped ==
    ASSUME NEW R, NEW q \in Seq(R), q # <<>>
    PROVE  /\ Head(q) \in R /\ Tail(q) \in Seq(R)
           /\ Len(q) \in Nat /\ Len(q) >= 1 /\ Len(Tail(q)) = Len(q) - 1
           /\ Head(q) = q[1]
           /\ \A i \in 1..Len(Tail(q)) : Tail(q)[i] = q[i + 1]
           /\ Members(q) = {Head(q)} \cup Members(Tail(q))
<1>1. /\ Head(q) \in R /\ Tail(q) \in Seq(R)
      /\ Len(q) \in Nat /\ Len(q) >= 1 /\ Len(Tail(q)) = Len(q) - 1
      /\ Head(q) = q[1]
      /\ \A i \in 1..Len(Tail(q)) : Tail(q)[i] = q[i + 1]
  OBVIOUS
<1>2. ASSUME NEW i \in 1..Len(q) PROVE q[i] = Head(q) \/ q[i] \in Members(Tail(q))
  <2>1. i # 1 => i - 1 \in 1..Len(Tail(q)) /\ Tail(q)[i - 1] = q[i]
    BY <1>1
  <2> QED BY <1>1, <2>1 DEF Members
<1>3. ASSUME NEW i \in 1..Len(Tail(q)) PROVE Tail(q)[i] \in Members(q)
  <2>1. i + 1 \in 1..Len(q)
    BY <1>1
  <2> QED BY <1>1, <2>1 DEF Members
<1>4. Head(q) \in Members(q)
  BY <1>1 DEF Members
<1>5. Members(q) = {Head(q)} \cup Members(Tail(q))
  <2>1. Members(q) \subseteq {Head(q)} \cup Members(Tail(q))
    BY <1>2 DEF Members
  <2>2. Members(Tail(q)) \subseteq Members(q)
    BY <1>3 DEF Members
  <2> QED BY <1>4, <2>1, <2>2
<1> QED BY <1>1, <1>5

\* What appending to a queue gives.
LEMMA Appended ==
    ASSUME NEW R, NEW p \in Seq(R), NEW q \in Seq(R)
    PROVE  /\ p \o q \in Seq(R) /\ Len(p \o q) = Len(p) + Len(q) /\ Len(p) \in Nat /\ Len(q) \in Nat
           /\ \A i \in 1..Len(p) : (p \o q)[i] = p[i]
           /\ \A i \in 1..Len(p \o q) : i \notin 1..Len(p) =>
                 i - Len(p) \in 1..Len(q) /\ (p \o q)[i] = q[i - Len(p)]
           /\ Members(p \o q) = Members(p) \cup Members(q)
<1>1. p \o q \in Seq(R) /\ Len(p \o q) = Len(p) + Len(q) /\ Len(p) \in Nat /\ Len(q) \in Nat
  OBVIOUS
<1>2. \A i \in 1..Len(p) : (p \o q)[i] = p[i]
  OBVIOUS
<1>3. \A i \in 1..Len(p \o q) : i \notin 1..Len(p) =>
                 i - Len(p) \in 1..Len(q) /\ (p \o q)[i] = q[i - Len(p)]
  OBVIOUS
<1>4. \A j \in 1..Len(q) : (p \o q)[Len(p) + j] = q[j] /\ Len(p) + j \in 1..Len(p \o q)
  OBVIOUS
<1>5. \A i \in 1..Len(p) : i \in 1..Len(p \o q)
  BY <1>1
<1>6. Members(p \o q) = Members(p) \cup Members(q)
  <2>1. Members(p \o q) \subseteq Members(p) \cup Members(q)
    BY <1>2, <1>3 DEF Members
  <2>2. Members(p) \subseteq Members(p \o q)
    BY <1>2, <1>5 DEF Members
  <2>3. Members(q) \subseteq Members(p \o q)
    BY <1>4 DEF Members
  <2> QED BY <2>1, <2>2, <2>3
<1> QED BY <1>1, <1>2, <1>3, <1>6

\* Popping keeps the order, and the head is on the first level in the queue.
LEMMA OrderedTail ==
    ASSUME NEW m, Checkable(m), NEW q \in Seq(Reachable(m)), q # <<>>, LevelOrdered(m, q)
    PROVE  /\ LevelOrdered(m, Tail(q))
           /\ \A x \in Members(q) : Depth(m, Head(q)) <= Depth(m, x)
           /\ \A i \in 1..Len(Tail(q)) : /\ Depth(m, Head(q)) <= Depth(m, Tail(q)[i])
                                         /\ Depth(m, Tail(q)[i]) <= Depth(m, Head(q)) + 1
<1>1. /\ Head(q) \in Reachable(m) /\ Len(q) \in Nat /\ Len(q) >= 1 /\ Len(Tail(q)) = Len(q) - 1
      /\ Head(q) = q[1] /\ \A i \in 1..Len(Tail(q)) : Tail(q)[i] = q[i + 1]
      /\ Members(q) = {Head(q)} \cup Members(Tail(q))
  BY Popped
<1>2. \A i \in 1..Len(Tail(q)) : i + 1 \in 1..Len(q) /\ 1 < i + 1 /\ 1 \in 1..Len(q)
  BY <1>1
<1>3. LevelOrdered(m, Tail(q))
  <2> SUFFICES ASSUME NEW i \in 1..Len(Tail(q)), NEW j \in 1..Len(Tail(q)), i < j
               PROVE  /\ Depth(m, Tail(q)[i]) <= Depth(m, Tail(q)[j])
                      /\ Depth(m, Tail(q)[j]) <= Depth(m, Tail(q)[i]) + 1
    BY DEF LevelOrdered
  <2>1. i + 1 < j + 1
    OBVIOUS
  <2> QED BY <1>1, <1>2, <2>1 DEF LevelOrdered
<1>4. ASSUME NEW i \in 1..Len(Tail(q))
      PROVE  /\ Depth(m, Head(q)) <= Depth(m, Tail(q)[i])
             /\ Depth(m, Tail(q)[i]) <= Depth(m, Head(q)) + 1
  BY <1>1, <1>2 DEF LevelOrdered
<1>5. Depth(m, Head(q)) <= Depth(m, Head(q))
  BY <1>1, ReachableDepth
<1>6. ASSUME NEW x \in Members(q) PROVE Depth(m, Head(q)) <= Depth(m, x)
  BY <1>1, <1>4, <1>5 DEF Members
<1> QED BY <1>3, <1>4, <1>6

\* Appending the next level keeps the order.
LEMMA OrderedAppend ==
    ASSUME NEW m, Checkable(m), NEW q \in Seq(Reachable(m)), q # <<>>, LevelOrdered(m, q),
           NEW L \in Seq(Reachable(m)), \A i \in 1..Len(L) : Depth(m, L[i]) = Depth(m, Head(q)) + 1
    PROVE  LevelOrdered(m, Tail(q) \o L)
<1> DEFINE r == Tail(q)
           c == r \o L
           d == Depth(m, Head(q))
<1>1. r \in Seq(Reachable(m)) /\ Head(q) \in Reachable(m)
  BY Popped
<1>2. d \in Nat
  BY <1>1, ReachableDepth
<1>3. LevelOrdered(m, r) /\ \A i \in 1..Len(r) : d <= Depth(m, r[i]) /\ Depth(m, r[i]) <= d + 1
  BY OrderedTail
<1> HIDE DEF r, d
<1>4. /\ c \in Seq(Reachable(m)) /\ Len(c) = Len(r) + Len(L) /\ Len(r) \in Nat /\ Len(L) \in Nat
      /\ \A i \in 1..Len(r) : c[i] = r[i]
      /\ \A i \in 1..Len(c) : i \notin 1..Len(r) => i - Len(r) \in 1..Len(L) /\ c[i] = L[i - Len(r)]
  BY <1>1, Appended
<1> HIDE DEF c
<1>5. \A i \in 1..Len(c) : i \notin 1..Len(r) => Depth(m, c[i]) = d + 1
  BY <1>4 DEF d
<1>6. \A i \in 1..Len(c) : Depth(m, c[i]) \in Nat
  BY <1>4, ReachableDepth
<1> SUFFICES ASSUME NEW i \in 1..Len(c), NEW j \in 1..Len(c), i < j
             PROVE  Depth(m, c[i]) <= Depth(m, c[j]) /\ Depth(m, c[j]) <= Depth(m, c[i]) + 1
  BY DEF LevelOrdered, c, r
<1>7. CASE j \in 1..Len(r)
  <2>1. i \in 1..Len(r)
    BY <1>4, <1>7
  <2> QED BY <1>3, <1>4, <1>7, <2>1 DEF LevelOrdered
<1>8. CASE j \notin 1..Len(r)
  <2>1. Depth(m, c[j]) = d + 1
    BY <1>5, <1>8
  <2>2. CASE i \in 1..Len(r)
    <3>1. d <= Depth(m, c[i]) /\ Depth(m, c[i]) <= d + 1
      BY <1>3, <1>4, <2>2
    <3> QED BY <1>2, <1>6, <2>1, <3>1
  <2>3. CASE i \notin 1..Len(r)
    <3>1. Depth(m, c[i]) = d + 1
      BY <1>5, <2>3
    <3> QED BY <1>2, <2>1, <3>1
  <2> QED BY <2>2, <2>3
<1> QED BY <1>7, <1>8

(***************************************************************************)
(* The search.                                                             *)
(***************************************************************************)

\* The reachable states explored so far.
Seen == {s \in Reachable(model) : Key(s) \in visited}

\* The reachable states that share their key with a state of S: to the search they
\* are one state.
Alike(S) == {s \in Reachable(model) : \E y \in S : Key(s) = Key(y)}

\* The search was cut short by the first deadlock or race.
Cut == result.done /\ args.earlyExit /\ deadlocks \cup races # {}

\* The search works on reachable states only, and counts what it visits.
SearchTypes ==
    /\ model \in Models
    /\ args \in [maxStates : StateLimits, earlyExit : EarlyExits, cursorOnly : CursorOnlyKeys]
    /\ queue \in Seq(Reachable(model))
    /\ IsFiniteSet(visited) /\ visited \subseteq {Key(s) : s \in Reachable(model)}
    /\ explored = Cardinality(visited) /\ explored <= args.maxStates
    /\ complete \in Nat /\ (args.cursorOnly \/ OneAccumulator(model) => complete <= 1)
    /\ result \in {NoResult} \cup [done : {TRUE}, safe : BOOLEAN, hitLimit : BOOLEAN]

\* Unless it was cut short, the search has the start and every successor of an
\* explored state explored or queued, as far as keys tell states apart.
Covered ==
    /\ InitialState(model) \in Seen \cup Alike(Members(queue))
    /\ \A s \in Seen : \A t \in EnabledTasks(model, s) :
          Successor(model, s, t) \in Seen \cup Alike(Members(queue))

\* The deadlocks reported are those of the explored states.
DeadlocksFound == deadlocks = {s.cursors : s \in {x \in Seen : IsDeadlock(model, x)}}

\* The race pairs of the explored states: all of them when the key loses no holds.
RacesFound ==
    /\ \A x \in races : \E s \in Seen : \E t \in RacingTasks(model, s) : x = <<s.cursors, t>>
    /\ ~Cut /\ KeyIsExact => \A s \in Seen : \A t \in RacingTasks(model, s) : <<s.cursors, t>> \in races

\* Complete states are counted, and all other states are explored before it.
CompleteFound ==
    /\ complete > 0 <=> \E s \in Seen : IsComplete(model, s)
    /\ complete > 0 => \A s \in Reachable(model) : ~IsComplete(model, s) => s \in Seen

\* The verdict is what was found, and the search stops for one of three reasons.
VerdictFollows ==
    result.done =>
        /\ result.safe <=> deadlocks = {} /\ races = {} /\ complete > 0
        /\ Cut \/ queue = <<>> \/ explored >= args.maxStates

\* The inductive invariant of the search.
SearchIInv ==
    /\ SearchTypes
    /\ LevelOrdered(model, queue)
    /\ ~Cut => Covered
    /\ DeadlocksFound
    /\ RacesFound
    /\ CompleteFound
    /\ VerdictFollows

\* Every model of the search meets the assumptions.
LEMMA ModelCheckable ==
    ASSUME model \in Models
    PROVE  Checkable(model)
BY ModelsAssumption, ProtocolAssumption DEF Checkable, Ready

\* What states with the same key share: all that decides where the program can go
\* from there, and their holds too when the key is exact.
LEMMA KeyFacts ==
    ASSUME model \in Models, NEW a \in Reachable(model), NEW b \in Reachable(model), Key(a) = Key(b)
    PROVE  /\ a.cursors = b.cursors
           /\ EnabledTasks(model, a) = EnabledTasks(model, b)
           /\ IsDeadlock(model, a) <=> IsDeadlock(model, b)
           /\ IsComplete(model, a) <=> IsComplete(model, b)
           /\ Depth(model, a) = Depth(model, b)
           /\ \A t \in EnabledTasks(model, a) :
                 Key(Successor(model, a, t)) = Key(Successor(model, b, t))
           /\ KeyIsExact => a = b
<1>1. Sound(model, a) /\ Sound(model, b)
  BY ModelCheckable, ReachableStates
<1>2. CASE ~args.cursorOnly
  <2>1. a = b
    BY <1>2 DEF Key
  <2> QED BY <2>1
<1>3. CASE args.cursorOnly
  <2>1. a.cursors = b.cursors
    BY <1>3 DEF Key
  <2>2. a.barriers = b.barriers /\ (OneAccumulator(model) => a = b)
    BY <1>1, <2>1, CursorsDetermine
  <2>3. EnabledTasks(model, a) = EnabledTasks(model, b)
    BY <2>1, <2>2 DEF EnabledTasks
  <2>4. IsComplete(model, a) <=> IsComplete(model, b)
    BY <2>1 DEF IsComplete
  <2>5. IsDeadlock(model, a) <=> IsDeadlock(model, b)
    BY <2>3, <2>4 DEF IsDeadlock
  <2>6. Depth(model, a) = Depth(model, b)
    BY <2>1 DEF Depth
  <2>7. \A t : Key(Successor(model, a, t)) = Key(Successor(model, b, t))
    <3>1. \A t : Successor(model, a, t).cursors = Successor(model, b, t).cursors
      BY <2>1 DEF Successor
    <3> QED BY <1>3, <3>1 DEF Key
  <2>8. KeyIsExact => a = b
    BY <1>3, <2>2 DEF KeyIsExact
  <2> QED BY <2>1, <2>3, <2>4, <2>5, <2>6, <2>7, <2>8
<1> QED BY <1>2, <1>3

\* KeyFacts for the states the search takes for s.
LEMMA AlikeFacts ==
    ASSUME model \in Models, NEW s \in Reachable(model), NEW x \in Alike({s})
    PROVE  /\ x \in Reachable(model) /\ Key(x) = Key(s) /\ x.cursors = s.cursors
           /\ EnabledTasks(model, x) = EnabledTasks(model, s)
           /\ IsDeadlock(model, x) <=> IsDeadlock(model, s)
           /\ IsComplete(model, x) <=> IsComplete(model, s)
           /\ \A t \in EnabledTasks(model, s) :
                 Key(Successor(model, x, t)) = Key(Successor(model, s, t))
           /\ KeyIsExact => x = s
<1>1. x \in Reachable(model) /\ Key(x) = Key(s)
  BY DEF Alike
<1> QED BY <1>1, KeyFacts

\* Every reachable state above the first level in the queue has been explored.
LEMMA LevelsExplored ==
    ASSUME model \in Models, queue \in Seq(Reachable(model)), Covered,
           NEW d \in Nat, \A x \in Members(queue) : d <= Depth(model, x)
    PROVE  \A x \in Reachable(model) : Depth(model, x) < d => x \in Seen
<1>1. Checkable(model)
  BY ModelCheckable
<1>2. ASSUME NEW x \in Alike(Members(queue)) PROVE d <= Depth(model, x)
  <2>1. PICK y \in Members(queue) : Key(x) = Key(y)
    BY DEF Alike
  <2>2. x \in Reachable(model) /\ y \in Reachable(model)
    BY DEF Alike, Members
  <2> QED BY <2>1, <2>2, KeyFacts
<1>3. 0 < d => InitialState(model) \in Seen
  <2> SUFFICES ASSUME 0 < d, InitialState(model) \in Alike(Members(queue)) PROVE FALSE
    BY DEF Covered
  <2>1. Depth(model, InitialState(model)) = 0
    BY <1>1, SoundInitial
  <2> QED BY <1>2, <2>1
<1>4. ASSUME NEW s \in Seen \cap Reachable(model), NEW t \in EnabledTasks(model, s),
             Depth(model, Successor(model, s, t)) < d
      PROVE  Successor(model, s, t) \in Seen
  <2>1. Successor(model, s, t) \in Reachable(model)
    BY <1>1, ReachableStates
  <2>2. Depth(model, Successor(model, s, t)) \in Nat
    BY <1>1, <2>1, ReachableDepth
  <2>3. Successor(model, s, t) \notin Alike(Members(queue))
    <3>1. ~(d <= Depth(model, Successor(model, s, t)))
      BY <1>4, <2>2
    <3> QED BY <1>2, <3>1
  <2> QED BY <2>3 DEF Covered
<1> QED BY <1>1, <1>3, <1>4, Closure

\* When the queue has run dry, nothing is left to explore.
LEMMA AllExplored ==
    ASSUME model \in Models, queue \in Seq(Reachable(model)), Covered, queue = <<>>
    PROVE  Seen = Reachable(model)
<1> DEFINE d == Cardinality(AllSteps(model)) + 1
<1>1. d \in Nat
  BY ModelCheckable, TotalSteps
<1>2. Members(queue) = {}
  BY DEF Members
<1>3. \A x \in Reachable(model) : Depth(model, x) < d => x \in Seen
  <2> HIDE DEF d
  <2> QED BY <1>1, <1>2, LevelsExplored
<1>4. \A x \in Reachable(model) : Depth(model, x) < d
  BY ModelCheckable, ReachableDepth
<1> QED BY <1>3, <1>4 DEF Seen

\* What the iterations that explore a state have in common.
LEMMA ExploreFacts ==
    ASSUME SearchIInv, NEW s, s = Head(queue), Explore(s), model' = model, args' = args
    PROVE  /\ Checkable(model) /\ model \in Models /\ s \in Reachable(model) /\ s \notin Seen
           /\ Seen' = Seen \cup Alike({s}) /\ s \in Alike({s})
           /\ ~result.done /\ ~Cut /\ queue # <<>> /\ queue \in Seq(Reachable(model))
           /\ IsFiniteSet(visited') /\ visited' \subseteq {Key(x)' : x \in Reachable(model')}
           /\ explored' = Cardinality(visited') /\ explored' <= args.maxStates
           /\ \A x \in Reachable(model) : Depth(model, x) < Depth(model, s) => x \in Seen
<1>1. /\ model \in Models /\ queue \in Seq(Reachable(model)) /\ IsFiniteSet(visited)
      /\ visited \subseteq {Key(x) : x \in Reachable(model)}
      /\ explored = Cardinality(visited) /\ args.maxStates \in Nat
  BY ArgsAssumption DEF SearchIInv, SearchTypes
<1>2. ~result.done /\ queue # <<>> /\ explored < args.maxStates /\ Key(s) \notin visited
      /\ visited' = visited \cup {Key(s)} /\ explored' = explored + 1
  BY DEF Explore, Searching
<1>3. Checkable(model)
  BY <1>1, ModelCheckable
<1>4. s \in Reachable(model)
  BY <1>1, <1>2, Popped
<1>5. \A x : Key(x)' = Key(x)
  BY DEF Key
<1>6. s \notin Seen
  BY <1>2 DEF Seen
<1>7. Seen' = Seen \cup Alike({s}) /\ s \in Alike({s})
  <2> SUFFICES ASSUME NEW x PROVE x \in Seen' <=> x \in Seen \/ x \in Alike({s})
    BY <1>4 DEF Alike
  <2>1. x \in Seen' <=> x \in Reachable(model) /\ (Key(x) \in visited \/ Key(x) = Key(s))
    BY <1>2, <1>5 DEF Seen
  <2>2. x \in Seen <=> x \in Reachable(model) /\ Key(x) \in visited
    BY DEF Seen
  <2>3. x \in Alike({s}) <=> x \in Reachable(model) /\ Key(x) = Key(s)
    BY DEF Alike
  <2> QED BY <2>1, <2>2, <2>3
<1>8. IsFiniteSet(visited') /\ Cardinality(visited') = Cardinality(visited) + 1 /\ Cardinality(visited) \in Nat
  BY <1>1, <1>2, FS_AddElement, FS_CardinalityType
<1>9. visited' \subseteq {Key(x)' : x \in Reachable(model')}
  BY <1>1, <1>2, <1>4, <1>5
<1>10. explored' = Cardinality(visited') /\ explored' <= args.maxStates
  BY <1>1, <1>2, <1>8
<1>11. ~Cut
  BY <1>2 DEF Cut
<1>12. \A x \in Reachable(model) : Depth(model, x) < Depth(model, s) => x \in Seen
  <2>1. Covered /\ LevelOrdered(model, queue)
    BY <1>11 DEF SearchIInv
  <2>2. \A x \in Members(queue) : Depth(model, s) <= Depth(model, x)
    BY <1>1, <1>2, <1>3, <2>1, OrderedTail
  <2>3. Depth(model, s) \in Nat
    BY <1>3, <1>4, ReachableDepth
  <2> QED BY <1>1, <2>1, <2>2, <2>3, LevelsExplored
<1> QED BY <1>1, <1>2, <1>3, <1>4, <1>6, <1>7, <1>8, <1>9, <1>10, <1>11, <1>12

\* What exploring s does to each part of the invariant.
LEMMA CoveredAfter ==
    ASSUME Covered, model \in Models, NEW s \in Reachable(model), model' = model, args' = args,
           Seen' = Seen \cup Alike({s}),
           Members(queue) \subseteq {s} \cup Members(queue'),
           \A t \in EnabledTasks(model, s) : Successor(model, s, t) \in Members(queue')
    PROVE  Covered'
<1>1. \A x : Key(x)' = Key(x)
  BY DEF Key
<1>2. \A x : x \in Alike(Members(queue))' <=>
               x \in Reachable(model) /\ \E y \in Members(queue') : Key(x) = Key(y)
  BY <1>1 DEF Alike
<1>3. ASSUME NEW x \in Alike(Members(queue)) PROVE x \in Seen' \cup Alike(Members(queue))'
  <2>1. PICK y \in Members(queue) : Key(x) = Key(y)
    BY DEF Alike
  <2>2. x \in Reachable(model)
    BY DEF Alike
  <2>3. CASE y = s
    BY <2>1, <2>2, <2>3 DEF Alike
  <2>4. CASE y \in Members(queue')
    BY <1>2, <2>1, <2>2, <2>4
  <2> QED BY <2>3, <2>4
<1>4. ASSUME NEW x \in Alike({s}), NEW t \in EnabledTasks(model, x)
      PROVE  Successor(model, x, t) \in Alike(Members(queue))'
  <2>1. /\ x \in Reachable(model) /\ t \in EnabledTasks(model, s)
        /\ Key(Successor(model, x, t)) = Key(Successor(model, s, t))
    BY AlikeFacts
  <2>2. Successor(model, x, t) \in Reachable(model)
    BY <2>1, ModelCheckable, ReachableStates
  <2> QED BY <1>2, <2>1, <2>2
<1>5. InitialState(model) \in Seen' \cup Alike(Members(queue))'
  BY <1>3 DEF Covered
<1>6. ASSUME NEW x \in Seen', NEW t \in EnabledTasks(model, x)
      PROVE  Successor(model, x, t) \in Seen' \cup Alike(Members(queue))'
  BY <1>3, <1>4 DEF Covered
<1> QED BY <1>5, <1>6 DEF Covered

\* Exploring a state adds its deadlock, if it is one.
LEMMA DeadlocksAfter ==
    ASSUME DeadlocksFound, model \in Models, NEW s \in Reachable(model), model' = model,
           Seen' = Seen \cup Alike({s}), s \in Alike({s}),
           deadlocks' = IF IsDeadlock(model, s) THEN deadlocks \cup {s.cursors} ELSE deadlocks
    PROVE  DeadlocksFound'
<1>1. deadlocks = {x.cursors : x \in {y \in Seen : IsDeadlock(model, y)}}
  BY DEF DeadlocksFound
<1>2. \A x \in Alike({s}) : x.cursors = s.cursors /\ (IsDeadlock(model, x) <=> IsDeadlock(model, s))
  BY AlikeFacts
<1>3. ASSUME NEW c
      PROVE  c \in deadlocks' <=> \E x \in Seen' : IsDeadlock(model, x) /\ c = x.cursors
  BY <1>1, <1>2
<1>4. deadlocks' = {x.cursors : x \in {y \in Seen' : IsDeadlock(model, y)}}
  BY <1>3
<1> QED BY <1>4 DEF DeadlocksFound

\* Exploring a state adds its races: all those of the explored states, unless the
\* search is cut or the key loses holds.
LEMMA RacesAfter ==
    ASSUME RacesFound, ~Cut, model \in Models, NEW s \in Reachable(model),
           model' = model, args' = args, Seen' = Seen \cup Alike({s}), s \in Alike({s}),
           races \subseteq races',
           \A x \in races' : x \in races \/ \E t \in RacingTasks(model, s) : x = <<s.cursors, t>>,
           Cut' \/ \A t \in RacingTasks(model, s) : <<s.cursors, t>> \in races'
    PROVE  RacesFound'
<1>1. \A x \in races' : \E y \in Seen' : \E t \in RacingTasks(model, y) : x = <<y.cursors, t>>
  BY DEF RacesFound
<1>2. ASSUME ~Cut', KeyIsExact, NEW y \in Seen', NEW t \in RacingTasks(model, y)
      PROVE  <<y.cursors, t>> \in races'
  <2>1. y \in Alike({s}) => y = s
    BY <1>2, AlikeFacts
  <2> QED BY <1>2, <2>1 DEF RacesFound
<1>3. KeyIsExact' = KeyIsExact
  BY DEF KeyIsExact
<1> QED BY <1>1, <1>2, <1>3 DEF RacesFound

\* Exploring an incomplete state leaves the count of complete states right.
LEMMA CompleteAfter ==
    ASSUME CompleteFound, model \in Models, NEW s \in Reachable(model), model' = model,
           Seen' = Seen \cup Alike({s}), ~IsComplete(model, s), complete' = complete
    PROVE  CompleteFound'
<1>1. \A x \in Alike({s}) : ~IsComplete(model, x)
  BY AlikeFacts
<1> QED BY <1>1 DEF CompleteFound

\* The invariant holds when the search starts.
LEMMA SearchIInvInit ==
    ASSUME SearchInit
    PROVE  SearchIInv
<1>1. /\ model \in Models /\ queue = <<InitialState(model)>> /\ visited = {} /\ explored = 0
      /\ complete = 0 /\ deadlocks = {} /\ races = {} /\ result = NoResult
      /\ args \in [maxStates : StateLimits, earlyExit : EarlyExits, cursorOnly : CursorOnlyKeys]
  BY DEF SearchInit
<1>2. InitialState(model) \in Reachable(model)
  BY <1>1, ModelCheckable, ReachableStates
<1>3. queue \in Seq(Reachable(model)) /\ Len(queue) = 1 /\ queue[1] = InitialState(model)
  BY <1>1, <1>2
<1>4. IsFiniteSet({}) /\ Cardinality({}) = 0
  BY FS_EmptySet
<1>5. args.maxStates \in Nat
  BY <1>1, ArgsAssumption
<1>6. SearchTypes
  BY <1>1, <1>3, <1>4, <1>5 DEF SearchTypes
<1>7. Seen = {}
  BY <1>1 DEF Seen
<1>8. Members(queue) = {InitialState(model)}
  BY <1>3 DEF Members
<1>9. LevelOrdered(model, queue)
  BY <1>3 DEF LevelOrdered
<1>10. Covered
  BY <1>2, <1>7, <1>8 DEF Covered, Alike
<1>11. DeadlocksFound /\ RacesFound
  BY <1>1, <1>7 DEF DeadlocksFound, RacesFound
<1>12. CompleteFound
  BY <1>1, <1>7 DEF CompleteFound
<1>13. VerdictFollows
  BY <1>1 DEF VerdictFollows, NoResult
<1> QED BY <1>6, <1>9, <1>10, <1>11, <1>12, <1>13 DEF SearchIInv

\* An iteration that explores a state without a successor.
LEMMA QuietAfter ==
    ASSUME SearchIInv, NEW s, s = Head(queue), Explore(s), EnabledTasks(model, s) = {},
           model' = model, args' = args, queue' = Tail(queue), races' = races
    PROVE  /\ queue' \in Seq(Reachable(model)) /\ LevelOrdered(model', queue')
           /\ Covered' /\ RacesFound'
<1>1. /\ Checkable(model) /\ model \in Models /\ s \in Reachable(model)
      /\ Seen' = Seen \cup Alike({s}) /\ s \in Alike({s}) /\ ~Cut /\ queue # <<>>
      /\ queue \in Seq(Reachable(model))
  BY ExploreFacts
<1>2. /\ Tail(queue) \in Seq(Reachable(model))
      /\ Members(queue) = {s} \cup Members(Tail(queue))
  BY <1>1, Popped
<1>3. LevelOrdered(model, Tail(queue))
  BY <1>1, OrderedTail DEF SearchIInv
<1>4. Covered'
  BY <1>1, <1>2, CoveredAfter DEF SearchIInv
<1>5. RacesFound'
  <2>1. RacingTasks(model, s) = {}
    BY DEF RacingTasks
  <2> QED BY <1>1, <2>1, RacesAfter DEF SearchIInv
<1> QED BY <1>2, <1>3, <1>4, <1>5

\* Popping a state with a visited key loses nothing the key can tell.
LEMMA SkipVisitedStep ==
    ASSUME SearchIInv, SkipVisited
    PROVE  SearchIInv'
<1>1. /\ ~result.done /\ queue # <<>> /\ Key(Head(queue)) \in visited /\ queue' = Tail(queue)
      /\ model' = model /\ args' = args /\ visited' = visited /\ explored' = explored
      /\ complete' = complete /\ deadlocks' = deadlocks /\ races' = races /\ result' = result
  BY DEF SkipVisited, Searching
<1>2. model \in Models /\ queue \in Seq(Reachable(model))
  BY DEF SearchIInv, SearchTypes
<1>3. /\ Head(queue) \in Reachable(model) /\ Tail(queue) \in Seq(Reachable(model))
      /\ Members(queue) = {Head(queue)} \cup Members(Tail(queue))
  BY <1>1, <1>2, Popped
<1>4. \A x : Key(x)' = Key(x)
  BY <1>1 DEF Key
<1>5. Seen' = Seen /\ Head(queue) \in Seen /\ Cut' = Cut
  BY <1>1, <1>3, <1>4 DEF Seen, Cut
<1>6. SearchTypes'
  BY <1>1, <1>3, <1>4 DEF SearchIInv, SearchTypes
<1>7. LevelOrdered(model', queue')
  BY <1>1, <1>2, ModelCheckable, OrderedTail DEF SearchIInv
<1>8. ~Cut' => Covered'
  <2>1. \A x \in Alike(Members(queue)) : x \in Seen' \cup Alike(Members(queue))'
    BY <1>1, <1>3, <1>4 DEF Alike, Seen
  <2> QED BY <1>1, <1>5, <2>1 DEF SearchIInv, Covered
<1>9. DeadlocksFound' /\ RacesFound' /\ CompleteFound'
  BY <1>1, <1>5 DEF SearchIInv, DeadlocksFound, RacesFound, CompleteFound, KeyIsExact
<1>10. VerdictFollows'
  BY <1>1 DEF VerdictFollows
<1> QED BY <1>6, <1>7, <1>8, <1>9, <1>10 DEF SearchIInv

\* Complete states are on the last level: everything else is explored by then.
LEMMA ExploreCompleteStep ==
    ASSUME SearchIInv, ExploreComplete
    PROVE  SearchIInv'
<1> DEFINE s == Head(queue)
<1>1. /\ Explore(s) /\ IsComplete(model, s) /\ complete' = complete + 1 /\ queue' = Tail(queue)
      /\ model' = model /\ args' = args /\ deadlocks' = deadlocks /\ races' = races /\ result' = result
  BY DEF ExploreComplete
<1>2. s = Head(queue)
  OBVIOUS
<1> HIDE DEF s
<1>3. /\ Checkable(model) /\ model \in Models /\ s \in Reachable(model) /\ s \notin Seen
      /\ Seen' = Seen \cup Alike({s}) /\ s \in Alike({s})
      /\ ~result.done /\ ~Cut /\ IsFiniteSet(visited')
      /\ visited' \subseteq {Key(x)' : x \in Reachable(model')}
      /\ explored' = Cardinality(visited') /\ explored' <= args.maxStates
      /\ \A x \in Reachable(model) : Depth(model, x) < Depth(model, s) => x \in Seen
  BY <1>1, <1>2, ExploreFacts
<1>4. EnabledTasks(model, s) = {}
  BY <1>1 DEF IsComplete, EnabledTasks
<1>5. queue' \in Seq(Reachable(model)) /\ LevelOrdered(model', queue') /\ Covered' /\ RacesFound'
  BY <1>1, <1>2, <1>4, QuietAfter
<1>6. complete \in Nat /\ (args.cursorOnly \/ OneAccumulator(model) => complete = 0)
  <2>1. ASSUME args.cursorOnly \/ OneAccumulator(model), NEW x \in Seen, IsComplete(model, x)
        PROVE  FALSE
    <3>1. x \in Reachable(model) /\ Key(x) \in visited
      BY DEF Seen
    <3>2. Sound(model, x) /\ Sound(model, s)
      BY <1>3, <3>1, ReachableStates
    <3>3. x.cursors = s.cursors
      BY <1>1, <1>3, <2>1, <3>2, SoundDepth
    <3>4. Key(x) = Key(s)
      BY <2>1, <3>2, <3>3, CursorsDetermine DEF Key
    <3> QED BY <1>3, <3>1, <3>4 DEF Seen
  <2>2. complete \in Nat
    BY DEF SearchIInv, SearchTypes
  <2>3. args.cursorOnly \/ OneAccumulator(model) => ~(complete > 0)
    BY <2>1 DEF SearchIInv, CompleteFound
  <2> QED BY <2>2, <2>3
<1>7. SearchTypes'
  <2>1. complete' \in Nat /\ (args.cursorOnly \/ OneAccumulator(model) => complete' <= 1)
    BY <1>1, <1>6
  <2> QED BY <1>1, <1>3, <1>5, <2>1 DEF SearchIInv, SearchTypes
<1>8. DeadlocksFound'
  <2>1. ~IsDeadlock(model, s)
    BY <1>1 DEF IsDeadlock
  <2> QED BY <1>1, <1>3, <2>1, DeadlocksAfter DEF SearchIInv
<1>9. CompleteFound'
  <2>1. ASSUME NEW x \in Reachable(model), ~IsComplete(model, x) PROVE x \in Seen'
    <3>1. Depth(model, x) < Depth(model, s)
      <4>1. /\ Depth(model, x) \in 0..Cardinality(AllSteps(model)) /\ Cardinality(AllSteps(model)) \in Nat
            /\ Depth(model, x) # Cardinality(AllSteps(model))
        BY <1>3, <2>1, ReachableDepth
      <4>2. Depth(model, s) = Cardinality(AllSteps(model))
        BY <1>1, <1>3, ReachableDepth
      <4> QED BY <4>1, <4>2
    <3> QED BY <1>3, <3>1
  <2>2. complete' > 0
    BY <1>1, <1>6
  <2>3. \E x \in Seen' : IsComplete(model, x)
    BY <1>1, <1>3
  <2> QED BY <1>1, <2>1, <2>2, <2>3 DEF CompleteFound
<1>10. VerdictFollows'
  BY <1>1, <1>3 DEF VerdictFollows
<1> QED BY <1>5, <1>7, <1>8, <1>9, <1>10 DEF SearchIInv

\* Leaving at the first race cuts the search.
LEMMA ExploreRaceExitStep ==
    ASSUME SearchIInv, ExploreRaceExit
    PROVE  SearchIInv'
<1> DEFINE s == Head(queue)
           t == CHOOSE t \in RacingTasks(model, s) : \A u \in RacingTasks(model, s) : t <= u
<1>1. /\ Explore(s) /\ args.earlyExit /\ RacingTasks(model, s) # {} /\ queue' = Tail(queue)
      /\ races' = races \cup {<<s.cursors, t>>} /\ result' = Result(FALSE, FALSE)
      /\ model' = model /\ args' = args /\ complete' = complete /\ deadlocks' = deadlocks
  BY DEF ExploreRaceExit
<1>2. s = Head(queue)
  OBVIOUS
<1>3. t \in RacingTasks(model, s)
  <2>1. RacingTasks(model, s) \subseteq DOMAIN model.steps
    BY DEF RacingTasks, EnabledTasks, Unfinished
  <2>2. DOMAIN model.steps \subseteq Nat
    BY ModelsAssumption DEF SearchIInv, SearchTypes, WellFormedModel
  <2>3. \E v \in RacingTasks(model, s) : \A u \in RacingTasks(model, s) : v <= u
    <3> DEFINE S == RacingTasks(model, s)
    <3>1. S \in SUBSET Nat /\ S # {}
      BY <1>1, <2>1, <2>2
    <3> HIDE DEF S
    <3>2. \E v \in S : \A u \in S : v <= u
      BY <3>1, LeastNat
    <3> QED BY <3>2 DEF S
  <2> QED BY <2>3
<1> HIDE DEF s, t
<1>4. /\ Checkable(model) /\ model \in Models /\ s \in Reachable(model)
      /\ Seen' = Seen \cup Alike({s}) /\ s \in Alike({s})
      /\ ~Cut /\ queue # <<>> /\ queue \in Seq(Reachable(model)) /\ IsFiniteSet(visited')
      /\ visited' \subseteq {Key(x)' : x \in Reachable(model')}
      /\ explored' = Cardinality(visited') /\ explored' <= args.maxStates
  BY <1>1, <1>2, ExploreFacts
<1>5. Tail(queue) \in Seq(Reachable(model)) /\ LevelOrdered(model, Tail(queue))
  BY <1>4, Popped, OrderedTail DEF SearchIInv
<1>6. result'.done /\ result'.safe = FALSE
      /\ result' \in [done : {TRUE}, safe : BOOLEAN, hitLimit : BOOLEAN]
  BY <1>1 DEF Result
<1>7. Cut'
  BY <1>1, <1>6 DEF Cut
<1>8. SearchTypes'
  BY <1>1, <1>4, <1>5, <1>6 DEF SearchIInv, SearchTypes
<1>9. RacesFound'
  BY <1>1, <1>3, <1>4, <1>7, RacesAfter DEF SearchIInv
<1>10. EnabledTasks(model, s) # {} /\ Unfinished(model, s.cursors) # {}
  BY <1>3 DEF RacingTasks, EnabledTasks
<1>11. ~IsDeadlock(model, s) /\ ~IsComplete(model, s)
  BY <1>10 DEF IsDeadlock, IsComplete
<1>12. DeadlocksFound' /\ CompleteFound'
  BY <1>1, <1>4, <1>11, DeadlocksAfter, CompleteAfter DEF SearchIInv
<1>13. VerdictFollows'
  BY <1>1, <1>6, <1>7 DEF VerdictFollows
<1> QED BY <1>1, <1>5, <1>7, <1>8, <1>9, <1>12, <1>13 DEF SearchIInv

\* Exploring a state queues its successors behind its own level.
LEMMA ExploreSuccessorsStep ==
    ASSUME SearchIInv, ExploreSuccessors
    PROVE  SearchIInv'
<1> DEFINE s == Head(queue)
           L == SuccessorList(model, s)
<1>1. /\ Explore(s) /\ EnabledTasks(model, s) # {} /\ queue' = Tail(queue) \o L
      /\ races' = races \cup {<<s.cursors, t>> : t \in RacingTasks(model, s)}
      /\ model' = model /\ args' = args /\ complete' = complete /\ deadlocks' = deadlocks
      /\ result' = result
  BY DEF ExploreSuccessors
<1>2. s = Head(queue) /\ L = SuccessorList(model, s)
  OBVIOUS
<1> HIDE DEF s, L
<1>3. /\ Checkable(model) /\ model \in Models /\ s \in Reachable(model)
      /\ Seen' = Seen \cup Alike({s}) /\ s \in Alike({s})
      /\ ~result.done /\ ~Cut /\ queue # <<>> /\ queue \in Seq(Reachable(model)) /\ IsFiniteSet(visited')
      /\ visited' \subseteq {Key(x)' : x \in Reachable(model')}
      /\ explored' = Cardinality(visited') /\ explored' <= args.maxStates
  BY <1>1, <1>2, ExploreFacts
<1>4. /\ L \in Seq(Reachable(model))
      /\ \A i \in 1..Len(L) : Depth(model, L[i]) = Depth(model, s) + 1
      /\ \A t \in EnabledTasks(model, s) : \E i \in 1..Len(L) : L[i] = Successor(model, s, t)
  BY <1>2, <1>3, SuccessorsListed
<1>5. /\ Tail(queue) \in Seq(Reachable(model))
      /\ Members(queue) = {s} \cup Members(Tail(queue))
  BY <1>2, <1>3, Popped
<1>6. queue' \in Seq(Reachable(model)) /\ Members(queue') = Members(Tail(queue)) \cup Members(L)
  <2> DEFINE r == Tail(queue)
  <2>1. r \in Seq(Reachable(model))
    BY <1>5
  <2> HIDE DEF r
  <2>2. r \o L \in Seq(Reachable(model)) /\ Members(r \o L) = Members(r) \cup Members(L)
    BY <1>4, <2>1, Appended
  <2> QED BY <1>1, <2>2 DEF r
<1>7. LevelOrdered(model', queue')
  <2>1. LevelOrdered(model, Tail(queue) \o L)
    BY <1>2, <1>3, <1>4, OrderedAppend DEF SearchIInv
  <2> QED BY <1>1, <2>1
<1>8. Covered'
  <2>1. \A t \in EnabledTasks(model, s) : Successor(model, s, t) \in Members(L)
    BY <1>4 DEF Members
  <2> QED BY <1>1, <1>3, <1>5, <1>6, <2>1, CoveredAfter DEF SearchIInv
<1>9. SearchTypes'
  BY <1>1, <1>3, <1>6 DEF SearchIInv, SearchTypes
<1>10. RacesFound'
  BY <1>1, <1>3, RacesAfter DEF SearchIInv
<1>11. ~IsDeadlock(model, s) /\ ~IsComplete(model, s)
  BY <1>1 DEF IsDeadlock, IsComplete, EnabledTasks
<1>12. DeadlocksFound' /\ CompleteFound'
  BY <1>1, <1>3, <1>11, DeadlocksAfter, CompleteAfter DEF SearchIInv
<1>13. VerdictFollows'
  BY <1>1, <1>3 DEF VerdictFollows
<1> QED BY <1>7, <1>8, <1>9, <1>10, <1>12, <1>13 DEF SearchIInv

\* A state without enabled task is reported, and ends an early_exit search.
LEMMA ExploreDeadlockStep ==
    ASSUME SearchIInv, ExploreDeadlock
    PROVE  SearchIInv'
<1> DEFINE s == Head(queue)
<1>1. /\ Explore(s) /\ IsDeadlock(model, s) /\ queue' = Tail(queue)
      /\ deadlocks' = deadlocks \cup {s.cursors}
      /\ result' = IF args.earlyExit THEN Verdict(deadlocks', queue', explored') ELSE result
      /\ model' = model /\ args' = args /\ complete' = complete /\ races' = races
  BY DEF ExploreDeadlock
<1>2. s = Head(queue)
  OBVIOUS
<1> HIDE DEF s
<1>3. /\ Checkable(model) /\ model \in Models /\ s \in Reachable(model)
      /\ Seen' = Seen \cup Alike({s}) /\ s \in Alike({s})
      /\ ~result.done /\ ~Cut /\ IsFiniteSet(visited')
      /\ visited' \subseteq {Key(x)' : x \in Reachable(model')}
      /\ explored' = Cardinality(visited') /\ explored' <= args.maxStates
  BY <1>1, <1>2, ExploreFacts
<1>4. EnabledTasks(model, s) = {} /\ ~IsComplete(model, s)
  BY <1>1 DEF IsDeadlock
<1>5. queue' \in Seq(Reachable(model)) /\ LevelOrdered(model', queue') /\ Covered' /\ RacesFound'
  BY <1>1, <1>2, <1>4, QuietAfter
<1>6. DeadlocksFound' /\ CompleteFound'
  BY <1>1, <1>3, <1>4, DeadlocksAfter, CompleteAfter DEF SearchIInv
<1>7. CASE args.earlyExit
  <2>1. /\ result'.done /\ (result'.safe <=> deadlocks' = {} /\ races' = {} /\ complete' > 0)
        /\ result' \in [done : {TRUE}, safe : BOOLEAN, hitLimit : BOOLEAN]
    BY <1>1, <1>7 DEF Verdict, Result
  <2>2. Cut'
    BY <1>1, <1>7, <2>1 DEF Cut
  <2>3. SearchTypes'
    BY <1>1, <1>3, <1>5, <2>1 DEF SearchIInv, SearchTypes
  <2>4. VerdictFollows'
    BY <2>1, <2>2 DEF VerdictFollows
  <2> QED BY <1>5, <1>6, <2>2, <2>3, <2>4 DEF SearchIInv
<1>8. CASE ~args.earlyExit
  <2>1. result' = result
    BY <1>1, <1>8
  <2>2. SearchTypes'
    BY <1>1, <1>3, <1>5, <2>1 DEF SearchIInv, SearchTypes
  <2>3. VerdictFollows'
    BY <1>3, <2>1 DEF VerdictFollows
  <2> QED BY <1>5, <1>6, <2>2, <2>3 DEF SearchIInv
<1> QED BY <1>7, <1>8

\* The verdict is drawn when the queue is empty or the limit reached.
LEMMA FinishStep ==
    ASSUME SearchIInv, Finish
    PROVE  SearchIInv'
<1>1. /\ ~result.done /\ ~Searching /\ result' = Verdict(deadlocks, queue, explored)
      /\ model' = model /\ args' = args /\ queue' = queue /\ visited' = visited
      /\ explored' = explored /\ complete' = complete /\ deadlocks' = deadlocks /\ races' = races
  BY DEF Finish
<1>2. /\ result'.done /\ (result'.safe <=> deadlocks = {} /\ races = {} /\ complete > 0)
      /\ result' \in [done : {TRUE}, safe : BOOLEAN, hitLimit : BOOLEAN]
  BY <1>1 DEF Verdict, Result
<1>3. \A x : Key(x)' = Key(x)
  BY <1>1 DEF Key
<1>4. Seen' = Seen /\ ~Cut
  BY <1>1, <1>3 DEF Seen, Cut
<1>5. SearchTypes'
  BY <1>1, <1>2, <1>3 DEF SearchIInv, SearchTypes
<1>6. LevelOrdered(model', queue') /\ Covered'
  <2>1. Alike(Members(queue))' = Alike(Members(queue))
    BY <1>1, <1>3 DEF Alike
  <2> QED BY <1>1, <1>4, <2>1 DEF SearchIInv, Covered
<1>7. DeadlocksFound' /\ RacesFound' /\ CompleteFound'
  BY <1>1, <1>4 DEF SearchIInv, DeadlocksFound, RacesFound, CompleteFound, KeyIsExact
<1>8. queue = <<>> \/ explored >= args.maxStates
  <2>1. explored \in Nat /\ args.maxStates \in Nat
    BY ArgsAssumption, FS_CardinalityType DEF SearchIInv, SearchTypes
  <2> QED BY <1>1, <2>1 DEF Searching
<1>9. VerdictFollows'
  BY <1>1, <1>2, <1>8 DEF VerdictFollows
<1> QED BY <1>5, <1>6, <1>7, <1>9 DEF SearchIInv

\* Every step of the search preserves the invariant.
LEMMA SearchIInvStep ==
    ASSUME SearchIInv, [SearchNext]_searchVars
    PROVE  SearchIInv'
<1>1. CASE UNCHANGED searchVars
  <2>1. /\ model' = model /\ args' = args /\ queue' = queue /\ visited' = visited
        /\ explored' = explored /\ complete' = complete /\ deadlocks' = deadlocks
        /\ races' = races /\ result' = result
    BY <1>1 DEF searchVars
  <2>2. \A x : Key(x)' = Key(x)
    BY <2>1 DEF Key
  <2>3. Seen' = Seen /\ Cut' = Cut
    BY <2>1, <2>2 DEF Seen, Cut
  <2>4. SearchTypes' /\ LevelOrdered(model', queue') /\ (~Cut' => Covered')
    <3>1. Alike(Members(queue))' = Alike(Members(queue))
      BY <2>1, <2>2 DEF Alike
    <3> QED BY <2>1, <2>2, <2>3, <3>1 DEF SearchIInv, SearchTypes, Covered
  <2>5. DeadlocksFound' /\ RacesFound' /\ CompleteFound' /\ VerdictFollows'
    BY <2>1, <2>3 DEF SearchIInv, DeadlocksFound, RacesFound, CompleteFound, VerdictFollows, KeyIsExact
  <2> QED BY <2>4, <2>5 DEF SearchIInv
<1> QED
  BY <1>1, SkipVisitedStep, ExploreCompleteStep, ExploreRaceExitStep, ExploreSuccessorsStep,
     ExploreDeadlockStep, FinishStep DEF SearchNext, Returned

\* The invariant holds throughout every search.
LEMMA SearchInvariant == SearchSpec => []SearchIInv
<1>1. SearchInit => SearchIInv
  BY SearchIInvInit
<1>2. SearchIInv /\ [SearchNext]_searchVars => SearchIInv'
  BY SearchIInvStep
<1> QED BY <1>1, <1>2, PTL DEF SearchSpec

\* The bookkeeping of check_all_interleavings (SearchInv), for every model it
\* accepts: the counters agree with the visited keys, the limit is kept, a complete
\* state is counted once per key, and with the shared state spelled out in the key
\* two explored states with the same cursors have the same barriers, and the same
\* holds too unless two resources' commits cover one operand: all that the default
\* cursor-only key can lose are holds of such an operand.
THEOREM SearchIsConsistent == SearchSpec => []SearchInv
<1>1. SearchIInv => SearchInv
  <2> SUFFICES ASSUME SearchIInv PROVE SearchInv
    OBVIOUS
  <2>1. /\ model \in Models /\ queue \in Seq(Reachable(model))
        /\ visited \subseteq {Key(s) : s \in Reachable(model)}
    BY DEF SearchIInv, SearchTypes
  <2>2. \A s \in Reachable(model) : Sound(model, s)
    BY <2>1, ModelCheckable, ReachableStates
  <2>3. \A i \in DOMAIN queue : DOMAIN queue[i].cursors = DOMAIN model.steps
                                /\ DOMAIN queue[i].barriers = Records(model)
    <3> SUFFICES ASSUME NEW i \in DOMAIN queue
                 PROVE  /\ DOMAIN queue[i].cursors = DOMAIN model.steps
                        /\ DOMAIN queue[i].barriers = Records(model)
      OBVIOUS
    <3>1. Sound(model, queue[i])
      BY <2>1, <2>2
    <3> QED BY <3>1 DEF Sound, InRange, BarrierVectors
  <2>4. SearchTypeOK
    BY <2>3 DEF SearchTypeOK, SearchIInv, SearchTypes
  <2>5. ASSUME ~args.cursorOnly, NEW a \in visited, NEW b \in visited, a.cursors = b.cursors
        PROVE  a.barriers = b.barriers /\ (OneAccumulator(model) => a = b)
    <3>1. a \in Reachable(model) /\ b \in Reachable(model)
      BY <2>1, <2>5 DEF Key
    <3> QED BY <2>2, <2>5, <3>1, CursorsDetermine
  <2> QED BY <2>4, <2>5 DEF SearchInv, CursorsDetermineState
<1> QED BY <1>1, SearchInvariant, PTL

\* A deadlocked or racing state is not complete.
LEMMA NotComplete ==
    ASSUME NEW m, NEW s, IsDeadlock(m, s) \/ RacingTasks(m, s) # {}
    PROVE  ~IsComplete(m, s)
BY DEF IsDeadlock, RacingTasks, EnabledTasks, IsComplete

\* A safe verdict of check_all_interleavings covers every interleaving
\* (SafeMeansEveryInterleaving), even when the search stopped at max_states: the
\* complete state it needs is on the last level, and the search is breadth first.
\* For deadlocks this holds of every model and whatever the visited key; for races
\* it holds of every model under cursor_only_visited=False, and under the default
\* key of the models in which no operand is covered by two resources' commits.
THEOREM SafeVerdictsAreSound == SearchSpec => []SafeMeansEveryInterleaving
<1>1. SearchIInv => SafeMeansEveryInterleaving
  <2> SUFFICES ASSUME SearchIInv, result.done, result.safe
               PROVE  DeadlockStates(model) = {} /\ (KeyIsExact => RaceStates(model) = {})
    BY DEF SafeMeansEveryInterleaving
  <2>1. deadlocks = {} /\ races = {} /\ complete > 0
    BY DEF SearchIInv, VerdictFollows
  <2>2. ~Cut
    BY <2>1 DEF Cut
  <2>3. \A s \in Reachable(model) : ~IsComplete(model, s) => s \in Seen
    BY <2>1 DEF SearchIInv, CompleteFound
  <2>4. ASSUME NEW s \in DeadlockStates(model) PROVE FALSE
    <3>1. s \in Reachable(model) /\ IsDeadlock(model, s)
      BY DEF DeadlockStates
    <3>2. s \in Seen
      BY <2>3, <3>1, NotComplete
    <3> QED BY <2>1, <3>1, <3>2 DEF SearchIInv, DeadlocksFound
  <2>5. ASSUME KeyIsExact, NEW s \in RaceStates(model) PROVE FALSE
    <3>1. s \in Reachable(model) /\ RacingTasks(model, s) # {}
      BY DEF RaceStates
    <3>2. s \in Seen
      BY <2>3, <3>1, NotComplete
    <3> QED BY <2>1, <2>2, <2>5, <3>1, <3>2 DEF SearchIInv, RacesFound
  <2> QED BY <2>4, <2>5
<1> QED BY <1>1, SearchInvariant, PTL

\* Every deadlock and race check_all_interleavings reports, of whatever model and
\* under whichever visited key, is one some interleaving runs into, and an unsafe verdict the limit does not excuse reports one
\* (WitnessesAreReal).
THEOREM VerdictsHaveWitnesses == SearchSpec => []WitnessesAreReal
<1>1. SearchIInv => WitnessesAreReal
  <2> SUFFICES ASSUME SearchIInv, result.done PROVE WitnessesAreReal
    BY DEF WitnessesAreReal
  <2>1. Seen \subseteq Reachable(model)
    BY DEF Seen
  <2>2. deadlocks \subseteq {s.cursors : s \in DeadlockStates(model)}
    BY <2>1 DEF SearchIInv, DeadlocksFound, DeadlockStates
  <2>3. ASSUME NEW r \in races
        PROVE  \E s \in RaceStates(model) : s.cursors = r[1] /\ r[2] \in RacingTasks(model, s)
    <3>1. PICK s \in Seen : \E t \in RacingTasks(model, s) : r = <<s.cursors, t>>
      BY DEF SearchIInv, RacesFound
    <3>2. s \in RaceStates(model)
      BY <2>1, <3>1 DEF RaceStates
    <3> QED BY <3>1, <3>2
  <2>4. ASSUME ~result.safe, explored < args.maxStates, deadlocks \cup races = {} PROVE FALSE
    <3>1. ~Cut /\ deadlocks = {} /\ races = {}
      BY <2>4 DEF Cut
    <3>2. model \in Models /\ explored \in Nat /\ args.maxStates \in Nat
      BY ArgsAssumption, FS_CardinalityType DEF SearchIInv, SearchTypes
    <3>3. queue = <<>> /\ ~(complete > 0)
      BY <2>4, <3>1, <3>2 DEF SearchIInv, VerdictFollows
    <3>4. Seen = Reachable(model)
      BY <3>1, <3>2, <3>3, AllExplored DEF SearchIInv, SearchTypes
    <3>5. DeadlockStates(model) = {}
      BY <3>1, <3>4 DEF DeadlockStates, SearchIInv, DeadlocksFound
    <3>6. \E s \in Reachable(model) : IsComplete(model, s)
      BY <3>2, <3>5, ModelCheckable, SomeComplete
    <3> QED BY <3>3, <3>4, <3>6 DEF SearchIInv, CompleteFound
  <2> QED BY <2>2, <2>3, <2>4 DEF WitnessesAreReal
<1> QED BY <1>1, SearchInvariant, PTL

\* Without early_exit and below max_states check_all_interleavings reports exactly
\* the deadlocks of all interleavings, although it drops every state that arrives at
\* a visited key, and exactly their racing steps when that key loses no holds
\* (NothingMissedWithoutEarlyExit).
THEOREM FullSearchMissesNothing == SearchSpec => []NothingMissedWithoutEarlyExit
<1>1. SearchIInv => NothingMissedWithoutEarlyExit
  <2> SUFFICES ASSUME SearchIInv, result.done, ~args.earlyExit, explored < args.maxStates
               PROVE  /\ deadlocks = {s.cursors : s \in DeadlockStates(model)}
                      /\ KeyIsExact => races = UNION {{<<s.cursors, t>> : t \in RacingTasks(model, s)} :
                                                         s \in RaceStates(model)}
    BY DEF NothingMissedWithoutEarlyExit
  <2>1. ~Cut
    BY DEF Cut
  <2>2. model \in Models /\ explored \in Nat /\ args.maxStates \in Nat
    BY ArgsAssumption, FS_CardinalityType DEF SearchIInv, SearchTypes
  <2>3. queue = <<>>
    BY <2>1, <2>2 DEF SearchIInv, VerdictFollows
  <2>4. Seen = Reachable(model)
    BY <2>1, <2>2, <2>3, AllExplored DEF SearchIInv, SearchTypes
  <2>5. deadlocks = {s.cursors : s \in DeadlockStates(model)}
    BY <2>4 DEF SearchIInv, DeadlocksFound, DeadlockStates
  <2>6. ASSUME KeyIsExact, NEW r
        PROVE  r \in races <=>
                 \E s \in Reachable(model) : \E t \in RacingTasks(model, s) : r = <<s.cursors, t>>
    BY <2>1, <2>4, <2>6 DEF SearchIInv, RacesFound
  <2>7. ASSUME NEW r
        PROVE  r \in UNION {{<<s.cursors, t>> : t \in RacingTasks(model, s)} : s \in RaceStates(model)} <=>
                 \E s \in Reachable(model) : \E t \in RacingTasks(model, s) : r = <<s.cursors, t>>
    BY DEF RaceStates
  <2> QED BY <2>5, <2>6, <2>7
<1> QED BY <1>1, SearchInvariant, PTL
====
