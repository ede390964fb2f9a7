---- MODULE ScheduleExpansion ----
(***************************************************************************)
(* What the exhaustive checker makes of a captured schedule                *)
(* (task_scheduling/exhaustive_checker.py): the opaque conditions of all   *)
(* tasks are given values, one assignment per class that no guard can tell *)
(* apart and one history of assignments per while loop, and each task is   *)
(* flattened into the operations it performs under them.                   *)
(*                                                                         *)
(* The schedule under capture (ScheduleBuilder) is the first task; the     *)
(* others are given and have no while loop.  Left out: the phase tags of   *)
(* the printed trace.                                                      *)
(***************************************************************************)
EXTENDS ScheduleBuilder

CONSTANTS
    Partners,       \* bodies of the other tasks' schedules
    Representative, \* exhaustive_representative_domain
    NumTiles        \* num_tiles of check_all_interleavings

ASSUME ExpansionAssumption ==
    Representative \in BOOLEAN /\ NumTiles \in Nat

\* A bound of a domain loop that is known on the device only.
Dynamic == None

Tasks == <<stack[1].body>> \o Partners
PartnerNodes == UNION {Children(Partners[t]) : t \in DOMAIN Partners}
AllNodes == Children(stack[1].body) \cup PartnerNodes

----
(* Guards. *)

RECURSIVE GuardFires(_, _, _, _)
GuardFires(g, i, n, a) ==
    CASE g.kind = "first"  -> i = 0
      [] g.kind = "last"   -> n > 0 /\ i = n - 1
      [] g.kind = "every"  -> i >= g.start /\ (i - g.start) % g.period = 0
      [] g.kind = "not"    -> ~GuardFires(g.arg, i, n, a)
      [] g.kind = "opaque" -> a[g.key] # g.negated
      [] g.kind = "and"    -> \A j \in DOMAIN g.args : GuardFires(g.args[j], i, n, a)
      [] g.kind = "or"     -> \E j \in DOMAIN g.args : GuardFires(g.args[j], i, n, a)

\* _clause_holds
Holds(clause, a) == \A j \in DOMAIN clause : GuardFires(clause[j], 0, 0, a)

----
(* Domain loops. *)

\* A mistake: the fallback does not exceed the largest start.
FallbackAtStart ==
    LET starts == {n.bounds.start : n \in {m \in AllNodes : m.kind = "domain"}} \ {Dynamic}
    IN  IF starts = {} THEN 1 ELSE Max(starts)

\* dynamic_domain_fallback_for
Fallback ==
    LET starts == {n.bounds.start : n \in {m \in AllNodes : m.kind = "domain"}} \ {Dynamic}
    IN  IF starts = {} THEN 1 ELSE Max(starts) + 1

Bound(value, fallback) == IF value = Dynamic THEN fallback ELSE value

\* _domain_trip_count: the length of range(start, end, step)
TripCount(b) ==
    LET start == Bound(b.start, 0)
        end   == IF Representative THEN Fallback ELSE Bound(b.end, Fallback)
        step  == Bound(b.step, 1)
    IN  IF end <= start THEN 0 ELSE (end - start + step - 1) \div step

----
(* expand_task.  c is the place an emit call is in: the assignment, the iteration,    *)
(* whether tiles are skipped (skipped_tile) and whether this one is; history is the rounds of the while loop, <<>> if the  *)
(* task is given a plain assignment.  emit keeps `count` in a variable of its own,    *)
(* which a domain loop overwrites.                                                    *)

Nothing(count) == [ops |-> <<>>, broke |-> FALSE, count |-> count, error |-> "none",
                   entered |-> {}]

Stopped(e) == e.broke \/ e.error # "none"

\* The emissions of e and then of f, which leave the variable of e's call alone.
Then(e, f) == [e EXCEPT !.ops = @ \o f.ops, !.error = f.error, !.entered = @ \cup f.entered]

\* _WHILE_RETRY_PROGRESS_STAGES: every stage but auxiliary work
Progresses(ops) == \E i \in DOMAIN ops : ops[i].stage # "aux"

RECURSIVE Emit(_, _, _, _)

\* One round of a while loop: a modelled history must break in its last round and
\* in no other, and a retry must do something.
EmitRound(e, node, c, history, i) ==
    LET f == Emit(node.body, [asg |-> history[i], iteration |-> i - 1, tile |-> c.tile, skipped |-> FALSE],
                  Len(history), history)
    IN  Then(e, [f EXCEPT !.error =
            CASE @ # "none"                            -> @
              [] i = Len(history) /\ ~f.broke          -> "no_break"
              [] i < Len(history) /\ f.broke           -> "early_break"
              [] i < Len(history) /\ ~Progresses(f.ops) -> "no_progress"
              [] OTHER                                 -> "none"])

\* emit_while
EmitWhile(e, node, c, history) ==
    IF history = <<>>
    THEN Then(e, Emit(node.body, [c EXCEPT !.iteration = 0, !.skipped = FALSE], 1, history))
    ELSE FoldLeft(LAMBDA acc, i : IF acc.error # "none" THEN acc
                                  ELSE EmitRound(acc, node, c, history, i),
                  e, [i \in DOMAIN history |-> i])

\* The iterations of a domain loop; a break ends the loop and nothing else.
EmitDomain(e, node, c, n, history) ==
    LET run == FoldLeft(LAMBDA acc, i :
                   IF Stopped(acc) THEN acc
                   ELSE LET f == Emit(node.body, [c EXCEPT !.iteration = i - 1], n, history)
                        IN  [Then(acc, f) EXCEPT !.broke = f.broke],
                   Nothing(n), [i \in 1..n |-> i])
    IN  [Then(e, run) EXCEPT !.count = n]

EmitTiles(e, node, c, history) ==
    FoldLeft(LAMBDA acc, i : IF Stopped(acc) THEN acc
                 ELSE Then(acc, Emit(node.body, [c EXCEPT !.skipped = c.tile],
                                     acc.count, history)),
             e, [i \in 1..NumTiles |-> i])

EmitBlock(e, node, c, history) ==
    LET f == Emit(node.body, c, e.count, history)
    IN  [Then(e, f) EXCEPT !.broke = f.broke, !.entered = @ \cup {node}]

Active(node, e, c) ==
    IF node.guard.kind = "skippable" THEN ~c.skipped
    ELSE GuardFires(node.guard, c.iteration, e.count, c.asg)

EmitNode(e, node, c, history) ==
    CASE node.kind = "break" -> [e EXCEPT !.broke = TRUE]
      [] node.kind = "step" /\ node.stage = "advance" -> e
      [] node.kind = "step" /\ node.stage # "advance" -> [e EXCEPT !.ops = Append(@, node)]
      [] node.kind = "domain" /\ ~c.skipped ->
             EmitDomain(e, node, c, TripCount(node.bounds), history)
      [] node.kind = "while" /\ ~c.skipped -> EmitWhile(e, node, c, history)
      [] node.kind = "tiles" -> EmitTiles(e, node, c, history)
      [] node.kind = "cond" /\ Active(node, e, c) -> EmitBlock(e, node, c, history)
      [] OTHER -> e

Emit(body, c, count, history) ==
    FoldLeft(LAMBDA e, node : IF Stopped(e) THEN e ELSE EmitNode(e, node, c, history),
             Nothing(count), body)

\* A task under an assignment, or under a history, whose last round guards outside
\* the while loop observe.
Expand(body, v, a) ==
    Emit(body, [asg |-> a, iteration |-> 0, tile |-> v, skipped |-> FALSE], 0, <<>>)
ExpandHistory(body, v, h) ==
    Emit(body, [asg |-> h[Len(h)], iteration |-> 0, tile |-> v, skipped |-> FALSE], 0, h)

----
(* Opaque assignments. *)

Conditions == {n \in AllNodes : n.kind = "cond"}

\* collect_opaque_keys
Keys == {l.key : l \in {m \in UNION {Leaves(n.guard) : n \in Conditions} : m.kind = "opaque"}}
Assignments == [Keys -> BOOLEAN]

\* The guards below a node with the iterations they are evaluated at.
RECURSIVE Contexts(_, _)
Contexts(body, contexts) ==
    UNION {CASE body[i].kind \in {"step", "break"} -> {}
             [] body[i].kind = "domain" -> LET n == TripCount(body[i].bounds)
                    IN  Contexts(body[i].body, {<<j, n>> : j \in 0..(n - 1)})
             [] body[i].kind = "cond" /\ body[i].guard.kind # "skippable" ->
                    ({body[i].guard} \X contexts) \cup Contexts(body[i].body, contexts)
             [] OTHER -> Contexts(body[i].body, contexts) : i \in DOMAIN body}

\* collect_guard_observations: of the contexts in which a guard's iteration leaves
\* agree one is kept.
LeafValues(o) ==
    {<<l, GuardFires(l, o[2][1], o[2][2], <<>>)>> : l \in {m \in Leaves(o[1]) : IsIteration(m)}}

\* A mistake: guards are observed in the first iteration of their loop only.
ObservationsOfFirst ==
    {o \in UNION {Contexts(Tasks[t], {<<0, 0>>}) : t \in DOMAIN Tasks} : o[2][1] = 0}

Observations ==
    LET all == UNION {Contexts(Tasks[t], {<<0, 0>>}) : t \in DOMAIN Tasks}
    IN  {CHOOSE o \in all : o[1] = k[1] /\ LeafValues(o) = k[2] :
             k \in {<<o[1], LeafValues(o)>> : o \in all}}

\* _all_opaque_assignments: the first assignment of each class, counting from all
\* false upwards; every assignment if no guard is observed.
Signature(observations, a) ==
    {o \in observations : GuardFires(o[1], o[2][1], o[2][2], a)}
Rank(keys, a) == FoldLeft(LAMBDA r, k : 2 * r + (IF a[k] THEN 1 ELSE 0), 0, keys)
Representatives ==
    LET observations == Observations
        keys         == SetToSeq(Keys)
        all          == Assignments
        signature    == [a \in all |-> Signature(observations, a)]
    IN  {a \in all : observations = {} \/
            \A b \in all : signature[a] = signature[b] => Rank(keys, a) <= Rank(keys, b)}

----
(* Histories of a while loop. *)

\* find_while_true_loop
WhileLoops(body) == {n \in Children(body) : n.kind = "while"}

\* _fire_count_hints: the guards around each block with an assertion, and its count.
RECURSIVE FireHints(_, _)
FireHints(body, chain) ==
    UNION {LET n     == body[i]
               inner == IF n.guard.kind = "skippable" THEN chain ELSE Append(chain, n.guard)
           IN  (IF n.fires = None THEN {} ELSE {<<inner, n.fires>>}) \cup FireHints(n.body, inner)
           : i \in {j \in DOMAIN body : body[j].kind = "cond"}}

Breaks(loop, a) == \E clause \in BreakClauses(loop.body, <<>>) : Holds(clause, a)

\* verify_num_fires counts the rounds in which the guards hold.
MeetsHints(loop, h) ==
    \A hint \in FireHints(loop.body, <<>>) :
        Cardinality({i \in DOMAIN h : Holds(hint[1], h[i])}) = hint[2]

\* The histories of n rounds that end in a break of the given assignments, all of
\* them retries before.
HistoriesOf(loop, from, n) ==
    LET breaks  == {a \in from : Breaks(loop, a)}
        retries == {a \in from : ~Breaks(loop, a)}
    IN  {h \in {Append(r, b) : r \in [1..(n - 1) -> retries], b \in breaks} : MeetsHints(loop, h)}

Counts(loop) == {loop.rounds[i] : i \in DOMAIN loop.rounds}

\* _while_task_sequences raises ValueError: there is nothing to model.
Unsatisfiable(loop, from) ==
    LET breaks == {a \in from : Breaks(loop, a)}
    IN  \/ breaks = {}
        \/ breaks = from /\ \E n \in Counts(loop) : n > 1
        \/ \A n \in Counts(loop) : HistoriesOf(loop, from, n) = {}

WhileTaskSequences(loop) ==
    LET from == Representatives
    IN  IF Unsatisfiable(loop, from) THEN {}
        ELSE UNION {HistoriesOf(loop, from, n) : n \in Counts(loop)}

\* for_task: a task with a while loop has its history, the others observe the final
\* round of the first such task.
ExpandScenario(t, v, h) ==
    IF WhileLoops(Tasks[t]) # {} THEN ExpandHistory(Tasks[t], v, h) ELSE Expand(Tasks[t], v, h[Len(h)])

----
Init == BuilderInit
Next == BuilderNext
Spec == Init /\ [][Next]_builderVars

Final == status = "final"
Loop == CHOOSE n \in WhileLoops(Tasks[1]) : TRUE
HasWhile == WhileLoops(Tasks[1]) # {}

\* The values of skipped_tile that make a difference.
Variants == IF flags.tiles THEN BOOLEAN ELSE {FALSE}

(* Properties. *)

\* The stack holds blocks only, and a capture that finalize accepts has none open.
TypeOK ==
    /\ status \in {"open", "final", "rejected"} /\ nodes \in 0..MaxNodes
    /\ flags \in [tiles : BOOLEAN, after : BOOLEAN, while : BOOLEAN]
    /\ stack[1].kind = "schedule"
    /\ \A i \in 2..Len(stack) : stack[i].kind \in {"tiles", "domain", "while", "cond"}
    /\ Final => Len(stack) = 1

\* Checking one assignment of each class loses nothing: whatever values the opaque
\* conditions take, some assignment (for a while loop, some history) that
\* opaque_assignment_sequences returns makes every task perform the same operations
\* at every place, in loops, behind breaks and under nested guards, of skipped tiles too.  (When there is
\* nothing to model, opaque_assignment_sequences raises.)
EveryExecutionIsRepresented ==
    /\ Final /\ ~HasWhile => \A v \in Variants :
           LET ops(a)  == [t \in DOMAIN Tasks |-> Expand(Tasks[t], v, a).ops]
               checked == {ops(r) : r \in Representatives}
           IN  \A a \in Assignments : ops(a) \in checked
    /\ Final /\ HasWhile => \A v \in Variants :
           LET ops(h)    == [t \in DOMAIN Tasks |-> ExpandScenario(t, v, h).ops]
               sequences == WhileTaskSequences(Loop)
               checked   == {ops(s) : s \in sequences}
           IN  sequences # {} =>
                   \A n \in Counts(Loop) : \A h \in HistoriesOf(Loop, Assignments, n) : ops(h) \in checked

\* The exit formula _while_task_sequences builds its histories from agrees with the
\* way expand_task runs the loop: no history it returns is refused because a retry
\* round reaches break_loop() or the last round does not.
HistoriesEndWithTheirBreak ==
    Final /\ HasWhile =>
        \A s \in WhileTaskSequences(Loop), v \in Variants :
            ExpandHistory(Tasks[1], v, s).error \in {"none", "no_progress"}

\* A guard outside domain loops means the same wherever it stands: emit() leaves the
\* trip count of a finished loop behind, and no schedule the builder accepts can tell.
\* (Reference: every top-level node, or node of the tile loop, expanded on its own.)
LoopsLeaveNothingBehind ==
    Final /\ ~HasWhile =>
        \A a \in Assignments, v \in Variants :
            LET alone(body, skipped) == FlattenSeq([i \in DOMAIN body |->
                    Emit(<<body[i]>>, [asg |-> a, iteration |-> 0, tile |-> v, skipped |-> skipped],
                         0, <<>>).ops])
            IN  LET body == Tasks[1]
                IN  Expand(body, v, a).ops = FlattenSeq([i \in DOMAIN body |->
                        IF body[i].kind = "tiles"
                        THEN FlattenSeq([j \in 1..NumTiles |-> alone(body[i].body, v)])
                        ELSE alone(<<body[i]>>, FALSE)])

\* A domain loop whose end is known on the device only is expanded to at least one
\* iteration, whatever its start and the other loops of the tasks are.
UnknownLoopsAreExplored ==
    Final => \A n \in AllNodes : n.kind = "domain" /\ n.bounds.end = Dynamic
                                     => TripCount(n.bounds) > 0

\* What expand_task makes of a loop is what the schedule says: nothing of it is left behind,
\* and none of unknown length is skipped.
ExpansionInv == TypeOK /\ LoopsLeaveNothingBehind /\ UnknownLoopsAreExplored
====
