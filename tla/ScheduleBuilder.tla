---- MODULE ScheduleBuilder ----
(***************************************************************************)
(* The capture of one task's schedule (ScheduleBuilder and the functions   *)
(* that drive it in task_scheduling/schedule_builder.py): loops, guarded   *)
(* blocks, work steps and breaks are recorded into a tree, and a block the *)
(* rules do not allow aborts the capture with ScheduleError.               *)
(*                                                                         *)
(* Left out: the values steps exchange and their scopes, work-method       *)
(* lookup, the hooks of while_true_loop(), which synchronize nothing, and  *)
(* arguments that are refused for their type or sign.                      *)
(***************************************************************************)
EXTENDS Integers, Sequences, FiniteSets, SequencesExt

CONSTANTS
    Steps,      \* kinds of work step; "advance" is get_and_advance_work_tile()
    Guards,     \* conditions of guarded blocks
    Fires,      \* verify_num_fires arguments; None for no assertion
    Domains,    \* bounds of domain loops: [start, end, step]
    Rounds,     \* verify_num_iters arguments: sequences of positive numbers
    Skips,      \* for work tile loops: whether skip_if is given
    MaxNodes    \* bound: nodes of a schedule

ASSUME BuilderAssumption ==
    /\ Skips \subseteq BOOLEAN /\ MaxNodes \in Nat
    /\ \A d \in Domains : d.step \in (Nat \ {0}) \cup {-1}
    /\ \A r \in Rounds : r # <<>> /\ \A i \in DOMAIN r : r[i] \in Nat \ {0}

VARIABLES
    stack,      \* open blocks, the schedule itself first, each with its body so far
    status,     \* "open", "final" or "rejected"
    flags,      \* has_work_tile_loop, after_work_tile_loop, has_while_true_loop
    nodes       \* number of nodes captured so far

builderVars == <<stack, status, flags, nodes>>

None == -1

BuilderInit ==
    /\ stack = <<[kind |-> "schedule", body |-> <<>>]>>
    /\ status = "open" /\ nodes = 0
    /\ flags = [tiles |-> FALSE, after |-> FALSE, while |-> FALSE]

----
(* Guards: leaves are iteration predicates, opaque conditions and SKIPPABLE. *)

IsIteration(g) == g.kind \in {"first", "last", "every", "not"}

RECURSIVE Leaves(_)
Leaves(g) == IF g.kind \in {"and", "or"} THEN UNION {Leaves(g.args[i]) : i \in DOMAIN g.args}
             ELSE {g}

ReadsIteration(g) == \E l \in Leaves(g) : IsIteration(l)

----
(* Nodes. *)

Inside(kinds) == \E i \in DOMAIN stack : stack[i].kind \in kinds
InRuntimeCondition ==
    \E i \in DOMAIN stack : stack[i].kind = "cond" /\ stack[i].guard.kind # "skippable"
InSkippable ==
    \E i \in DOMAIN stack : stack[i].kind = "cond" /\ stack[i].guard.kind = "skippable"
InSkippingTiles == \E i \in DOMAIN stack : stack[i].kind = "tiles" /\ stack[i].skip

RECURSIVE Children(_)
Children(body) == UNION {{body[i]} \cup (IF body[i].kind \in {"step", "break"} THEN {}
                                         ELSE Children(body[i].body)) : i \in DOMAIN body}

\* while_loop_break_clauses: for each break the guards around it, outermost first.
\* A mistake: only the innermost guard is kept.
RECURSIVE BreakClausesInnermost(_, _)
BreakClausesInnermost(body, chain) ==
    UNION {CASE body[i].kind = "break" -> {chain}
             [] body[i].kind = "cond"  -> BreakClausesInnermost(body[i].body,
                    IF body[i].guard.kind = "skippable" THEN chain ELSE <<body[i].guard>>)
             [] OTHER                  -> {} : i \in DOMAIN body}

RECURSIVE BreakClauses(_, _)
BreakClauses(body, chain) ==
    UNION {CASE body[i].kind = "break" -> {chain}
             [] body[i].kind = "cond"  -> BreakClauses(body[i].body,
                    IF body[i].guard.kind = "skippable" THEN chain
                                                        ELSE Append(chain, body[i].guard))
             [] OTHER                  -> {} : i \in DOMAIN body}

----
(* Capture. *)

\* A mistake: iteration predicates are allowed anywhere.
AllowedBlockAnyGuard(n) ==
    (n.guard.kind = "skippable" => InSkippingTiles) /\ (n.fires # None => Inside({"while"}))

AllowedBlock(n) ==
    /\ n.fires # None => n.fires >= 0 /\ Inside({"while"})
    /\ n.guard.kind = "skippable" => InSkippingTiles
    /\ n.guard.kind # "skippable" /\ ReadsIteration(n.guard) => Inside({"domain"})

AllowedWhile ==
    /\ ~flags.while /\ ~Inside({"domain"}) /\ ~InRuntimeCondition
    /\ InSkippingTiles => InSkippable

\* open_scope
Allowed(n) ==
    /\ ~flags.after
    /\ n.kind = "tiles"  => Len(stack) = 1 /\ ~flags.tiles
    /\ n.kind = "domain" => ~Inside({"domain", "while"})
    /\ n.kind = "while"  => AllowedWhile
    /\ n.kind = "cond"   => AllowedBlock(n)

Reject == status' = "rejected" /\ UNCHANGED <<stack, flags>>

Add(node) == stack' = [stack EXCEPT ![Len(stack)].body = Append(@, node)]

OpenScope(n) ==
    /\ status = "open" /\ nodes < MaxNodes /\ nodes' = nodes + 1
    /\ IF Allowed(n)
       THEN /\ stack' = Append(stack, n)
            /\ flags' = [flags EXCEPT !.tiles = @ \/ n.kind = "tiles",
                                      !.while = @ \/ n.kind = "while"]
            /\ UNCHANGED status
       ELSE Reject

Blocks ==
    {[kind |-> "tiles", skip |-> s, body |-> <<>>] : s \in Skips} \cup
    {[kind |-> "domain", bounds |-> d, body |-> <<>>] : d \in Domains} \cup
    {[kind |-> "while", rounds |-> r, body |-> <<>>] : r \in Rounds} \cup
    {[kind |-> "cond", guard |-> g, fires |-> n, body |-> <<>>] : g \in Guards, n \in Fires}

\* The end of while_true_loop(): it needs a break, and a round without one unless
\* a single round is modelled.
AllowedClauses(n) ==
    LET clauses == BreakClauses(n.body, <<>>)
    IN  /\ clauses # {}
        /\ (\E i \in DOMAIN n.rounds : n.rounds[i] > 1) => <<>> \notin clauses

\* close_scope, and the checks that follow it
CloseScope ==
    /\ status = "open" /\ Len(stack) > 1
    /\ LET n == stack[Len(stack)]
       IN  IF n.kind = "while" => AllowedClauses(n)
           THEN /\ stack' = [SubSeq(stack, 1, Len(stack) - 1)
                                EXCEPT ![Len(stack) - 1].body = Append(@, n)]
                /\ flags' = [flags EXCEPT !.after = @ \/ n.kind = "tiles"]
                /\ UNCHANGED status
           ELSE Reject
    /\ UNCHANGED nodes

RecordStep(s) ==
    /\ status = "open" /\ nodes < MaxNodes /\ nodes' = nodes + 1
    /\ IF s = "advance" => stack[Len(stack)].kind = "tiles"
       THEN Add([kind |-> "step", stage |-> s, id |-> nodes]) /\ UNCHANGED <<status, flags>>
       ELSE Reject

BreakLoop ==
    /\ status = "open" /\ nodes < MaxNodes /\ nodes' = nodes + 1
    /\ IF Inside({"domain", "while"})
       THEN Add([kind |-> "break"]) /\ UNCHANGED <<status, flags>>
       ELSE Reject

BothLoopKinds == {"domain", "while"} \subseteq {n.kind : n \in Children(stack[1].body)}

\* A mistake: blocks that are still open go unnoticed.
FinalizeUnclosed ==
    /\ status = "open"
    /\ status' = IF BothLoopKinds THEN "rejected" ELSE "final"
    /\ UNCHANGED <<stack, flags, nodes>>

\* finalize: a step or break out of place was refused when it was recorded.
Finalize ==
    /\ status = "open"
    /\ status' = IF Len(stack) # 1 \/ BothLoopKinds THEN "rejected" ELSE "final"
    /\ UNCHANGED <<stack, flags, nodes>>

BuilderNext ==
    \/ \E n \in Blocks : OpenScope(n)
    \/ \E s \in Steps : RecordStep(s)
    \/ CloseScope \/ BreakLoop \/ Finalize
====
