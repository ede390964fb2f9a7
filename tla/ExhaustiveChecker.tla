---- MODULE ExhaustiveChecker ----
(***************************************************************************)
(* check_all_interleavings (exhaustive_checker.py): the bounded            *)
(* breadth-first search over the interleavings of one program, with its    *)
(* visited key, state limit, early exit and verdict.  One action is one    *)
(* iteration of the search loop.                                           *)
(***************************************************************************)
EXTENDS PipelineSteps

CONSTANTS
    StateLimits,    \* values of max_states
    EarlyExits,     \* values of early_exit
    CursorOnlyKeys  \* values of cursor_only_visited

ASSUME ArgsAssumption == /\ StateLimits \subseteq Nat
                         /\ EarlyExits \subseteq BOOLEAN
                         /\ CursorOnlyKeys \subseteq BOOLEAN

VARIABLES
    args,       \* [maxStates, earlyExit, cursorOnly]
    queue,      \* states [cursors, barriers, held] waiting to be explored
    visited,    \* keys of the explored states
    explored,   \* how many states have been explored
    complete,   \* how many of them were complete
    deadlocks,  \* cursors of the deadlocks found
    races,      \* <<cursors, task>> of the races found
    result      \* NoResult, or [safe, hitLimit]

searchVars == <<model, args, queue, visited, explored, complete, deadlocks, races, result>>

NoResult == [done |-> FALSE]
Result(safe, hitLimit) == [done |-> TRUE, safe |-> safe, hitLimit |-> hitLimit]

InitialState(m) == [cursors  |-> [t \in DOMAIN m.steps |-> 0],
                    barriers |-> InitialBarriers(m),
                    held     |-> {}]

SearchInit ==
    /\ model \in Models
    /\ args \in [maxStates : StateLimits, earlyExit : EarlyExits, cursorOnly : CursorOnlyKeys]
    /\ queue = <<InitialState(model)>>
    /\ visited = {}
    /\ explored = 0
    /\ complete = 0
    /\ deadlocks = {}
    /\ races = {}
    /\ result = NoResult

(***************************************************************************)
(* One state: the tasks that can step, and what their steps lead to.       *)
(***************************************************************************)
\* A mistake: the key forgets which task is where.
KeyUnordered(s) ==
    IF args.cursorOnly THEN {s.cursors[t] : t \in DOMAIN s.cursors} ELSE s

Key(s) == IF args.cursorOnly THEN s.cursors ELSE s

EnabledTasks(m, s) ==
    {t \in Unfinished(m, s.cursors) : StepEnabled(NextStep(m, s.cursors, t), s.barriers)}

Successor(m, s, t) ==
    LET step == NextStep(m, s.cursors, t)
    IN  [cursors  |-> [s.cursors EXCEPT ![t] = @ + 1],
         barriers |-> BarriersAfter(m, step, s.barriers),
         held     |-> HeldAfter(s.held, t, step, s.cursors[t])]

RacingTasks(m, s) ==
    {t \in EnabledTasks(m, s) : Races(m, s.held, t, NextStep(m, s.cursors, t))}

IsComplete(m, s) == Unfinished(m, s.cursors) = {}
IsDeadlock(m, s) == ~IsComplete(m, s) /\ EnabledTasks(m, s) = {}

\* A set of tasks in the order of the task list.
Ascending(S) == [i \in 1..Cardinality(S) |-> CHOOSE t \in S : Cardinality({u \in S : u <= t}) = i]

SuccessorList(m, s) ==
    LET order == Ascending(EnabledTasks(m, s))
    IN  [i \in 1..Len(order) |-> Successor(m, s, order[i])]

(***************************************************************************)
(* The search loop.                                                        *)
(***************************************************************************)
Searching == ~result.done /\ queue # <<>> /\ explored < args.maxStates

\* popleft of a state whose key has been visited.
SkipVisited ==
    /\ Searching
    /\ Key(Head(queue)) \in visited
    /\ queue' = Tail(queue)
    /\ UNCHANGED <<model, args, visited, explored, complete, deadlocks, races, result>>

\* A mistake: the visited set is filled and never consulted.
ExploreRevisits(s) ==
    /\ Searching
    /\ s = Head(queue)
    /\ visited' = visited \cup {Key(s)}
    /\ explored' = explored + 1

\* popleft of a new state, common to the remaining iterations.
Explore(s) ==
    /\ Searching
    /\ s = Head(queue)
    /\ Key(s) \notin visited
    /\ visited' = visited \cup {Key(s)}
    /\ explored' = explored + 1

ExploreComplete ==
    LET s == Head(queue) IN
        /\ Explore(s)
        /\ IsComplete(model, s)
        /\ complete' = complete + 1
        /\ queue' = Tail(queue)
        /\ UNCHANGED <<model, args, deadlocks, races, result>>

\* The first race ends the search in the middle of the iteration.
ExploreRaceExit ==
    LET s == Head(queue) IN
        /\ Explore(s)
        /\ args.earlyExit
        /\ RacingTasks(model, s) # {}
        /\ queue' = Tail(queue)
        /\ races' = races \cup {<<s.cursors, CHOOSE t \in RacingTasks(model, s) :
                                    \A u \in RacingTasks(model, s) : t <= u>>}
        /\ result' = Result(FALSE, FALSE)
        /\ UNCHANGED <<model, args, complete, deadlocks>>

\* A mistake: successors go to the front of the queue (depth first).
ExploreDepthFirst ==
    LET s == Head(queue) IN
        /\ Explore(s)
        /\ EnabledTasks(model, s) # {}
        /\ args.earlyExit => RacingTasks(model, s) = {}
        /\ queue' = SuccessorList(model, s) \o Tail(queue)
        /\ races' = races \cup {<<s.cursors, t>> : t \in RacingTasks(model, s)}
        /\ UNCHANGED <<model, args, complete, deadlocks, result>>

\* Every enabled step leads to a state that joins the end of the queue.
ExploreSuccessors ==
    LET s == Head(queue) IN
        /\ Explore(s)
        /\ EnabledTasks(model, s) # {}
        /\ args.earlyExit => RacingTasks(model, s) = {}
        /\ queue' = Tail(queue) \o SuccessorList(model, s)
        /\ races' = races \cup {<<s.cursors, t>> : t \in RacingTasks(model, s)}
        /\ UNCHANGED <<model, args, complete, deadlocks, result>>

\* A mistake: one complete state is not enough.
VerdictNeedsTwo(ds, q, n) ==
    Result(ds = {} /\ races = {} /\ complete > 1, q # <<>> /\ n >= args.maxStates)

\* The result the code assembles after the loop.
Verdict(ds, q, n) ==
    Result(ds = {} /\ races = {} /\ complete > 0, q # <<>> /\ n >= args.maxStates)

\* No task can step: recorded, and with early_exit the end of the search.
ExploreDeadlock ==
    LET s == Head(queue) IN
        /\ Explore(s)
        /\ IsDeadlock(model, s)
        /\ queue' = Tail(queue)
        /\ deadlocks' = deadlocks \cup {s.cursors}
        /\ result' = IF args.earlyExit
                     THEN Verdict(deadlocks', queue', explored')
                     ELSE result
        /\ UNCHANGED <<model, args, complete, races>>

\* The loop ends: the queue is empty or the state limit is reached.
Finish ==
    /\ ~result.done
    /\ ~Searching
    /\ result' = Verdict(deadlocks, queue, explored)
    /\ UNCHANGED <<model, args, queue, visited, explored, complete, deadlocks, races>>

Returned == result.done /\ UNCHANGED searchVars

SearchNext ==
    \/ SkipVisited \/ ExploreComplete \/ ExploreRaceExit
    \/ ExploreSuccessors \/ ExploreDeadlock \/ Finish
    \/ Returned

SearchSpec == SearchInit /\ [][SearchNext]_searchVars

(***************************************************************************)
(* Properties.                                                             *)
(***************************************************************************)

\* The bookkeeping of the search: every explored state has its own key, at
\* most max_states of them, queued states are states of the model, and the
\* complete state is met once per key.
SearchTypeOK ==
    /\ model \in Models
    /\ args \in [maxStates : StateLimits, earlyExit : EarlyExits, cursorOnly : CursorOnlyKeys]
    /\ \A i \in DOMAIN queue :
          /\ DOMAIN queue[i].cursors = DOMAIN model.steps
          /\ DOMAIN queue[i].barriers = Records(model)
    /\ explored = Cardinality(visited) /\ explored <= args.maxStates
    /\ complete \in Nat /\ (args.cursorOnly \/ OneAccumulator(model) => complete <= 1)
    /\ result \in {NoResult} \cup [done : {TRUE}, safe : BOOLEAN, hitLimit : BOOLEAN]

\* The key of a state stands for its holds too: they are part of it, or no
\* operand is covered by two resources' commits.
KeyIsExact == ~args.cursorOnly \/ OneAccumulator(model)

\* "Both are functions of the cursor tuple": with the shared state spelled out
\* in the key (cursor_only_visited=False), two explored states that share their
\* cursors share their barriers, and their holds too unless two resources'
\* commits cover one operand.
CursorsDetermineState ==
    ~args.cursorOnly =>
        \A a, b \in visited :
            a.cursors = b.cursors => /\ a.barriers = b.barriers
                                     /\ OneAccumulator(model) => a = b

\* What the search has recorded is consistent: its bookkeeping, and keys that stand for one
\* state each (check_all_interleavings).
SearchInv == SearchTypeOK /\ CursorsDetermineState
====
