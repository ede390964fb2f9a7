---- MODULE CheckerReference ----
(***************************************************************************)
(* What the verdict of ExhaustiveChecker has to mean: the set of all       *)
(* states some interleaving reaches, computed without the search's queue,  *)
(* visited key, limit or early exit, and the verdict compared with it.     *)
(***************************************************************************)
EXTENDS ExhaustiveChecker

\* All steps of all tasks.
AllSteps(m) == UNION {{t} \X (1..Len(m.steps[t])) : t \in DOMAIN m.steps}

\* The states one step away from those of S.
StepsFrom(m, S) == UNION {{Successor(m, s, t) : t \in EnabledTasks(m, s)} : s \in S}

\* Levels(m)[n]: the states n steps from the start.
Levels(m) ==
    LET level[n \in 0..Cardinality(AllSteps(m))] ==
            IF n = 0 THEN {InitialState(m)} ELSE StepsFrom(m, level[n - 1])
    IN  level

\* Every state some interleaving reaches.
Reachable(m) == UNION {Levels(m)[n] : n \in 0..Cardinality(AllSteps(m))}

DeadlockStates(m) == {s \in Reachable(m) : IsDeadlock(m, s)}
RaceStates(m) == {s \in Reachable(m) : RacingTasks(m, s) # {}}

\* A safe verdict covers every interleaving, whatever the visited key and even
\* when the search stopped at its state limit: complete states are on the last
\* level of the search, so they are only explored after all the others.  That no
\* interleaving races needs a key that loses no holds.
SafeMeansEveryInterleaving ==
    (result.done /\ result.safe) =>
        /\ DeadlockStates(model) = {}
        /\ KeyIsExact => RaceStates(model) = {}

\* "The default cursor-only visited key is exact": a safe verdict under the
\* default key covers the races of every interleaving.
DefaultKeyIsExact ==
    (result.done /\ result.safe /\ args.cursorOnly) => RaceStates(model) = {}

\* An unsafe verdict that the state limit does not excuse comes with a witness,
\* and every witness, whatever the verdict, is a state some interleaving reaches.
WitnessesAreReal ==
    result.done =>
        /\ deadlocks \subseteq {s.cursors : s \in DeadlockStates(model)}
        /\ \A r \in races : \E s \in RaceStates(model) :
              s.cursors = r[1] /\ r[2] \in RacingTasks(model, s)
        /\ (~result.safe /\ explored < args.maxStates) => deadlocks \cup races # {}

\* Without early exit and below the limit nothing is missed: all deadlocks are
\* reported although most states arrive at a visited key, and all racing steps
\* when the key loses no holds.
NothingMissedWithoutEarlyExit ==
    (result.done /\ ~args.earlyExit /\ explored < args.maxStates) =>
        /\ deadlocks = {s.cursors : s \in DeadlockStates(model)}
        /\ KeyIsExact => races = UNION {{<<s.cursors, t>> : t \in RacingTasks(model, s)} :
                                          s \in RaceStates(model)}
====
