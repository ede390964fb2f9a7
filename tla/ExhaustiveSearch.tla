-------------------------- MODULE ExhaustiveSearch --------------------------
(***************************************************************************)
(* exhaustive_search (tune/_tune.py): every configuration is timed in      *)
(* batches, the promising ones until their mean is known well enough, the  *)
(* others until they cannot be among the best.  A timing keeps the number  *)
(* of samples, their mean and the half-width of its confidence interval;   *)
(* a batch may bring any mean and any margin.                              *)
(***************************************************************************)
EXTENDS Integers, Sequences, FiniteSets

CONSTANTS
  N,             \* the search space is 1..N
  TopK,          \* _TOP_K
  BatchRepeats,  \* _BATCH_REPEATS
  MinRepeats,    \* _MIN_REPEATS
  MaxRepeats,    \* _MAX_REPEATS
  MaxTime,       \* _MAX_MEASURE_TIME_US
  Means,         \* the means a batch can end with, a bound
  Margins        \* the error margins a batch can end with, a bound

ASSUME SearchAssumption ==
  /\ N \in Nat \ {0} /\ TopK \in Nat \ {0}
  /\ BatchRepeats \in Nat \ {0} /\ MinRepeats \in Nat \ {0}
  /\ MaxRepeats \in Nat /\ MinRepeats =< MaxRepeats
  /\ Means \subseteq Nat /\ Margins \subseteq Nat

VARIABLES
  phase,      \* "off", the phase of the search, or how it ended
  next,       \* the configuration phase 0 comes to next
  timing,     \* the timing of each configuration
  running,    \* the candidates that have not converged (a heap in the code)
  converged,  \* the candidates that are done, in order
  errors,     \* the configurations that raised
  cutoff,     \* cutoff_mean_us, 0 before phase 2
  now         \* the candidate phase 2 is at, 0 between two

searchVars == <<phase, next, timing, running, converged, errors, cutoff, now>>

Configs == 1..N
Done == {converged[i] : i \in DOMAIN converged}

-----------------------------------------------------------------------------
(* _TimingCandidate.                                                       *)

Untimed == [n |-> 0, mean |-> 0, margin |-> 0]

\* A mistake: the batch is not cut at _MAX_REPEATS.
BatchUncut(t) == BatchRepeats

\* How many samples run_benchmark takes.
Batch(t) == IF BatchRepeats < MaxRepeats - t.n THEN BatchRepeats ELSE MaxRepeats - t.n

\* run_benchmark: the timings a batch can lead to.
Measured(t) ==
  IF Batch(t) = 0 THEN {t} ELSE [n : {t.n + Batch(t)}, mean : Means, margin : Margins]

\* A mistake: a candidate has to become precise, however long it takes.
ConvergedPrecise(t) ==
  t.n >= MinRepeats /\ (100 * t.margin =< t.mean \/ 2 * t.margin =< 1)

\* converged(): the mean is within 1%, or within 0.5 us, or enough has been tried.
Converged(t) ==
  /\ t.n >= MinRepeats
  /\ \/ 100 * t.margin =< t.mean
     \/ 2 * t.margin =< 1
     \/ t.n >= MaxRepeats
     \/ t.mean * t.n > MaxTime

\* The order of the heap: mean, margin, position in the search space.
Before(c, d) ==
  LET a == timing[c]
      b == timing[d]
  IN \/ a.mean < b.mean
     \/ a.mean = b.mean /\ a.margin < b.margin
     \/ a.mean = b.mean /\ a.margin = b.margin /\ c =< d

-----------------------------------------------------------------------------
(* The search.                                                             *)

Reset ==
  /\ next' = 1
  /\ timing' = [c \in Configs |-> Untimed]
  /\ running' = {}
  /\ converged' = <<>>
  /\ errors' = {}
  /\ cutoff' = 0
  /\ now' = 0

SearchBegins ==
  /\ phase = "off"
  /\ phase' = "warm"
  /\ Reset

\* The candidate is timed once more, and goes to the ones that are done or to the others.
Time(c) ==
  \E t \in Measured(timing[c]) :
    /\ timing' = [timing EXCEPT ![c] = t]
    /\ IF Converged(t)
       THEN /\ converged' = Append(converged, c)
            /\ running' = running \ {c}
       ELSE /\ running' = running \cup {c}
            /\ UNCHANGED converged
    /\ UNCHANGED errors

\* Its benchmark raises.
Raises(c) ==
  /\ errors' = errors \cup {c}
  /\ running' = running \ {c}
  /\ timing' = [timing EXCEPT ![c] = Untimed]
  /\ UNCHANGED converged

\* Phase 0, with the warm-up.
WarmUp ==
  /\ phase = "warm"
  /\ next \in Configs
  /\ Time(next) \/ Raises(next)
  /\ next' = next + 1
  /\ UNCHANGED <<phase, cutoff, now>>

\* grid_fn, kernel or hints_fn raises: the search is given up.
Aborts ==
  /\ phase = "warm"
  /\ next \in Configs
  /\ phase' = "raised"
  /\ Reset

\* A mistake: phase 1 goes on with a candidate after its error.
ConvergeTopOn ==
  /\ phase = "warm" /\ next = N + 1
  /\ Len(converged) < TopK
  /\ \E c \in running :
       /\ \A d \in running : Before(c, d)
       /\ \/ Time(c)
          \/ errors' = errors \cup {c} /\ UNCHANGED <<running, timing, converged>>
  /\ UNCHANGED <<phase, next, cutoff, now>>

\* Phase 1: the first candidate of the heap.
ConvergeTop ==
  /\ phase = "warm" /\ next = N + 1
  /\ Len(converged) < TopK
  /\ \E c \in running :
       /\ \A d \in running : Before(c, d)
       /\ Time(c) \/ Raises(c)
  /\ UNCHANGED <<phase, next, cutoff, now>>

\* The largest mean among the TopK best.
Cutoff ==
  CHOOSE m \in {timing[c].mean : c \in Done} :
    LET below == {c \in Done : timing[c].mean < m}
        upTo == {c \in Done : timing[c].mean =< m}
    IN IF Cardinality(Done) =< TopK THEN upTo = Done
       ELSE Cardinality(below) < TopK /\ Cardinality(upTo) >= TopK

\* Phase 2 begins, if some are done and some are not.
BeginRest ==
  /\ phase = "warm" /\ next = N + 1
  /\ converged # <<>>
  /\ running # {}
  /\ Len(converged) >= TopK
  /\ phase' = "rest"
  /\ cutoff' = Cutoff
  /\ UNCHANGED <<next, timing, running, converged, errors, now>>

\* A mistake: the candidate is given up as soon as it might miss the cutoff.
PromisingSurely(t) == ~Converged(t) /\ t.mean + t.margin < cutoff

\* The loop of phase 2 goes on while the candidate might still be among the best.
Promising(t) == ~Converged(t) /\ t.mean - t.margin < cutoff

\* Phase 2, the next candidate: one batch, or the candidate is done.  The order of the
\* candidates is the order of the heap's array, here any order.
ConvergeRest ==
  /\ phase = "rest"
  /\ \E c \in running :
       /\ now \in {0, c}
       /\ IF Promising(timing[c])
          THEN \/ /\ Raises(c)
                  /\ now' = 0
               \/ /\ timing' \in {[timing EXCEPT ![c] = t] : t \in Measured(timing[c])}
                  /\ now' = c
                  /\ UNCHANGED <<running, converged, errors>>
          ELSE /\ converged' = Append(converged, c)
               /\ running' = running \ {c}
               /\ now' = 0
               /\ UNCHANGED <<timing, errors>>
  /\ UNCHANGED <<phase, next, cutoff>>

\* The search is at a warm-up or at a batch of a candidate.
Benchmarking ==
  \/ phase = "warm" /\ next \in Configs
  \/ phase = "warm" /\ next = N + 1 /\ Len(converged) < TopK /\ running # {}
  \/ phase = "rest" /\ \E c \in running : now \in {0, c} /\ Promising(timing[c])

\* All candidates are done or have raised.
Finish ==
  /\ phase = "rest" \/ (phase = "warm" /\ next = N + 1)
  /\ running = {}
  /\ phase' = IF converged = <<>> THEN "raised" ELSE "found"
  /\ UNCHANGED <<next, timing, running, converged, errors, cutoff, now>>

\* The first of the configurations with the smallest mean.
Best ==
  LET least(i) == \A j \in DOMAIN converged : timing[converged[i]].mean =< timing[converged[j]].mean
  IN converged[CHOOSE i \in DOMAIN converged : least(i) /\ \A j \in 1..(i - 1) : ~least(j)]

SearchInit ==
  /\ phase = "off"
  /\ next = 1
  /\ timing = [c \in Configs |-> Untimed]
  /\ running = {}
  /\ converged = <<>>
  /\ errors = {}
  /\ cutoff = 0
  /\ now = 0

SearchRuns == WarmUp \/ ConvergeTop \/ BeginRest \/ ConvergeRest \/ Finish
SearchStep == SearchRuns \/ Aborts

-----------------------------------------------------------------------------
(* Properties.                                                             *)

SearchTypeOK ==
  /\ phase \in {"off", "warm", "rest", "found", "raised"}
  /\ next \in 1..(N + 1)
  /\ timing \in [Configs -> [n : 0..MaxRepeats, mean : Means \cup {0}, margin : Margins \cup {0}]]
  /\ running \subseteq Configs
  /\ \A i \in DOMAIN converged : converged[i] \in Configs
  /\ errors \subseteq Configs
  /\ cutoff \in Means \cup {0}
  /\ now \in running \cup {0}

\* Whatever phase a configuration has come to, it is in one place, and a search that finds
\* something reports each as a success or as a failure: exhaustive_search's lists.
EveryConfigReportedOnce ==
  /\ \A i, j \in DOMAIN converged : converged[i] = converged[j] => i = j
  /\ running \cap Done = {} /\ running \cap errors = {} /\ Done \cap errors = {}
  /\ running \cup Done \cup errors = 1..(next - 1)
  /\ phase = "found" => Done \cup errors = Configs

\* Phase 2 may report a configuration whose mean is not known well, but never among the
\* TopK best: at least TopK that converged are as good, and the best has converged.
TopKHaveConverged ==
  phase = "found" =>
    /\ Converged(timing[Best])
    /\ \A c \in Done :
         Converged(timing[c]) \/
         Cardinality({d \in Done : Converged(timing[d]) /\ timing[d].mean =< timing[c].mean}) >= TopK
=============================================================================
