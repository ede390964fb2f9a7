----------------------------- MODULE Autotuned ------------------------------
(***************************************************************************)
(* An autotuned kernel or function (tune/_autotune.py) called by several   *)
(* threads.  _select looks the key up and, on a miss, runs an exhaustive   *)
(* search, all under one lock; the configuration found is kept for every   *)
(* later call with the same key.  The search runs in the thread that has   *)
(* the lock, so its state is kept once.                                    *)
(***************************************************************************)
EXTENDS ExhaustiveSearch

CONSTANTS
  Threads,
  Keys,      \* what _config_key can come to
  MaxCalls,  \* bound on the calls of a thread
  None

ASSUME AutotunedAssumption == None \notin Threads /\ Keys # {} /\ MaxCalls \in Nat

VARIABLES
  cache,  \* _cache: the configuration selected for each key, 0 if there is none
  lock,   \* who has _lock
  at,     \* where each thread is
  key,    \* the key of its call
  calls,  \* how many calls it has made
  hung    \* whether the search is in a benchmark that does not return

tunedVars == <<cache, lock, at, key, calls, hung>>
vars == <<searchVars, tunedVars>>

\* A call or prepare, up to the lock.
Call(t, k) ==
  /\ at[t] = "idle"
  /\ calls[t] < MaxCalls
  /\ at' = [at EXCEPT ![t] = "lock"]
  /\ key' = [key EXCEPT ![t] = k]
  /\ calls' = [calls EXCEPT ![t] = @ + 1]
  /\ UNCHANGED <<searchVars, cache, lock, hung>>

Acquire(t) ==
  /\ at[t] = "lock"
  /\ lock = None
  /\ lock' = t
  /\ at' = [at EXCEPT ![t] = "select"]
  /\ UNCHANGED <<searchVars, cache, key, calls, hung>>

\* The lock is released; what follows, a compilation and a launch with the configuration
\* of the cache or an exception, changes nothing that is shared.
Leave(t) ==
  /\ lock' = None
  /\ at' = [at EXCEPT ![t] = "idle"]
  /\ UNCHANGED <<key, calls, hung>>

\* The key is in the cache.
Hit(t) ==
  /\ at[t] = "select"
  /\ cache[key[t]] # 0
  /\ Leave(t)
  /\ UNCHANGED <<searchVars, cache>>

\* A mistake: the cache is looked up before the lock is taken.
MissBeforeLock(t) ==
  /\ at[t] = "select"
  /\ SearchBegins
  /\ at' = [at EXCEPT ![t] = "tune"]
  /\ UNCHANGED <<cache, lock, key, calls, hung>>

\* It is not: the search begins.
Miss(t) ==
  /\ at[t] = "select"
  /\ cache[key[t]] = 0
  /\ SearchBegins
  /\ at' = [at EXCEPT ![t] = "tune"]
  /\ UNCHANGED <<cache, lock, key, calls, hung>>

\* The launch that a candidate's warm-up or batch times does not return: _select gives the
\* search no single_run_timeout_sec, and nothing else limits a launch.
Hangs ==
  /\ ~hung
  /\ Benchmarking
  /\ hung' = TRUE
  /\ UNCHANGED <<searchVars, cache, lock, at, key, calls>>

\* The search has come to its end in the thread that began it.
TuneEnds(t) ==
  /\ at[t] = "tune"
  /\ \/ phase = "found" /\ cache' = [cache EXCEPT ![key[t]] = Best]
     \/ phase = "raised" /\ UNCHANGED cache
  /\ phase' = "off"
  /\ Reset
  /\ Leave(t)

Init ==
  /\ SearchInit
  /\ cache = [k \in Keys |-> 0]
  /\ lock = None
  /\ at = [t \in Threads |-> "idle"]
  /\ key = [t \in Threads |-> CHOOSE k \in Keys : TRUE]
  /\ calls = [t \in Threads |-> 0]
  /\ hung = FALSE

\* The thread that tunes goes on with the search.
Search == ~hung /\ SearchStep /\ UNCHANGED tunedVars

Next ==
  \/ Search
  \/ Hangs
  \/ \E t \in Threads :
       \/ \E k \in Keys : Call(t, k)
       \/ Acquire(t)
       \/ Hit(t)
       \/ Miss(t)
       \/ TuneEnds(t)

\* A thread in a call goes on unless it is in a benchmark that hangs, which may happen in
\* any; benchmarks need not fail, so a search may not count on an error to come to its end.
Fairness ==
  /\ WF_vars(~hung /\ SearchRuns /\ UNCHANGED <<errors, tunedVars>>)
  /\ \A t \in Threads : WF_vars(Acquire(t) \/ Hit(t) \/ Miss(t) \/ TuneEnds(t))

Spec == Init /\ [][Next]_vars /\ Fairness

-----------------------------------------------------------------------------
(* Properties.                                                             *)

\* Every variable has its type; a search runs in the one thread that has the lock, and no
\* candidate is timed more often than _MAX_REPEATS.
TypeOK ==
  /\ SearchTypeOK
  /\ cache \in [Keys -> Configs \cup {0}]
  /\ lock \in Threads \cup {None}
  /\ at \in [Threads -> {"idle", "lock", "select", "tune"}]
  /\ key \in [Threads -> Keys]
  /\ calls \in [Threads -> 0..MaxCalls]
  /\ hung \in BOOLEAN
  /\ hung => Benchmarking
  /\ \A t \in Threads : at[t] \in {"select", "tune"} <=> lock = t
  /\ (phase # "off") <=> (\E t \in Threads : at[t] = "tune")

\* A search reports every configuration once, as measured or as failed, and selects among
\* those that have been timed long enough; the lock keeps it in one thread (exhaustive_search
\* under _select).
AutotuneInv == TypeOK /\ EveryConfigReportedOnce /\ TopKHaveConverged

\* Concurrent first calls tune once: a key that has a configuration keeps it, so that every
\* later call runs the kernel that was selected (_select, "so concurrent first calls tune
\* once").
SelectionIsKept == [][\A k \in Keys : cache[k] # 0 => cache'[k] = cache[k]]_vars

\* Every call gets past the lock and the search, although the search times candidates
\* until they converge and a failed search leaves the next call to tune again; only a
\* benchmark that hangs, with the lock held and no timeout, can keep it (_select).
EveryCallReturns == \A t \in Threads : (at[t] # "idle") ~> (at[t] = "idle" \/ hung)
=============================================================================
