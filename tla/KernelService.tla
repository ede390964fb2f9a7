--------------------------- MODULE KernelService ---------------------------
(***************************************************************************)
(* What kernel dispatch promises its callers: for every key (what a kernel *)
(* is specialised for) at most one compiled kernel is ever kept, it is     *)
(* never replaced or dropped, and a launch that succeeds runs the kernel   *)
(* kept for its key.  A launch whose reference to the kept kernel has been *)
(* invalidated by others lapses: nothing is promised of it, nor does it    *)
(* change anything.                                                        *)
(***************************************************************************)
CONSTANTS Callers, ServiceKeys, Kernels, Nothing

VARIABLES
  kept,  \* the kernel kept for each key, or Nothing
  ended  \* the launch that has just ended: caller, key and result

serviceVars == <<kept, ended>>

Error == <<"error">>
Undefined == <<"undefined">>

ServiceInit ==
  /\ kept = [k \in ServiceKeys |-> Nothing]
  /\ ended = <<>>

\* Run the kernel kept for the key.
Run(t, k) ==
  /\ kept[k] # Nothing
  /\ ended' = <<t, k, kept[k]>>
  /\ UNCHANGED kept

\* Keep a new kernel, and run it unless the launch itself fails.
KeepAndRun(t, k, kernel) ==
  /\ kept[k] = Nothing
  /\ kept' = [kept EXCEPT ![k] = kernel]
  /\ ended' \in {<<t, k, kernel>>, <<t, k, Error>>}

FailOrLapse(t, k) ==
  /\ ended' \in {<<t, k, Error>>, <<t, k, Undefined>>}
  /\ UNCHANGED kept

InProgress == ended' = <<>> /\ UNCHANGED kept

ServiceNext ==
  \/ InProgress
  \/ \E t \in Callers, k \in ServiceKeys \cup {Nothing} : FailOrLapse(t, k)
  \/ \E t \in Callers, k \in ServiceKeys :
       \/ Run(t, k)
       \/ \E kernel \in Kernels : KeepAndRun(t, k, kernel)

ServiceSpec == ServiceInit /\ [][ServiceNext]_serviceVars
=============================================================================
