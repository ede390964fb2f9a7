---------------------------- MODULE MC_Autotuned ----------------------------
(***************************************************************************)
(* Two threads and four configurations, of which two are wanted: phase 2   *)
(* can begin with as many as TopK converged candidates or with more.  A    *)
(* candidate is cut at an odd number of samples, and one with the larger   *)
(* mean runs out of time before that.  An unprecise mean may or may not    *)
(* be told from the other one.                                             *)
(***************************************************************************)
EXTENDS Autotuned
=============================================================================
