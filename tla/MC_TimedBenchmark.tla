------------------------- MODULE MC_TimedBenchmark --------------------------
(***************************************************************************)
(* Two workers, so that one the host has given up can live beside the one  *)
(* it uses, and three tasks: one that is interrupted, one that meets what  *)
(* it left behind, and one with the worker started after that.             *)
(***************************************************************************)
EXTENDS TimedBenchmark
=============================================================================
