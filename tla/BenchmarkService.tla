-------------------------- MODULE BenchmarkService --------------------------
(***************************************************************************)
(* What a benchmark with a timeout promises: one at a time, a task is      *)
(* asked for, and it is answered with its own measurement or refused with  *)
(* an exception.                                                           *)
(***************************************************************************)
EXTENDS Naturals

VARIABLES
  asked,  \* the task in progress, 0 if there is none
  reply   \* the last reply: a task and whose measurement it got, 0 for an exception

serviceVars == <<asked, reply>>

ServiceInit == asked = 0 /\ reply = <<0, 0>>

Ask ==
  /\ asked = 0
  /\ asked' \in Nat \ {0}
  /\ UNCHANGED reply

Reply(value) ==
  /\ asked # 0
  /\ asked' = 0
  /\ reply' = <<asked, value>>

Answer == Reply(asked)
Refuse == Reply(0)

ServiceNext == Ask \/ Answer \/ Refuse

ServiceSpec == ServiceInit /\ [][ServiceNext]_serviceVars
=============================================================================
