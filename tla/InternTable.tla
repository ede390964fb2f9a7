----------------------------- MODULE InternTable ----------------------------
(***************************************************************************)
(* What the table of derived data types promises its callers: a type gets  *)
(* a number of its own the first time it is asked for, and every thread    *)
(* that asks for it, then or later, gets that number.                      *)
(***************************************************************************)
EXTENDS Naturals

CONSTANTS Types, Callers

VARIABLES
  number,  \* the number of each type, 0 if it has none
  reply    \* the last type each caller asked for and the number it got

internVars == <<number, reply>>

InternInit ==
  /\ number = [ty \in Types |-> 0]
  /\ \A c \in Callers : reply[c][2] = 0

\* A caller gets the number of a type that has one.
Known(c, ty) ==
  /\ number[ty] # 0
  /\ reply' = [reply EXCEPT ![c] = <<ty, number[ty]>>]
  /\ UNCHANGED number

\* A type gets a number that no other type has.
New(c, ty) ==
  /\ number[ty] = 0
  /\ number'[ty] # 0
  /\ \A other \in Types : other # ty => number'[other] = number[other] /\ number[other] # number'[ty]
  /\ reply' = [reply EXCEPT ![c] = <<ty, number'[ty]>>]

InternNext == \E c \in Callers, ty \in Types : Known(c, ty) \/ New(c, ty)

InternSpec == InternInit /\ [][InternNext]_internVars
=============================================================================
