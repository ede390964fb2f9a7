--------------------------- MODULE MC_DTypeTable ----------------------------
(***************************************************************************)
(* Two threads, only the invalid basic type, and three requests for        *)
(* pointers: opaque ones and pointers to them, asked for at once or one    *)
(* after the other.  The pages hold one, one, two, ... elements, so that   *)
(* every new type may need a page and the last two names share one.        *)
(***************************************************************************)
EXTENDS DTypeTable

MCBasicName == [id \in {0} |-> "invalid"]
=============================================================================
