----------------------------- MODULE MCService -----------------------------
(***************************************************************************)
(* A small instance of Service: one reader, that may be late and refuses   *)
(* one of two behaviors, a handler that calls the group and the loop and   *)
(* another that calls the group.                                           *)
(***************************************************************************)
EXTENDS Service

Endless == [name |-> "Endless", duration |-> 0, gpiTrigger |-> FALSE]
Timed   == [name |-> "Timed", duration |-> 1, gpiTrigger |-> FALSE]

EndlessOrTimed == {Endless, Timed}
RejectsTimed   == {<<d, Endless>> : d \in Device}
=============================================================================
