------------------------------ MODULE EventBus ------------------------------
(***************************************************************************)
(* What the service promises whoever subscribes to its inventory events:   *)
(* batches come to the message bus one by one, in the order of the changes *)
(* they report, none of them twice; those that do not come are lost for    *)
(* good, one whose Publish failed on its own, and those not yet published  *)
(* when the process ends all together.  It does not say how many wait      *)
(* where: TaskLoop does, which implements this module.                     *)
(***************************************************************************)
EXTENDS Integers, Sequences

VARIABLES
  made,           \* counter: changes made so far; a batch is named by its change
  pending,        \* batches on their way, the oldest first
  bus,            \* batches on the message bus, in the order they came
  lost            \* batches that never come

vars == <<made, pending, bus, lost>>

Init == made = 0 /\ pending = <<>> /\ bus = <<>> /\ lost = {}

\* The inventory changes, and there is something to tell about it or not.
Make ==
  /\ made' = made + 1
  /\ pending' \in {pending, Append(pending, made')}
  /\ UNCHANGED <<bus, lost>>

Leave == pending # <<>> /\ pending' = Tail(pending) /\ UNCHANGED made

Deliver == Leave /\ bus' = Append(bus, Head(pending)) /\ UNCHANGED lost
Drop    == Leave /\ lost' = lost \cup {Head(pending)} /\ UNCHANGED bus

Crash ==
  /\ pending' = <<>>
  /\ lost' = lost \cup {pending[i] : i \in DOMAIN pending}
  /\ UNCHANGED <<made, bus>>

Next == Make \/ Deliver \/ Drop \/ Crash

Spec == Init /\ [][Next]_vars
=============================================================================
