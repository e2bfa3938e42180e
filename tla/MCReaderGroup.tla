---------------------------- MODULE MCReaderGroup ----------------------------
(***************************************************************************)
(* Small instances of ReaderGroup: two readers, behaviors that start in    *)
(* the three ways there are, and a handful of calls from three goroutines. *)
(***************************************************************************)
EXTENDS ReaderGroup, TLC

Endless == [name |-> "Endless", duration |-> 0, gpiTrigger |-> FALSE]
Timed   == [name |-> "Timed", duration |-> 1, gpiTrigger |-> FALSE]
Door    == [name |-> "Door", duration |-> 1, gpiTrigger |-> TRUE]

EndlessOrTimed == {Endless, Timed}
DoorOrTimed    == {Door, Timed}

\* Every reader can do everything, or the second one nothing that is timed.
AllAccept  == Device \X Behavior
SomeReject == {a \in AllAccept : a # <<"r2", Timed>>}

Goroutines == Permutations(Thread)
=============================================================================
