---------------------------- MODULE TagLifecycle ----------------------------
(***************************************************************************)
(* What the inventory promises to whoever follows its event stream, with   *)
(* nothing of how it decides: which events a tag may have in which order,  *)
(* and what the stream's follower still knows after a restart.             *)
(*                                                                         *)
(* It states what event.go and the README say of the Arrived, Moved and    *)
(* Departed events; TagProcessor is shown to implement it.                 *)
(***************************************************************************)
EXTENDS Integers

CONSTANTS
  EPC,      \* the tags
  Label     \* the names of locations, an operator's aliases included

VARIABLES
  view,     \* per tag: is it absent, present or departed, and where
  events,   \* the events of the last step, each [type, epc, ...]
  told      \* the tags that the events handed over so far say are present

vars == <<view, events, told>>

\* `located' is false of a tag that only antennas without a name have read.
Absent  == [state |-> "Absent"]
Here(l, b)  == [state |-> "Present", label |-> l, located |-> b]
Gone(l, b)  == [state |-> "Departed", label |-> l, located |-> b]
View == {Absent} \cup {Here(l, b) : l \in Label, b \in BOOLEAN}
                 \cup {Gone(l, b) : l \in Label, b \in BOOLEAN}

Arrived(e, l)        == [type |-> "Arrived", epc |-> e, location |-> l]
Moved(e, old, new)   == [type |-> "Moved", epc |-> e, oldLocation |-> old,
                         newLocation |-> new]
Departed(e, l)       == [type |-> "Departed", epc |-> e, lastKnownLocation |-> l]

PresentTags == {e \in EPC : view[e].state = "Present"}

Init ==
  /\ view = [e \in EPC |-> Absent]
  /\ events = {}
  /\ told = {}

\* Seen for the first time, or again after it departed or was forgotten.
Arrive(e) ==
  /\ e \notin PresentTags
  /\ \E l \in Label, b \in BOOLEAN :
       /\ view' = [view EXCEPT ![e] = Here(l, b)]
       /\ events' = {Arrived(e, l)}
  /\ UNCHANGED told

\* A tag that moves was present, at the location the stream last gave for
\* it, and goes to one the stream can tell from it.
Move(e) ==
  /\ e \in PresentTags
  /\ view[e].located
  /\ \E l \in Label :
       /\ l # view[e].label
       /\ view' = [view EXCEPT ![e] = [@ EXCEPT !.label = l]]
       /\ events' = {Moved(e, view[e].label, l)}
  /\ UNCHANGED told

\* The first known location of a tag that arrived without one: no event.
Locate(e) ==
  /\ e \in PresentTags
  /\ ~view[e].located
  /\ \E l \in Label : view' = [view EXCEPT ![e] = Here(l, TRUE)]
  /\ events' = {}
  /\ UNCHANGED told

\* The end of a batch: its events are the stream's, and what they say of
\* who is present is what the inventory says.
HandOver ==
  /\ told' = PresentTags
  /\ events' = {}
  /\ UNCHANGED view

\* Tags that were not seen for long enough, between batches; one event each.
Depart(gone) ==
  /\ told = PresentTags
  /\ gone # {}
  /\ gone \subseteq PresentTags
  /\ view' = [e \in EPC |-> IF e \in gone
                            THEN Gone(view[e].label, view[e].located) ELSE view[e]]
  /\ events' = {Departed(e, view[e].label) : e \in gone}
  /\ told' = told \ gone

\* Only tags whose departure is on the stream are forgotten.
Forget(old) ==
  /\ \A e \in old : view[e].state = "Departed" /\ e \notin told
  /\ view' = [e \in EPC |-> IF e \in old THEN Absent ELSE view[e]]
  /\ events' = {}
  /\ UNCHANGED told

\* The operator renames locations: no tag comes or goes, and no event says so.
Rename ==
  /\ view' \in [EPC -> View]
  /\ \A e \in EPC : /\ view'[e].state = view[e].state
                    /\ view[e] # Absent => view'[e].located = view[e].located
  /\ events' = {}
  /\ UNCHANGED told

\* A restart loses at most what was never handed over: the tags present
\* afterwards are those the stream says are.
Recover ==
  /\ view' \in [EPC -> View]
  /\ {e \in EPC : view'[e].state = "Present"} = told
  /\ events' = {}
  /\ UNCHANGED told

\* A step of which the stream shows nothing.
Quiet == events' = {} /\ UNCHANGED <<view, told>>

Next ==
  \/ \E e \in EPC : Arrive(e) \/ Move(e) \/ Locate(e)
  \/ HandOver
  \/ \E s \in SUBSET EPC : Depart(s) \/ Forget(s)
  \/ Rename
  \/ Recover
  \/ Quiet

Spec == Init /\ [][Next]_vars
=============================================================================
