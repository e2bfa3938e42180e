----------------------------- MODULE TagReports -----------------------------
(***************************************************************************)
(* What becomes of a tag report on its way from a reader to the inventory: *)
(* which parameters NewConfig asks for, which a reader leaves out because  *)
(* they have not changed, and how ProcessTagReport, behavior.go 318-469,   *)
(* completes the report before the task loop gives it to the TagProcessor. *)
(*                                                                         *)
(* The nine optional parameters that fillAmbiguousNil names are treated    *)
(* alike.  Reports are processed in full and in order, as it assumes       *)
(* (342-343).  What a reader leaves out is external: the rule of LLRP that *)
(* behavior.go quotes (373-379).                                           *)
(***************************************************************************)

CONSTANTS
  Param,          \* optional parameters of TagReportData, by the names there
  Value,          \* what a reader may report for a parameter
  Zero,           \* Go's zero value of a parameter
  Nil             \* a parameter that is not in the report

VARIABLES
  vendor,         \* whose reader it is, which decides the type of the device
  device,         \* of BasicDevice: its selector and the values seen last
  enabled,        \* the parameters the reader was told to report
  sent,           \* the last value of each parameter the reader has sent
  read,           \* history: what the reader had to say last
  tag             \* the TagReportData of it, as the task loop processes it

vars == <<vendor, device, enabled, sent, read, tag>>

Absent == [p \in Param |-> Nil]

\* NewBasicDevice, 229-251: of the selector it says nothing, so that it enables
\* nothing, and no code writes it later.
NewBasicDevice == [report |-> {}, lastData |-> [p \in Param |-> Zero]]

\* NewConfig, 276-289; the Impinj device asks for the same (291-300), and for
\* a signal strength of its own on top.
NewConfig == {"LastSeenUTC", "AntennaID", "PeakRSSI"}

\* fillAmbiguousNil, 385-469: an absent parameter gets the last value, a present
\* one becomes it, as long as the selector has it enabled.
Filled(d, t) ==
  [p \in Param |-> IF p \in d.report /\ t[p] = Nil THEN d.lastData[p] ELSE t[p]]

Remembered(d, t) ==
  [d EXCEPT !.lastData =
     [p \in Param |-> IF p \in d.report /\ t[p] # Nil THEN t[p] ELSE d.lastData[p]]]

\* ProcessTagReport, 326-333: an Impinj reader is trusted to leave out nothing.
ProcessTagReport(t) ==
  IF vendor = "Impinj"
    THEN tag' = t /\ UNCHANGED device
    ELSE tag' = Filled(device, t) /\ device' = Remembered(device, t)

\* AddReader makes a new device and configures the reader, which starts anew;
\* again when it reconnects.
Connect ==
  /\ device' = NewBasicDevice
  /\ enabled' = NewConfig \cap Param
  /\ sent' = Absent /\ read' = Absent /\ tag' = Absent
  /\ UNCHANGED vendor

\* The reader has read a tag, and leaves out what it sent before: all of it, or
\* some; but an Impinj reader nothing.
Report ==
  \E values \in [enabled -> Value] :
  \E omitted \in SUBSET {p \in enabled : sent[p] = values[p]} :
     /\ vendor = "Impinj" => omitted = {}
     /\ read' = [p \in Param |-> IF p \in enabled THEN values[p] ELSE Nil]
     /\ sent' = [p \in Param |-> IF p \in enabled \ omitted THEN values[p] ELSE sent[p]]
     /\ ProcessTagReport([p \in Param |-> IF p \in enabled \ omitted THEN values[p] ELSE Nil])
     /\ UNCHANGED <<vendor, enabled>>

Init ==
  /\ vendor \in {"Impinj", "Other"}
  /\ device = NewBasicDevice
  /\ enabled = NewConfig \cap Param
  /\ sent = Absent /\ read = Absent /\ tag = Absent

Next == Connect \/ Report

Spec == Init /\ [][Next]_vars
-----------------------------------------------------------------------------
(* Correctness *)

\* "Currently, it fills in ambiguous nil values in the report data, according
\* to LLRP's rules" (behavior.go 324-325): what the inventory is given is what
\* the reader read, whatever it left out because it had said so before.
NilsFilled == tag = read
=============================================================================
