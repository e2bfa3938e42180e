------------------------------ MODULE TaskLoop ------------------------------
(***************************************************************************)
(* The life of the service's process: the task loop of                     *)
(* internal/inventory/app/controller.go and the goroutine that publishes   *)
(* its events, the goroutines that wait for the loop on the unbuffered     *)
(* channels reports, confUpdateCh and snapshotReqs, shutdown and crashes.  *)
(*                                                                         *)
(* What a change to the inventory is, TagProcessor says; here changes are  *)
(* numbered as they are made, and a snapshot is the set of the changes it  *)
(* shows.  A batch of events is named by the change it reports.            *)
(***************************************************************************)
EXTENDS Integers, Sequences, Functions

CONSTANTS
  Caller,         \* goroutines of the SDK: message handlers, REST handlers
  QueueSize,      \* eventChSz: 100 in the code
  Torn,           \* the content of a file that was truncated and not written
  MaxChanges,     \* bound: changes made to the inventory
  MaxCrashes      \* bound: how often the process dies and is started again

ASSUME TaskLoopAssumption ==
  /\ QueueSize \in Nat \ {0}
  /\ MaxChanges \in Nat /\ MaxCrashes \in Nat

VARIABLES
  loop,           \* the task loop: where it is, and the batch it has to send
  snapshot,       \* taskLoop's variable snapshot
  file,           \* cache/tags.json
  eventCh,        \* [batches, closed]
  publisher,      \* the goroutine that ranges over eventCh
  caller,         \* what each calling goroutine waits for
  cancelled,      \* ctx.Done() is closed
  changes,        \* counter: changes made so far
  crashes,        \* counter for the bound
  published,      \* history: batches on the message bus, in the order they came
  dropped,        \* history: batches whose Publish failed, or that a crash
                  \* found still in the channel
  unsaved         \* history: changes a failed write or torn file cost us

vars == <<loop, snapshot, file, eventCh, publisher, caller, cancelled,
          changes, crashes, published, dropped, unsaved>>

Change == 1..MaxChanges
NoBatch == 0

At(label)          == loop.pc = label
Goto(label, batch) == loop' = [pc |-> label, batch |-> batch]

Idle          == [call |-> "None", seen |-> {}, answer |-> {}]
Sending(c, k) == caller[c].call = k
Release(c)    == caller' = [caller EXCEPT ![c] = Idle]

\* Opened by the task loop before it selects for the first time.
OpenEventCh   == [batches |-> <<>>, closed |-> FALSE]
AwaitsBatch   == [pc |-> "Range", batch |-> NoBatch]
Handed        == Range(eventCh.batches) \cup ({publisher.batch, loop.batch} \ {NoBatch})
-----------------------------------------------------------------------------
(* Callers: processEdgeXEvent, processConfigUpdates and                    *)
(* requestInventorySnapshot, each until its send on a channel.             *)

Send(c, k) ==
  /\ caller[c].call = "None"
  /\ caller' = [caller EXCEPT ![c] =
                  [call |-> k, answer |-> {},
                   seen |-> IF k = "Snapshot" THEN Range(published) ELSE {}]]
  /\ UNCHANGED <<loop, snapshot, file, eventCh, publisher, cancelled,
                 changes, crashes, published, dropped, unsaved>>

\* A caller of requestInventorySnapshot has read its answer.
Return(c) ==
  /\ Sending(c, "Answered")
  /\ Release(c)
  /\ UNCHANGED <<loop, snapshot, file, eventCh, publisher, cancelled,
                 changes, crashes, published, dropped, unsaved>>
-----------------------------------------------------------------------------
(* The task loop, 161-282 *)

\* 172-199: a file that is missing or cannot be decoded is no snapshot at all.
Load ==
  /\ At("Load")
  /\ snapshot' = IF file = Torn THEN {} ELSE file
  /\ unsaved' = unsaved \cup (1..changes \ snapshot')
  /\ Goto("Select", NoBatch)
  /\ eventCh' = OpenEventCh
  /\ publisher' = AwaitsBatch
  /\ UNCHANGED <<file, caller, cancelled, changes, crashes, published, dropped>>

\* A change, with events to hand over or not.
Changed ==
  /\ changes < MaxChanges
  /\ changes' = changes + 1
  /\ snapshot' = snapshot \cup {changes'}

\* 212: the report is taken, and its sender goes on.
TakeReport(c) ==
  /\ At("Select") /\ Sending(c, "Report")
  /\ Goto("Report", NoBatch)
  /\ Release(c)
  /\ UNCHANGED <<snapshot, file, eventCh, publisher, cancelled, changes, crashes,
                 published, dropped, unsaved>>

\* Mutant of ProcessReport: the events are sent before the snapshot is written.
ProcessReportUnsaved ==
  /\ At("Report")
  /\ Changed
  /\ Goto("Send", changes') \/ Goto("Select", NoBatch)
  /\ UNCHANGED <<file, eventCh, publisher, caller, cancelled, crashes, published,
                 dropped, unsaved>>

\* 217-230: the new snapshot is kept; it is written when there are events.  A
\* report may also say nothing new.
ProcessReport ==
  /\ At("Report")
  /\ \/ Changed /\ (Goto("Open", changes') \/ Goto("Select", NoBatch))
     \/ UNCHANGED <<snapshot, changes>> /\ Goto("Select", NoBatch)
  /\ UNCHANGED <<file, eventCh, publisher, caller, cancelled, crashes, published,
                 dropped, unsaved>>

\* Mutant of TickerFires: the snapshot is not renewed.
TickerFiresStale ==
  /\ At("Select")
  /\ changes < MaxChanges
  /\ changes' = changes + 1
  /\ Goto("Open", changes') \/ Goto("Open", NoBatch)
  /\ UNCHANGED <<snapshot, file, eventCh, publisher, caller, cancelled, crashes,
                 published, dropped, unsaved>>

\* 232-241 when tags departed, 243-248 when tags aged out: always written,
\* and events only for the former.  Mostly there are none of either.
TickerFires ==
  /\ At("Select")
  /\ \/ Changed /\ (Goto("Open", changes') \/ Goto("Open", NoBatch))
     \/ UNCHANGED <<snapshot, changes, loop>>
  /\ UNCHANGED <<file, eventCh, publisher, caller, cancelled, crashes, published,
                 dropped, unsaved>>

\* Mutant of ConfigUpdate: after an invalid configuration the loop ends.
ConfigUpdateReturns(c) ==
  /\ At("Select") /\ Sending(c, "Config")
  /\ Release(c)
  /\ UNCHANGED loop \/ Goto("Wait", NoBatch)
  /\ UNCHANGED <<snapshot, file, eventCh, publisher, cancelled, changes,
                 crashes, published, dropped, unsaved>>

\* 250-272: a valid configuration is used from here on, an invalid one dropped.
ConfigUpdate(c) ==
  /\ At("Select") /\ Sending(c, "Config")
  /\ Release(c)
  /\ UNCHANGED <<loop, snapshot, file, eventCh, publisher, cancelled, changes,
                 crashes, published, dropped, unsaved>>

\* 274-279: the answer is the loop's snapshot; the result channel has room.
SnapshotRequest(c) ==
  /\ At("Select") /\ Sending(c, "Snapshot")
  /\ caller' = [caller EXCEPT ![c] =
                  [call |-> "Answered", answer |-> snapshot, seen |-> caller[c].seen]]
  /\ UNCHANGED <<loop, snapshot, file, eventCh, publisher, cancelled, changes,
                 crashes, published, dropped, unsaved>>

\* Mutant of Stop: the channel stays open.
StopLeavesOpen ==
  /\ At("Select") /\ cancelled
  /\ Goto("Wait", NoBatch)
  /\ UNCHANGED <<snapshot, file, eventCh, publisher, caller, cancelled, changes,
                 crashes, published, dropped, unsaved>>

\* 204-207
Stop ==
  /\ At("Select") /\ cancelled
  /\ eventCh' = [eventCh EXCEPT !.closed = TRUE]
  /\ Goto("Open", NoBatch)
  /\ UNCHANGED <<snapshot, file, publisher, caller, cancelled, changes, crashes,
                 published, dropped, unsaved>>

\* persistSnapshot, 284-297.  os.WriteFile truncates the file, then writes
\* it; an error of either is logged, and the loop goes on.
AfterPersist ==
  IF eventCh.closed THEN Goto("Wait", NoBatch)
  ELSE IF loop.batch # NoBatch THEN Goto("Send", loop.batch)
  ELSE Goto("Select", NoBatch)

Open ==
  /\ At("Open")
  /\ \/ file' = Torn /\ Goto("Write", loop.batch) /\ UNCHANGED unsaved
     \/ AfterPersist /\ unsaved' = unsaved \cup snapshot /\ UNCHANGED file
  /\ UNCHANGED <<snapshot, eventCh, publisher, caller, cancelled, changes, crashes,
                 published, dropped>>

Write ==
  /\ At("Write")
  /\ \/ file' = snapshot /\ unsaved' = unsaved \ snapshot
     \/ unsaved' = unsaved \cup snapshot /\ UNCHANGED file
  /\ AfterPersist
  /\ UNCHANGED <<snapshot, eventCh, publisher, caller, cancelled, changes, crashes,
                 published, dropped>>

\* Mutant of HandOver: the channel takes whatever is sent.
HandOverAtOnce ==
  /\ At("Send")
  /\ eventCh' = [eventCh EXCEPT !.batches = Append(@, loop.batch)]
  /\ Goto("Select", NoBatch)
  /\ UNCHANGED <<snapshot, file, publisher, caller, cancelled, changes, crashes,
                 published, dropped, unsaved>>

\* 229, 240: the loop waits here while eventCh is full.
HandOver ==
  /\ At("Send")
  /\ Len(eventCh.batches) < QueueSize
  /\ eventCh' = [eventCh EXCEPT !.batches = Append(@, loop.batch)]
  /\ Goto("Select", NoBatch)
  /\ UNCHANGED <<snapshot, file, publisher, caller, cancelled, changes, crashes,
                 published, dropped, unsaved>>

\* Mutant of WaitForPublisher: nobody waits.
WaitForNobody ==
  /\ At("Wait")
  /\ Goto("Stopped", NoBatch)
  /\ UNCHANGED <<snapshot, file, eventCh, publisher, caller, cancelled, changes,
                 crashes, published, dropped, unsaved>>

\* 208-210
WaitForPublisher ==
  /\ At("Wait") /\ publisher.pc = "Done"
  /\ Goto("Stopped", NoBatch)
  /\ UNCHANGED <<snapshot, file, eventCh, publisher, caller, cancelled, changes,
                 crashes, published, dropped, unsaved>>
-----------------------------------------------------------------------------
(* The publisher, 188-199 *)

\* Mutant of Receive: the publisher leaves as soon as the channel is closed.
ReceiveUntilClosed ==
  /\ publisher.pc = "Range"
  /\ \/ /\ eventCh.batches # <<>>
        /\ publisher' = [pc |-> "Publish", batch |-> Head(eventCh.batches)]
        /\ eventCh' = [eventCh EXCEPT !.batches = Tail(@)]
     \/ /\ eventCh.closed
        /\ publisher' = [pc |-> "Done", batch |-> NoBatch]
        /\ UNCHANGED eventCh
  /\ UNCHANGED <<loop, snapshot, file, caller, cancelled, changes, crashes,
                 published, dropped, unsaved>>

\* Mutant of Receive: of several batches any may be first, as if each were
\* published by a goroutine of its own.
ReceiveAny ==
  /\ publisher.pc = "Range"
  /\ \/ \E i \in DOMAIN eventCh.batches :
          /\ publisher' = [pc |-> "Publish", batch |-> eventCh.batches[i]]
          /\ eventCh' = [eventCh EXCEPT !.batches =
                           SubSeq(@, 1, i - 1) \o SubSeq(@, i + 1, Len(@))]
     \/ /\ eventCh.batches = <<>> /\ eventCh.closed
        /\ publisher' = [pc |-> "Done", batch |-> NoBatch]
        /\ UNCHANGED eventCh
  /\ UNCHANGED <<loop, snapshot, file, caller, cancelled, changes, crashes,
                 published, dropped, unsaved>>

Receive ==
  /\ publisher.pc = "Range"
  /\ \/ /\ eventCh.batches # <<>>
        /\ publisher' = [pc |-> "Publish", batch |-> Head(eventCh.batches)]
        /\ eventCh' = [eventCh EXCEPT !.batches = Tail(@)]
     \/ /\ eventCh.batches = <<>> /\ eventCh.closed
        /\ publisher' = [pc |-> "Done", batch |-> NoBatch]
        /\ UNCHANGED eventCh
  /\ UNCHANGED <<loop, snapshot, file, caller, cancelled, changes, crashes,
                 published, dropped, unsaved>>

\* publishEvents, 301-329: a batch that cannot be published is not retried.
Publish ==
  /\ publisher.pc = "Publish"
  /\ \/ published' = Append(published, publisher.batch) /\ UNCHANGED dropped
     \/ dropped' = dropped \cup {publisher.batch} /\ UNCHANGED published
  /\ publisher' = AwaitsBatch
  /\ UNCHANGED <<loop, snapshot, file, eventCh, caller, cancelled, changes, crashes,
                 unsaved>>
-----------------------------------------------------------------------------
(* The process *)

\* RunUntilCancelled's signal handler, app.go 150-157.
Cancel ==
  /\ ~cancelled
  /\ cancelled' = TRUE
  /\ UNCHANGED <<loop, snapshot, file, eventCh, publisher, caller, changes, crashes,
                 published, dropped, unsaved>>

\* The process ends, at any moment, whether or not the loop has stopped (also
\* when service.Run returns an error, 166-168), and a new one is started.
\* Nothing but the file is left of it; its callers' connections break.
Restart ==
  /\ crashes < MaxCrashes
  /\ crashes' = crashes + 1
  /\ Goto("Load", NoBatch)
  /\ snapshot' = {}
  /\ eventCh' = OpenEventCh
  /\ publisher' = [pc |-> "Done", batch |-> NoBatch]
  /\ caller' = [c \in Caller |-> Idle]
  /\ cancelled' = FALSE
  /\ dropped' = dropped \cup Handed
  /\ UNCHANGED <<file, changes, published, unsaved>>

Init ==
  /\ loop = [pc |-> "Load", batch |-> NoBatch]
  /\ snapshot = {}
  /\ file = {}
  /\ eventCh = OpenEventCh
  /\ publisher = [pc |-> "Done", batch |-> NoBatch]
  /\ caller = [c \in Caller |-> Idle]
  /\ cancelled = FALSE
  /\ changes = 0 /\ crashes = 0
  /\ published = <<>> /\ dropped = {} /\ unsaved = {}

Calls(c) == \E k \in {"Report", "Config", "Snapshot"} : Send(c, k)
Select(c) == TakeReport(c) \/ ConfigUpdate(c) \/ SnapshotRequest(c)
Proceed == Load \/ ProcessReport \/ Open \/ Write \/ HandOver \/ WaitForPublisher

\* The process has ended, and is not started again.
Ended == At("Stopped") /\ UNCHANGED vars

Next ==
  \/ \E c \in Caller : Calls(c) \/ Select(c) \/ Return(c)
  \/ TickerFires
  \/ Stop
  \/ Proceed
  \/ Receive \/ Publish
  \/ Cancel
  \/ Restart
  \/ Ended

Spec == Init /\ [][Next]_vars

\* Goroutines run and Publish returns.  Go's select picks at random among
\* the cases that are ready, so that one which is ready again and again is
\* picked in the end: strong fairness for each case.
LiveSpec ==
  /\ Spec
  /\ WF_vars(Proceed)
  /\ WF_vars(Receive \/ Publish)
  /\ SF_vars(Stop)
  /\ \A c \in Caller : SF_vars(Select(c)) /\ WF_vars(Return(c))
-----------------------------------------------------------------------------
(* Correctness *)

\* Every variable has the type of the Go value it stands for.
TypeOK ==
  /\ loop \in [pc : {"Load", "Select", "Report", "Open", "Write", "Send", "Wait", "Stopped"},
               batch : Change \cup {NoBatch}]
  /\ snapshot \subseteq Change
  /\ file = Torn \/ file \in SUBSET Change
  /\ eventCh \in [batches : Seq(Change), closed : BOOLEAN]
  /\ Len(eventCh.batches) <= QueueSize
  /\ publisher \in [pc : {"Range", "Publish", "Done"}, batch : Change \cup {NoBatch}]
  /\ caller \in [Caller -> [call : {"None", "Report", "Config", "Snapshot", "Answered"},
                            seen : SUBSET Change, answer : SUBSET Change]]
  /\ cancelled \in BOOLEAN
  /\ changes \in 0..MaxChanges /\ crashes \in 0..MaxCrashes
  /\ published \in Seq(Change) /\ dropped \subseteq Change /\ unsaved \subseteq Change

\* What the message bus was told, a restart does not forget: the change is in
\* the cache file before its events are in the channel (controller.go
\* 228-229), unless writing it failed or a crash came while the file was open.
PublishedIsSaved ==
  file # Torn => Range(published) \ unsaved \subseteq file

\* A snapshot shows every change whose events were on the bus when it was
\* asked for: "callers of the REST API ... get a race-free result"
\* (controller.go 146-148).
AnswersAreCurrent ==
  \A c \in Caller : caller[c].call = "Answered" =>
     caller[c].seen \subseteq caller[c].answer \cup unsaved

\* When the task loop has stopped, every batch it handed over was published
\* or its Publish failed, and the file shows all that was ever read, unless
\* writing it failed (controller.go 206-208).
StopsClean ==
  At("Stopped") =>
     /\ eventCh.batches = <<>> /\ publisher.pc = "Done"
     /\ file = snapshot \/ snapshot \subseteq unsaved

\* Subscribers get the batches in the order of the changes they report, none
\* of them twice, though a batch passes through the loop, the channel and the
\* publisher, and the process may end at any moment (188-199, 229, 240).
InHand(batch) == IF batch = NoBatch THEN <<>> ELSE <<batch>>

Pending == InHand(publisher.batch) \o eventCh.batches \o InHand(loop.batch)

Bus == INSTANCE EventBus WITH
         made <- changes, pending <- Pending, bus <- published, lost <- dropped

DeliversInOrder == Bus!Spec

\* The loop is not left alone: while it waits for room in the channel, or for the
\* publisher to end, the publisher is there and has something to do
\* (controller.go 206-210, 229, 240).
PublisherRuns ==
  \/ publisher.pc = "Publish"
  \/ publisher.pc = "Range" /\ (eventCh.batches # <<>> \/ eventCh.closed)

NotAbandoned ==
  /\ At("Send") => Len(eventCh.batches) < QueueSize \/ PublisherRuns
  /\ At("Wait") => publisher.pc = "Done" \/ PublisherRuns

\* A batch handed over is published, or its Publish fails, or the process
\* ends: also when the loop stops in the meantime.
BatchesLeave ==
  \A b \in Change : b \in Handed ~> b \in Range(published) \cup dropped

\* A signal stops the loop, however busy it is, with the channel full or not.
SignalStops == cancelled ~> At("Stopped") \/ ~cancelled

\* While the loop has not stopped, whoever calls it is served.
CallersServed ==
  \A c \in Caller : caller[c].call # "None" ~> caller[c].call = "None" \/ At("Stopped")
=============================================================================
