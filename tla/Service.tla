------------------------------- MODULE Service -------------------------------
(***************************************************************************)
(* The whole service: the reader group and the task loop in one process.   *)
(* Initialize (app.go 68-120) adds the readers there are, then             *)
(* RunUntilCancelled (128-178) starts the task loop and the SDK's          *)
(* pipeline, whose goroutines handle events and HTTP requests and call the *)
(* group and the loop.  The two meet where the task loop, with a tag       *)
(* report in hand, asks the group for its reader (controller.go 217) and   *)
(* waits for the group's mutex, which SetBehavior holds while it talks to  *)
(* devices: until then the loop does nothing else, for anybody.            *)
(*                                                                         *)
(* This process does not crash, and no reader restarts: see TaskLoop and   *)
(* ReaderGroup for that.                                                   *)
(***************************************************************************)
EXTENDS Integers, Sequences, FiniteSets

CONSTANTS
  Device, Behavior, Accepts, Impinj, InitialBehavior, Nobody, MaxTries, Lags,
  QueueSize, Torn,
  Handler,        \* goroutines of the SDK
  Caller,         \* those of them that also call the task loop
  Main,           \* the goroutine of main
  TheLoop,        \* the goroutine of the task loop
  Existing,       \* response.Devices: the readers known to the device service
                  \* when the process starts
  Asked,          \* bound: what handlers are asked to do with the group
  MaxOps,         \* bound: how many operations on the group are started
  MaxChanges      \* bound: changes made to the inventory

Goroutine == Handler \cup {Main, TheLoop}

\* Those of its parts, and which goroutine is which.
ASSUME ServiceAssumption ==
  /\ Behavior \subseteq [name : STRING, duration : Nat, gpiTrigger : BOOLEAN]
  /\ Accepts \subseteq Device \X Behavior
  /\ Impinj \subseteq Device
  /\ InitialBehavior \in Behavior
  /\ Nobody \notin Goroutine
  /\ MaxTries \in Nat \ {0} /\ Lags \subseteq Nat /\ MaxOps \in Nat
  /\ QueueSize \in Nat \ {0} /\ MaxChanges \in Nat
  /\ Caller \subseteq Handler
  /\ Existing \subseteq Device
  /\ Main \notin Handler /\ TheLoop \notin Handler \cup {Main}

VARIABLES
  loop, snapshot, file, eventCh, publisher, caller, cancelled, changes, crashes,
  published, dropped, unsaved,
  group, behavior, mu, local, device, lag, ops, resets, suspect, promised, wanted,
  existing        \* those of Existing that Initialize has yet to add

Loop  == INSTANCE TaskLoop WITH MaxCrashes <- 0
Group == INSTANCE ReaderGroup WITH
           Thread <- Goroutine, Uncounted <- {Main, TheLoop},
           MaxResets <- 0

loopVars  == <<loop, snapshot, file, eventCh, publisher, caller, cancelled,
               changes, crashes, published, dropped, unsaved>>
groupVars == <<group, behavior, mu, local, device, lag, ops, resets, suspect,
               promised, wanted>>
vars      == <<loopVars, groupVars, existing>>

Init ==
  /\ Loop!Init /\ Group!Init
  /\ existing = Existing

\* One after the other, whether or not the one before could be added
\* (app.go 111-118).
AddExisting ==
  /\ \E d \in existing : Group!CallAddReader(Main, d) /\ existing' = existing \ {d}
  /\ UNCHANGED loopVars

\* Initialize has returned.
Running == existing = {} /\ local[Main].op = "None"

OnlyGroup == UNCHANGED <<loopVars, existing>>
OnlyLoop  == UNCHANGED <<groupVars, existing>>

\* A goroutine goes on with its call on the group.
WorksOnGroup(t) == Group!Continues(t) /\ OnlyGroup
GetsMutex(t)    == Group!WantWrite(t) /\ OnlyGroup

\* Mutant of Handles: a goroutine may turn to the loop in the middle of its call
\* on the group, whatever it holds there.
HandlesBoth(h) ==
  \/ Running /\ Group!Starts(h) /\ local'[h].op \in Asked /\ OnlyGroup
  \/ h \in Caller /\ (Loop!Send(h, "Config") \/ (Running /\ Loop!Calls(h))) /\ OnlyLoop
  \/ h \in Caller /\ Loop!Return(h) /\ OnlyLoop

\* A handler is called, and does one thing at a time.  Configurations arrive
\* before Initialize has returned (app.go 88), and then wait.
Handles(h) ==
  \/ /\ Running
     /\ h \in Caller => caller[h].call = "None"
     /\ Group!Starts(h) /\ local'[h].op \in Asked
     /\ OnlyGroup
  \/ /\ h \in Caller /\ local[h].op = "None"
     /\ \/ Loop!Send(h, "Config")
        \/ Running /\ Loop!Calls(h)
     /\ OnlyLoop
  \/ h \in Caller /\ Loop!Return(h) /\ OnlyLoop

\* The report is taken, and ProcessTagReport called (controller.go 212-217).
TakesReport(c) == Loop!TakeReport(c) /\ Group!CallLook(TheLoop) /\ UNCHANGED existing

WaitsForGroup == Group!WantRead(TheLoop) /\ OnlyGroup

\* ProcessTagReport returns, and the report is processed (217-230).
ProcessesReport ==
  Group!FinishLook(TheLoop) /\ Loop!ProcessReport /\ UNCHANGED existing

TakesOther(c) == (Loop!ConfigUpdate(c) \/ Loop!SnapshotRequest(c)) /\ OnlyLoop
Ticks         == Loop!TickerFires /\ OnlyLoop
Stops         == Loop!Stop /\ OnlyLoop

\* The loop's steps outside its select; it runs once Initialize has returned.
LoopGoesOn ==
  \/ Running /\ Loop!Load /\ OnlyLoop
  \/ WaitsForGroup \/ ProcessesReport
  \/ (Loop!Open \/ Loop!Write \/ Loop!HandOver \/ Loop!WaitForPublisher) /\ OnlyLoop

Publishes == (Loop!Receive \/ Loop!Publish) /\ OnlyLoop

\* The handler of signals is there once RunUntilCancelled is (app.go 150-157).
IsCancelled == Running /\ Loop!Cancel /\ OnlyLoop

\* Nothing is left to do.
Ended == Loop!At("Stopped") /\ ops = MaxOps /\ Group!AllReturned /\ UNCHANGED vars

Next ==
  \/ AddExisting
  \/ \E t \in Handler \cup {Main} : WorksOnGroup(t)
  \/ \E h \in Handler : Handles(h)
  \/ \E c \in Caller : TakesReport(c) \/ TakesOther(c)
  \/ Ticks \/ Stops \/ LoopGoesOn \/ Publishes
  \/ IsCancelled
  \/ Ended

Spec == Init /\ [][Next]_vars

\* As in TaskLoop and ReaderGroup: goroutines run, devices answer one way or
\* another, Publish and writes to the clients return, the select is fair to its
\* cases and the mutex to its writers.
LiveSpec ==
  /\ Spec
  /\ WF_vars(AddExisting)
  /\ \A t \in Handler \cup {Main} : WF_vars(WorksOnGroup(t)) /\ SF_vars(GetsMutex(t))
  /\ WF_vars(LoopGoesOn) /\ WF_vars(Publishes) /\ SF_vars(Stops)
  /\ \A c \in Caller :
       /\ SF_vars(TakesReport(c) \/ TakesOther(c))
       /\ WF_vars(Loop!Return(c) /\ OnlyLoop)
-----------------------------------------------------------------------------
(* Correctness *)

AsksLoop(t) == t \in Caller /\ caller[t].call \in {"Config", "Report", "Snapshot"}

InitializeRuns ==
  IF local[Main].op = "None" THEN existing # {} ELSE ~Group!Waits(Main)

LoopNotAbandoned ==
  /\ Loop!At("Load") => Running \/ InitializeRuns
  /\ Loop!At("Report") => local[TheLoop].op = "Look"
  /\ Loop!NotAbandoned

\* The mutex and the channels are not waited for in a circle.  When a goroutine
\* waits for the group's mutex, another holds it that waits neither for the mutex
\* nor for the task loop, which may itself be the one that waits (controller.go
\* 217, reader_group.go 66-109, 134-151, 194-301).  And when the loop cannot go
\* on, somebody it waits for can: Initialize, which never has to wait, before the
\* loop runs (app.go 111-118); those who hold the mutex, while it asks the group;
\* the publisher at other times.
NobodyInCircle ==
  /\ \A t \in Goroutine : Group!Waits(t) =>
       \E u \in Goroutine : Group!Holds(u) /\ ~Group!Waits(u) /\ ~AsksLoop(u)
  /\ LoopNotAbandoned

\* Every call on the group returns, those of Initialize and of the task loop
\* too: SetBehavior, StartAll and StopAll talk to devices with the mutex in
\* hand, and give it back on every path (reader_group.go 194-236, 255-300).
CallsReturn == Group!CallsReturn

\* A reader that the device service notices before GetCapabilities has asked for
\* the last time (device_service.go 103-140), and about which no error is met,
\* joins in the end, though it has to wait for the mutex and others with it.
LateReaderJoins == Group!LateReaderJoins

\* A signal stops the task loop, though it may be waiting for the group's mutex
\* (controller.go 217) and the mutex for devices.
SignalStops == Loop!SignalStops

\* Who sends to the task loop or asks it for a snapshot is served, though the
\* loop waits for the group (controller.go 217, 274-279), unless the loop has
\* stopped, or was never asked before Initialize returned.
CallersServed == Loop!CallersServed
=============================================================================
