--------------------------- MODULE ServiceProofs ---------------------------
(***************************************************************************)
(* What holds of the whole service, for any numbers of readers, handlers   *)
(* and callers, and any sizes.  Each of its steps is one of the task loop, *)
(* or one of the reader group, or one of both, so that the invariants of   *)
(* both hold here (Parts).  What is new is how they meet (Meeting): which  *)
(* goroutine may be at work in which part at which time.  From the two     *)
(* together it follows that nobody waits in a circle, through the group's  *)
(* mutex and the channels of the loop.                                     *)
(***************************************************************************)
EXTENDS Service, TLAPS

LP == INSTANCE TaskLoopProofs WITH MaxCrashes <- 0
GP == INSTANCE ReaderGroupProofs WITH
        Thread <- Goroutine, Uncounted <- {Main, TheLoop}, MaxResets <- 0

-----------------------------------------------------------------------------
(* What the proofs of the parts are about is what Service has parts of.    *)

LEMMA SameInits == (Loop!Init <=> LP!Init) /\ (Group!Init <=> GP!Init)
BY DEF Loop!Init, LP!Init, Loop!NoBatch, LP!NoBatch, Loop!OpenEventCh, LP!OpenEventCh,
       Loop!Idle, LP!Idle, Group!Init, GP!Init, Group!Unlocked, GP!Unlocked, Group!Returned,
       GP!Returned, Group!Send, GP!Send, Group!NoSpec, GP!NoSpec

LEMMA SameLoopSteps == Loop!Next <=> LP!Next
BY DEF Loop!Next, LP!Next, Loop!Calls, LP!Calls, Loop!Send, LP!Send, Loop!Select, LP!Select,
       Loop!TakeReport, LP!TakeReport, Loop!At, LP!At, Loop!Sending, LP!Sending, Loop!Goto,
       LP!Goto, Loop!NoBatch, LP!NoBatch, Loop!Release, LP!Release, Loop!Idle, LP!Idle,
       Loop!ConfigUpdate, LP!ConfigUpdate, Loop!SnapshotRequest, LP!SnapshotRequest,
       Loop!Return, LP!Return, Loop!TickerFires, LP!TickerFires, Loop!Changed, LP!Changed,
       Loop!Open, LP!Open, Loop!Write, LP!Write, Loop!AfterPersist, LP!AfterPersist, Loop!Stop,
       LP!Stop, Loop!Proceed, LP!Proceed, Loop!Load, LP!Load, Loop!OpenEventCh, LP!OpenEventCh,
       Loop!AwaitsBatch, LP!AwaitsBatch, Loop!ProcessReport, LP!ProcessReport, Loop!HandOver,
       LP!HandOver, Loop!WaitForPublisher, LP!WaitForPublisher, Loop!Receive, LP!Receive,
       Loop!Publish, LP!Publish, Loop!Cancel, LP!Cancel, Loop!Restart, LP!Restart, Loop!Handed,
       LP!Handed, Loop!Ended, LP!Ended, Loop!vars, LP!vars, Loop!Range, LP!Range

LEMMA SameStarts ==
  ASSUME NEW t
  PROVE  /\ Group!Starts(t) <=> GP!Starts(t)
         /\ Group!CallLook(t) <=> GP!CallLook(t)
BY DEF Group!Starts, GP!Starts, Group!CallAddReader, GP!CallAddReader, Group!Call, GP!Call,
       Group!Begin, GP!Begin, Group!Become, GP!Become, Group!Returned, GP!Returned, Group!Send,
       GP!Send, Group!WantIn, GP!WantIn, Group!Want, GP!Want, Group!InTransit, GP!InTransit,
       Group!InReach, GP!InReach, Group!CallRemoveReader, GP!CallRemoveReader,
       Group!CallSetBehavior, GP!CallSetBehavior, Group!CallAll, GP!CallAll, Group!CallLook,
       GP!CallLook

LEMMA SameContinues ==
  ASSUME NEW t
  PROVE  /\ Group!Continues(t) <=> GP!Continues(t)
         /\ Group!WantRead(t) <=> GP!WantRead(t)
         /\ Group!FinishLook(t) <=> GP!FinishLook(t)
BY DEF Group!Continues, GP!Continues, Group!GetCapabilities, GP!GetCapabilities, Group!At,
       GP!At, Group!Answers, GP!Answers, Group!Goto, GP!Goto, Group!Become, GP!Become,
       Group!Fail, GP!Fail, Group!Returned, GP!Returned, Group!Send, GP!Send,
       Group!AskedInVain, GP!AskedInVain, Group!Pass, GP!Pass, Group!EnableCustomExt,
       GP!EnableCustomExt, Group!SetConfig, GP!SetConfig, Group!NoSpec, GP!NoSpec, Group!RLock,
       GP!RLock, Group!WantRead, GP!WantRead, Group!RLocked, GP!RLocked, Group!Private,
       GP!Private, Group!CopyBehavior, GP!CopyBehavior, Group!RUnlock, GP!RUnlock,
       Group!ReplaceRO, GP!ReplaceRO, Group!ReplaceStep, GP!ReplaceStep, Group!Command,
       GP!Command, Group!Legal, GP!Legal, Group!Effect, GP!Effect, Group!ROSpec, GP!ROSpec,
       Group!StartTrigger, GP!StartTrigger, Group!Sent, GP!Sent, Group!WantInsert,
       GP!WantInsert, Group!ReplaceDone, GP!ReplaceDone, Group!Talking, GP!Talking,
       Group!WantWrite, GP!WantWrite, Group!Announce, GP!Announce, Group!Locked, GP!Locked,
       Group!Insert, GP!Insert, Group!Unlock, GP!Unlock, Group!Remove, GP!Remove, Group!Accept,
       GP!Accept, Group!Valid, GP!Valid, Group!Joining, GP!Joining, Group!FinishSetBehavior,
       GP!FinishSetBehavior, Group!EnterAll, GP!EnterAll, Group!NextOfAll, GP!NextOfAll,
       Group!CommandsOfAll, GP!CommandsOfAll, Group!CommandOfAll, GP!CommandOfAll,
       Group!Contended, GP!Contended, Group!FinishAll, GP!FinishAll, Group!FinishLook,
       GP!FinishLook

LEMMA SameGroupSteps == Group!Next <=> GP!Next
BY SameStarts, SameContinues
   DEF Group!Next, GP!Next, Group!Trigger, GP!Trigger, Group!Turn, GP!Turn, Group!StartTrigger,
       GP!StartTrigger, Group!Expire, GP!Expire, Group!StopTrigger, GP!StopTrigger,
       Group!Reset, GP!Reset, Group!InTransit, GP!InTransit, Group!NoSpec, GP!NoSpec,
       Group!Over, GP!Over, Group!AllReturned, GP!AllReturned, Group!vars, GP!vars
-----------------------------------------------------------------------------
(* The service does what its parts do. *)

StillKnown == existing \subseteq Existing

LEMMA SameVars ==
  /\ UNCHANGED loopVars => UNCHANGED Loop!vars /\ UNCHANGED LP!vars
  /\ UNCHANGED groupVars => UNCHANGED Group!vars /\ UNCHANGED GP!vars
BY DEF loopVars, groupVars, Loop!vars, LP!vars, Group!vars, GP!vars

LEMMA LoopStep == [Next]_vars => Loop!Next \/ UNCHANGED loopVars
<1> SUFFICES ASSUME [Next]_vars PROVE Loop!Next \/ UNCHANGED loopVars
  OBVIOUS
<1>1. ASSUME NEW h \in Handler, Handles(h) PROVE Loop!Next \/ UNCHANGED loopVars
  BY <1>1, ServiceAssumption DEF Handles, OnlyGroup, Loop!Next, Loop!Calls
<1>2. ASSUME NEW c \in Caller, TakesReport(c) \/ TakesOther(c) PROVE Loop!Next
  BY <1>2 DEF TakesReport, TakesOther, Loop!Next, Loop!Select
<1>3. CASE Ticks \/ Stops \/ Publishes \/ IsCancelled
  BY <1>3 DEF Ticks, Stops, Publishes, IsCancelled, Loop!Next
<1>4. CASE LoopGoesOn
  BY <1>4 DEF LoopGoesOn, WaitsForGroup, ProcessesReport, OnlyGroup, Loop!Next, Loop!Proceed
<1>5. CASE AddExisting \/ \E t \in Handler \cup {Main} : WorksOnGroup(t)
  BY <1>5 DEF AddExisting, WorksOnGroup, OnlyGroup
<1>6. CASE UNCHANGED vars
  BY <1>6 DEF vars
<1> QED BY <1>1, <1>2, <1>3, <1>4, <1>5, <1>6 DEF Next, Ended

\* The calls of Initialize and of the loop are some of a goroutine's, too.
LEMMA GroupStep == StillKnown /\ [Next]_vars => Group!Next \/ UNCHANGED groupVars
<1> SUFFICES ASSUME StillKnown, [Next]_vars PROVE Group!Next \/ UNCHANGED groupVars
  OBVIOUS
<1>1. ASSUME NEW t \in Goroutine, Group!Starts(t) \/ Group!Continues(t) PROVE Group!Next
  BY <1>1 DEF Group!Next
<1>2. CASE AddExisting
  BY <1>1, <1>2, ServiceAssumption DEF AddExisting, StillKnown, Goroutine, Group!Starts
<1>3. ASSUME NEW t \in Handler \cup {Main}, WorksOnGroup(t) PROVE Group!Next
  BY <1>1, <1>3 DEF WorksOnGroup, Goroutine
<1>4. ASSUME NEW h \in Handler, Handles(h) PROVE Group!Next \/ UNCHANGED groupVars
  BY <1>1, <1>4 DEF Handles, OnlyLoop, Goroutine
<1>5. ASSUME NEW c \in Caller, TakesReport(c) PROVE Group!Next
  BY <1>1, <1>5 DEF TakesReport, Goroutine, Group!Starts
<1>6. CASE WaitsForGroup \/ ProcessesReport
  BY <1>1, <1>6 DEF WaitsForGroup, ProcessesReport, Goroutine, Group!Continues
<1>7. UNCHANGED vars => UNCHANGED groupVars
  BY DEF vars
<1> QED BY <1>2, <1>3, <1>4, <1>5, <1>6, <1>7
        DEF Next, Ended, TakesOther, Ticks, Stops, LoopGoesOn, Publishes, IsCancelled, OnlyLoop

LEMMA KnownStep == StillKnown /\ [Next]_vars => StillKnown'
BY DEF StillKnown, Next, vars, AddExisting, WorksOnGroup, Handles, TakesReport, TakesOther, Ticks,
       Stops, LoopGoesOn, WaitsForGroup, ProcessesReport, Publishes, IsCancelled, Ended, OnlyGroup,
       OnlyLoop

\* The service implements both of its parts: whatever they promise for any
\* callers and goroutines, they promise here.
THEOREM PartsKept == Spec => Loop!Spec /\ Group!Spec
<1>1. Init => Loop!Init /\ Group!Init /\ StillKnown
  BY DEF Init, StillKnown
<1>2. [Next]_vars => [Loop!Next]_(Loop!vars)
  BY LoopStep, SameVars
<1>3. StillKnown /\ [Next]_vars => [Group!Next]_(Group!vars)
  BY GroupStep, SameVars
<1> QED BY <1>1, <1>2, <1>3, KnownStep, PTL DEF Spec, Loop!Spec, Group!Spec

\* And so the invariants of both hold here.
Parts == LP!Inv /\ GP!Inv

LEMMA PartsInit == Init => Parts
<1> SUFFICES ASSUME Init PROVE Parts
  OBVIOUS
<1>1. LP!Inv
  BY ServiceAssumption, SameInits, LP!Initially DEF Init
<1>2. GP!Inv
  BY ServiceAssumption, SameInits, GP!InitInv DEF Init
<1> QED BY <1>1, <1>2 DEF Parts

LEMMA PartsStep == Parts /\ StillKnown /\ [Next]_vars => Parts'
<1> SUFFICES ASSUME Parts, StillKnown, [Next]_vars PROVE Parts'
  OBVIOUS
<1>1. [LP!Next]_(LP!vars)
  BY LoopStep, SameLoopSteps, SameVars
<1>2. [GP!Next]_(GP!vars)
  BY GroupStep, SameGroupSteps, SameVars
<1>3. LP!Inv'
  BY <1>1, ServiceAssumption, LP!Step DEF Parts
<1>4. GP!Inv'
  BY <1>2, ServiceAssumption, GP!Step DEF Parts
<1> QED BY <1>3, <1>4 DEF Parts
-----------------------------------------------------------------------------
(* How the parts meet.  The loop is in the group while it has a report, and *)
(* only then; a handler does one thing at a time; and until Initialize has  *)
(* returned nobody but Main is in the group, and the loop does not run.     *)

LoopLooks ==
  /\ local[TheLoop].op \in {"None", "Look"}
  /\ Loop!At("Report") <=> local[TheLoop].op = "Look"

OneAtATime == \A c \in Caller : caller[c].call = "None" \/ local[c].op = "None"

OnlyInitialize ==
  ~Running => Loop!At("Load") /\ \A t \in Goroutine \ {Main} : local[t].op = "None"

Meeting == StillKnown /\ LoopLooks /\ OneAtATime /\ OnlyInitialize

LEMMA MeetingInit == Init => Meeting
BY ServiceAssumption
   DEF Init, Meeting, StillKnown, LoopLooks, OneAtATime, OnlyInitialize, Goroutine, Loop!Init,
       Loop!Idle, Loop!At, Group!Init, Group!Returned

\* A goroutine that begins a call was idle, and one that goes on with a call
\* goes on with that call or returns; it does nothing to the others.
LEMMA Others ==
  ASSUME Parts, NEW t \in Goroutine, Group!Starts(t) \/ Group!Continues(t)
  PROVE  \A u \in Goroutine \ {t} : local'[u] = local[u]
BY ServiceAssumption, SameStarts, SameContinues, GP!OthersStay DEF Parts, GP!Inv

LEMMA GoesOn ==
  ASSUME Parts, NEW t \in Goroutine, Group!Continues(t)
  PROVE  local[t].op # "None" /\ local'[t].op \in {local[t].op, "None"}
BY ServiceAssumption, SameContinues, GP!CallGoesOn DEF Parts, GP!Inv

LEMMA WasIdle ==
  ASSUME NEW t, Group!Starts(t)
  PROVE  local[t].op = "None"
BY DEF Group!Starts, Group!CallAddReader, Group!CallRemoveReader, Group!CallSetBehavior,
       Group!CallAll, Group!CallLook, Group!Call, Group!Begin

LEMMA Calls ==
  /\ \A d \in Device : Parts /\ Group!CallAddReader(Main, d) => local'[Main].op = "AddReader"
  /\ Parts /\ Group!CallLook(TheLoop) => local'[TheLoop].op = "Look"
<1> SUFFICES ASSUME Parts
             PROVE  /\ \A d \in Device : Group!CallAddReader(Main, d) => local'[Main].op = "AddReader"
                    /\ Group!CallLook(TheLoop) => local'[TheLoop].op = "Look"
  OBVIOUS
<1>1. \A t \in Goroutine : t \in DOMAIN local
  BY DEF Parts, GP!Inv, GP!TypeOK
<1> QED BY <1>1 DEF Goroutine, Group!CallAddReader, Group!CallLook, Group!Call, Group!Begin,
                    Group!Become, Group!Returned

LEMMA Looked ==
  /\ Parts /\ Group!WantRead(TheLoop) => local'[TheLoop].op = local[TheLoop].op
  /\ Parts /\ Group!FinishLook(TheLoop) => local'[TheLoop].op = "None"
<1> SUFFICES ASSUME Parts
             PROVE  /\ Group!WantRead(TheLoop) => local'[TheLoop].op = local[TheLoop].op
                    /\ Group!FinishLook(TheLoop) => local'[TheLoop].op = "None"
  OBVIOUS
<1>1. TheLoop \in DOMAIN local
  BY DEF Parts, GP!Inv, GP!TypeOK, Goroutine
<1>2. local[TheLoop] \in GP!Local
  BY DEF Parts, GP!Inv, GP!TypeOK, Goroutine
<1> QED BY <1>1, <1>2 DEF Group!WantRead, Group!FinishLook, Group!Goto, Group!Become,
                    Group!Returned, GP!Local

\* Most steps are one goroutine's in the group,
LEMMA InGroup ==
  ASSUME Meeting, OnlyGroup, NEW t \in Goroutine,
         \A u \in Goroutine \ {t} : local'[u] = local[u],
         t = TheLoop => local'[t].op = local[t].op,
         t \in Caller => caller[t].call = "None",
         t = Main => ~Running,
         t # Main => Running
  PROVE  Meeting'
<1>1. UNCHANGED <<loop, caller, existing>>
  BY DEF OnlyGroup, loopVars
<1>2. StillKnown' /\ LoopLooks'
  BY <1>1, ServiceAssumption DEF Meeting, StillKnown, LoopLooks, Goroutine, Loop!At
<1>3. OneAtATime'
  BY <1>1, ServiceAssumption DEF Meeting, OneAtATime, Goroutine
<1>4. OnlyInitialize'
  BY <1>1 DEF Meeting, OnlyInitialize, Running, Goroutine, Loop!At
<1> QED BY <1>2, <1>3, <1>4 DEF Meeting

\* or the loop's, which is running then, and has no report.
LEMMA InLoop ==
  ASSUME Meeting, OnlyLoop,
         loop' = loop \/ (Running /\ ~Loop!At("Report") /\ loop'.pc # "Report"),
         \A c \in Caller : caller'[c].call \in {"None", caller[c].call} \/ local[c].op = "None"
  PROVE  Meeting'
<1>1. UNCHANGED <<local, existing>>
  BY DEF OnlyLoop, groupVars
<1>2. StillKnown' /\ LoopLooks' /\ OneAtATime'
  BY <1>1 DEF Meeting, StillKnown, LoopLooks, OneAtATime, Loop!At
<1>3. OnlyInitialize'
  BY <1>1 DEF Meeting, OnlyInitialize, Running, Loop!At
<1> QED BY <1>2, <1>3 DEF Meeting

LEMMA MeetingStep == Parts /\ Meeting /\ [Next]_vars => Meeting'
<1> SUFFICES ASSUME Parts, Meeting, [Next]_vars PROVE Meeting'
  OBVIOUS
<1>1. ASSUME ~Loop!At("Load") PROVE Running
  BY <1>1 DEF Meeting, OnlyInitialize
<1>2. DOMAIN caller = Caller
  BY DEF Parts, LP!Inv, LP!TypeOK
<1>3. CASE AddExisting
  <2>1. PICK d \in existing : Group!CallAddReader(Main, d) /\ existing' = existing \ {d}
    BY <1>3 DEF AddExisting
  <2>2. d \in Device /\ Main \in Goroutine
    BY <2>1, ServiceAssumption DEF Meeting, StillKnown, Goroutine
  <2>3. local'[Main].op = "AddReader" /\ \A u \in Goroutine \ {Main} : local'[u] = local[u]
    BY <2>1, <2>2, Calls, Others DEF Group!Starts
  <2>4. UNCHANGED <<loop, caller>> /\ ~Running
    BY <1>3, <2>1 DEF AddExisting, loopVars, Running
  <2>5. StillKnown' /\ LoopLooks' /\ OneAtATime' /\ OnlyInitialize'
    BY <2>1, <2>3, <2>4, ServiceAssumption
       DEF Meeting, StillKnown, LoopLooks, OneAtATime, OnlyInitialize, Running, Goroutine, Loop!At
  <2> QED BY <2>5 DEF Meeting
<1>4. ASSUME NEW t \in Handler \cup {Main}, WorksOnGroup(t) PROVE Meeting'
  <2>1. t \in Goroutine /\ t # TheLoop /\ OnlyGroup
    BY <1>4, ServiceAssumption DEF Goroutine, WorksOnGroup
  <2>2. local[t].op # "None" /\ \A u \in Goroutine \ {t} : local'[u] = local[u]
    BY <1>4, <2>1, GoesOn, Others DEF WorksOnGroup
  <2>3. t \in Caller => caller[t].call = "None"
    BY <2>2 DEF Meeting, OneAtATime
  <2>4. t = Main <=> ~Running
    BY <2>1, <2>2 DEF Meeting, OnlyInitialize, Running
  <2> QED BY <2>1, <2>2, <2>3, <2>4, InGroup
<1>5. ASSUME NEW h \in Handler, Handles(h) PROVE Meeting'
  <2>1. h \in Goroutine /\ h # TheLoop /\ h # Main
    BY ServiceAssumption DEF Goroutine
  <2>2. CASE Running /\ (h \in Caller => caller[h].call = "None") /\ Group!Starts(h) /\ OnlyGroup
    BY <2>1, <2>2, Others, InGroup
  <2>3. CASE h \in Caller /\ local[h].op = "None" /\ OnlyLoop
             /\ \E k \in {"Report", "Config", "Snapshot"} : Loop!Send(h, k)
    <3>1. loop' = loop /\ \A c \in Caller \ {h} : caller'[c] = caller[c]
      BY <1>2, <2>3 DEF Loop!Send
    <3> QED BY <2>3, <3>1, InLoop
  <2>4. CASE h \in Caller /\ Loop!Return(h) /\ OnlyLoop
    <3>1. loop' = loop /\ \A c \in Caller : caller'[c].call \in {"None", caller[c].call}
      BY <1>2, <2>4 DEF Loop!Return, Loop!Release, Loop!Idle
    <3> QED BY <2>4, <3>1, InLoop
  <2> QED BY <1>5, <2>2, <2>3, <2>4 DEF Handles, Loop!Calls
<1>6. ASSUME NEW c \in Caller, TakesReport(c) PROVE Meeting'
  <2>1. TheLoop \in Goroutine /\ TheLoop # Main /\ TheLoop \notin Caller
    BY ServiceAssumption DEF Goroutine
  <2>2. local'[TheLoop].op = "Look" /\ \A u \in Goroutine \ {TheLoop} : local'[u] = local[u]
    BY <1>6, <2>1, Calls, Others DEF TakesReport, Group!Starts
  <2>3. /\ Loop!At("Select") /\ loop'.pc = "Report" /\ existing' = existing
        /\ \A b \in Caller : caller'[b].call \in {"None", caller[b].call}
    BY <1>2, <1>6 DEF TakesReport, Loop!TakeReport, Loop!Goto, Loop!Release, Loop!Idle
  <2>4. Running
    BY <1>1, <2>3 DEF Loop!At
  <2>5. StillKnown' /\ LoopLooks'
    BY <2>2, <2>3 DEF Meeting, StillKnown, LoopLooks, Loop!At
  <2>6. OneAtATime'
    BY <2>1, <2>2, <2>3, ServiceAssumption DEF Meeting, OneAtATime, Goroutine
  <2>7. OnlyInitialize'
    BY <2>1, <2>2, <2>3, <2>4 DEF OnlyInitialize, Running, Goroutine
  <2> QED BY <2>5, <2>6, <2>7 DEF Meeting
<1>7. ASSUME NEW c \in Caller, TakesOther(c) PROVE Meeting'
  <2>1. local[c].op = "None"
    BY <1>7 DEF TakesOther, Loop!ConfigUpdate, Loop!SnapshotRequest, Loop!Sending, Meeting,
                OneAtATime
  <2>2. OnlyLoop /\ loop' = loop /\ \A b \in Caller \ {c} : caller'[b] = caller[b]
    BY <1>2, <1>7 DEF TakesOther, Loop!ConfigUpdate, Loop!SnapshotRequest, Loop!Release
  <2> QED BY <2>1, <2>2, InLoop
<1>8. CASE Ticks \/ Stops \/ Publishes \/ IsCancelled
  <2>1. OnlyLoop /\ caller' = caller
    BY <1>8 DEF Ticks, Stops, Publishes, IsCancelled, Loop!TickerFires, Loop!Stop, Loop!Receive,
                Loop!Publish, Loop!Cancel
  <2>2. loop' = loop \/ (Loop!At("Select") /\ loop'.pc = "Open")
    BY <1>8 DEF Ticks, Stops, Publishes, IsCancelled, Loop!TickerFires, Loop!Stop, Loop!Receive,
                Loop!Publish, Loop!Cancel, Loop!Goto
  <2> QED BY <1>1, <2>1, <2>2, InLoop DEF Loop!At
<1>9. CASE ((Running /\ Loop!Load) \/ Loop!Open \/ Loop!Write \/ Loop!HandOver
            \/ Loop!WaitForPublisher) /\ OnlyLoop
  <2>1. caller' = caller
    BY <1>9 DEF Loop!Load, Loop!Open, Loop!Write, Loop!HandOver, Loop!WaitForPublisher
  <2>2. /\ Loop!At("Load") => Running
        /\ ~Loop!At("Report") /\ loop'.pc # "Report"
    BY <1>9 DEF Loop!Load, Loop!Open, Loop!Write, Loop!HandOver, Loop!WaitForPublisher,
                Loop!AfterPersist, Loop!Goto, Loop!At
  <2> QED BY <1>1, <1>9, <2>1, <2>2, InLoop
<1>10. CASE WaitsForGroup
  <2>1. TheLoop \in Goroutine /\ TheLoop # Main /\ TheLoop \notin Caller
    BY ServiceAssumption DEF Goroutine
  <2>2. /\ \A u \in Goroutine \ {TheLoop} : local'[u] = local[u]
        /\ local[TheLoop].op # "None" /\ local'[TheLoop].op = local[TheLoop].op
    BY <1>10, <2>1, Others, GoesOn, Looked DEF WaitsForGroup, Group!Continues
  <2>3. Running
    BY <2>1, <2>2 DEF Meeting, OnlyInitialize
  <2> QED BY <1>10, <2>1, <2>2, <2>3, InGroup DEF WaitsForGroup
<1>11. CASE ProcessesReport
  <2>1. TheLoop \in Goroutine /\ TheLoop # Main /\ TheLoop \notin Caller
    BY ServiceAssumption DEF Goroutine
  <2>2. local'[TheLoop].op = "None" /\ \A u \in Goroutine \ {TheLoop} : local'[u] = local[u]
    BY <1>11, <2>1, Others, Looked DEF ProcessesReport, Group!Continues
  <2>3. /\ Loop!At("Report") /\ loop'.pc \in {"Open", "Select"}
        /\ UNCHANGED <<existing, caller>>
    BY <1>11 DEF ProcessesReport, Loop!ProcessReport, Loop!Goto
  <2>4. Running
    BY <1>1, <2>3 DEF Loop!At
  <2>5. StillKnown' /\ LoopLooks'
    BY <2>2, <2>3 DEF Meeting, StillKnown, LoopLooks, Loop!At
  <2>6. OneAtATime'
    BY <2>1, <2>2, <2>3, ServiceAssumption DEF Meeting, OneAtATime, Goroutine
  <2>7. OnlyInitialize'
    BY <2>1, <2>2, <2>3, <2>4 DEF OnlyInitialize, Running, Goroutine
  <2> QED BY <2>5, <2>6, <2>7 DEF Meeting
<1>12. CASE UNCHANGED vars
  BY <1>12 DEF vars, loopVars, groupVars, Meeting, StillKnown, LoopLooks, OneAtATime,
               OnlyInitialize, Running, Loop!At
<1> QED BY <1>3, <1>4, <1>5, <1>6, <1>7, <1>8, <1>9, <1>10, <1>11, <1>12
        DEF Next, LoopGoesOn, Ended

\* The inductive invariant: those of the parts, and how they meet.
Inv == Parts /\ Meeting

THEOREM Invariant == Spec => []Inv
<1>1. Inv /\ [Next]_vars => Inv'
  BY PartsStep, MeetingStep DEF Inv, Meeting
<1> QED BY <1>1, PartsInit, MeetingInit, PTL DEF Inv, Spec
-----------------------------------------------------------------------------
(* What the invariant is for *)

LEMMA SameWaits ==
  /\ \A t : (Group!Waits(t) <=> GP!Waits(t)) /\ (Group!Holds(t) <=> GP!Holds(t))
  /\ Loop!NotAbandoned <=> LP!NotAbandoned
BY DEF Group!Waits, GP!Waits, Group!Holds, GP!Holds, Group!Locked, GP!Locked, Group!RLocked,
       GP!RLocked, Loop!NotAbandoned, LP!NotAbandoned, Loop!At, LP!At, Loop!PublisherRuns,
       LP!PublisherRuns

LEMMA SomeoneGoesOn ==
  ASSUME Inv, NEW t \in Goroutine, Group!Waits(t)
  PROVE  \E u \in Goroutine : Group!Holds(u) /\ ~Group!Waits(u) /\ local[u].op # "None"
<1>1. GP!HolderGoesOn
  BY ServiceAssumption, GP!HolderInvariant DEF Inv, Parts, GP!Inv
<1>2. PICK u \in Goroutine : GP!Holds(u) /\ ~GP!Waits(u)
  BY <1>1, SameWaits DEF GP!HolderGoesOn
<1> QED BY <1>2, SameWaits DEF Group!Holds

\* Until Initialize has returned, Main finds the mutex free: it would have to wait
\* for another goroutine in the group, and there is none yet.
LEMMA LoopServed == Inv => LoopNotAbandoned
<1>1. ASSUME Inv, Loop!At("Load"), ~Running PROVE InitializeRuns
  <2>1. CASE local[Main].op = "None"
    BY <1>1, <2>1 DEF InitializeRuns, Running
  <2>2. ASSUME Group!Waits(Main) PROVE FALSE
    <3>1. PICK u \in Goroutine : ~Group!Waits(u) /\ local[u].op # "None"
      BY <1>1, <2>2, SomeoneGoesOn DEF Goroutine
    <3>2. u # Main
      BY <2>2, <3>1
    <3> QED BY <1>1, <3>1, <3>2 DEF Inv, Meeting, OnlyInitialize
  <2> QED BY <2>1, <2>2 DEF InitializeRuns
<1>2. ASSUME Inv PROVE Loop!NotAbandoned
  BY <1>2, ServiceAssumption, SameWaits, LP!PublisherHelps DEF Inv, Parts
<1> QED BY <1>1, <1>2 DEF LoopNotAbandoned, Inv, Meeting, LoopLooks

\* Nobody waits in a circle.  Whoever waits for the group waits for somebody who
\* can go on, and who does not wait for the task loop: it holds the mutex, so it
\* is in a call on the group, and a handler that is does not call the loop.
THEOREM NoCircle == Spec => []NobodyInCircle
<1>1. ASSUME Inv, NEW t \in Goroutine, Group!Waits(t)
      PROVE  \E u \in Goroutine : Group!Holds(u) /\ ~Group!Waits(u) /\ ~AsksLoop(u)
  <2>1. PICK u \in Goroutine : Group!Holds(u) /\ ~Group!Waits(u) /\ local[u].op # "None"
    BY <1>1, SomeoneGoesOn
  <2>2. ~AsksLoop(u)
    BY <1>1, <2>1 DEF Inv, Meeting, OneAtATime, AsksLoop
  <2> QED BY <2>1, <2>2
<1>2. Inv => NobodyInCircle
  BY <1>1, LoopServed DEF NobodyInCircle
<1> QED BY <1>2, Invariant, PTL
=============================================================================
