--------------------------- MODULE TaskLoopProofs ---------------------------
(***************************************************************************)
(* Theorems about TaskLoop, for any callers, size of the channel, number   *)
(* of changes and of crashes.                                              *)
(***************************************************************************)
EXTENDS TaskLoop, SequenceTheorems, TLAPS

-----------------------------------------------------------------------------
(* The inductive invariant *)

\* A batch where there must be one, and nowhere else.
Batches ==
  /\ loop.pc \notin {"Open", "Write", "Send"} => loop.batch = NoBatch
  /\ loop.pc = "Send" => loop.batch # NoBatch
  /\ publisher.pc = "Publish" <=> publisher.batch # NoBatch

\* Where things are while the process starts and stops.
Phases ==
  /\ At("Load") => eventCh = OpenEventCh /\ publisher.pc = "Done"
  /\ eventCh.closed => loop.pc \in {"Open", "Write", "Wait", "Stopped"} /\ loop.batch = NoBatch
  /\ publisher.pc = "Done" /\ ~At("Load") => eventCh.closed /\ eventCh.batches = <<>>
  /\ loop.pc \in {"Wait", "Stopped"} =>
       eventCh.closed /\ (file = snapshot \/ snapshot \subseteq unsaved)
  /\ At("Stopped") => publisher.pc = "Done"

\* Every change is in the snapshot, or its loss is on record.
NothingForgotten == ~At("Load") => 1..changes \subseteq snapshot \cup unsaved

\* The batches that have left the loop.
Told == Range(published) \cup Range(eventCh.batches)
          \cup (IF publisher.batch = NoBatch THEN {} ELSE {publisher.batch})
          \cup (IF At("Send") THEN {loop.batch} ELSE {})

\* Those that have left it are in the file, and none is of a change to come.
ToldIsSaved ==
  /\ Told \subseteq 1..changes
  /\ loop.batch # NoBatch => loop.batch \in 1..changes
  /\ file # Torn => Told \subseteq file \cup unsaved

\* Of the changes a caller saw on the bus, its answer lacks only what the loop's
\* snapshot, from then on until the process ends, lacks too.
AnswersKeep ==
  \A c \in Caller :
     /\ caller[c].seen \subseteq 1..changes
     /\ caller[c].call = "Answered" => /\ caller[c].seen \cap snapshot \subseteq caller[c].answer
                                       /\ caller[c].seen \subseteq caller[c].answer \cup unsaved
     /\ At("Load") => caller[c].call # "Answered"

Inv ==
  TypeOK /\ Batches /\ Phases /\ NothingForgotten /\ ToldIsSaved /\ AnswersKeep
-----------------------------------------------------------------------------
(* Sequences and their ranges *)

LEMMA RangeEmpty == Range(<<>>) = {}
BY DEF Range

LEMMA RangeAppend ==
  ASSUME NEW S, NEW s \in Seq(S), NEW x \in S
  PROVE  Range(Append(s, x)) = Range(s) \cup {x}
<1>1. /\ DOMAIN s = 1..Len(s) /\ DOMAIN Append(s, x) = 1..Len(s)+1
      /\ Len(s) \in Nat
      /\ \A i \in 1..Len(s) : Append(s, x)[i] = s[i]
      /\ Append(s, x)[Len(s)+1] = x
  OBVIOUS
<1>2. ASSUME NEW y \in Range(s) PROVE y \in Range(Append(s, x))
  <2>1. PICK i \in 1..Len(s) : y = s[i]
    BY <1>1, <1>2 DEF Range
  <2> QED BY <1>1, <2>1 DEF Range
<1>3. x \in Range(Append(s, x))
  <2>1. Len(s)+1 \in DOMAIN Append(s, x)
    BY <1>1
  <2> QED BY <1>1, <2>1 DEF Range
<1>4. ASSUME NEW y \in Range(Append(s, x)), y # x PROVE y \in Range(s)
  <2>1. PICK i \in 1..Len(s)+1 : y = Append(s, x)[i]
    BY <1>1, <1>4 DEF Range
  <2>2. i \in 1..Len(s)
    BY <1>1, <1>4, <2>1
  <2> QED BY <1>1, <2>1, <2>2 DEF Range
<1> QED BY <1>2, <1>3, <1>4

LEMMA RangeHeadTail ==
  ASSUME NEW S, NEW s \in Seq(S), s # <<>>
  PROVE  Range(s) = {Head(s)} \cup Range(Tail(s))
<1>1. /\ DOMAIN s = 1..Len(s) /\ Len(s) \in Nat \ {0}
      /\ Tail(s) \in Seq(S) /\ DOMAIN Tail(s) = 1..Len(Tail(s))
      /\ Len(Tail(s)) = Len(s) - 1
      /\ \A i \in 1..Len(Tail(s)) : Tail(s)[i] = s[i+1]
      /\ Head(s) = s[1]
  BY HeadTailProperties
<1>2. Head(s) \in Range(s)
  BY <1>1 DEF Range
<1>3. ASSUME NEW y \in Range(Tail(s)) PROVE y \in Range(s)
  <2>1. PICK i \in 1..Len(Tail(s)) : y = Tail(s)[i]
    BY <1>1, <1>3 DEF Range
  <2>2. i+1 \in DOMAIN s /\ y = s[i+1]
    BY <1>1, <2>1
  <2> QED BY <2>2 DEF Range
<1>4. ASSUME NEW y \in Range(s), y # Head(s) PROVE y \in Range(Tail(s))
  <2>1. PICK i \in 1..Len(s) : y = s[i]
    BY <1>1, <1>4 DEF Range
  <2>2. i-1 \in DOMAIN Tail(s) /\ y = Tail(s)[i-1]
    BY <1>1, <1>4, <2>1
  <2> QED BY <2>2 DEF Range
<1> QED BY <1>2, <1>3, <1>4

LEMMA RangeInType ==
  ASSUME NEW S, NEW s \in Seq(S)
  PROVE  Range(s) \subseteq S
BY DEF Range
-----------------------------------------------------------------------------
(* The invariant is inductive *)

LEMMA RangeAppendChange ==
  \A s \in Seq(Change) : \A x \in Change : Range(Append(s, x)) = Range(s) \cup {x}
BY RangeAppend

LEMMA Initially == Init => Inv
<1> SUFFICES ASSUME Init PROVE Inv
  OBVIOUS
<1> USE DEF Init, At, Idle, OpenEventCh, NoBatch, Change
<1>1. TypeOK
  <2>1. eventCh \in [batches : Seq(Change), closed : BOOLEAN] /\ Len(eventCh.batches) <= QueueSize
    BY TaskLoopAssumption
  <2>2. published \in Seq(Change) /\ file \in SUBSET Change
    OBVIOUS
  <2>3. changes \in 0..MaxChanges /\ crashes \in 0..MaxCrashes
    BY TaskLoopAssumption
  <2> QED BY <2>1, <2>2, <2>3 DEF TypeOK
<1>2. Batches /\ Phases
  BY DEF Batches, Phases
<1>3. NothingForgotten /\ AnswersKeep
  BY DEF NothingForgotten, AnswersKeep
<1>4. ToldIsSaved
  BY RangeEmpty DEF ToldIsSaved, Told
<1> QED BY <1>1, <1>2, <1>3, <1>4 DEF Inv

LEMMA CallsKeeps ==
  ASSUME Inv, NEW c \in Caller, Calls(c)
  PROVE  Inv'
<1> USE DEF At, NoBatch, Change
<1>1. TypeOK'
  BY TaskLoopAssumption, RangeInType DEF Inv, TypeOK, Batches, Calls, Send, Idle
<1>2. Batches'
  BY TaskLoopAssumption, RangeInType DEF Inv, TypeOK, Batches, Calls, Send, Idle
<1>3. Phases'
  BY TaskLoopAssumption, RangeInType DEF Inv, TypeOK, Batches, Phases, Calls, Send, Idle
<1>4. NothingForgotten'
  BY TaskLoopAssumption, RangeInType DEF Inv, TypeOK, Batches, NothingForgotten, Calls, Send, Idle
<1>5. ToldIsSaved'
  BY TaskLoopAssumption, RangeInType DEF Inv, TypeOK, Batches, ToldIsSaved, Told, Calls, Send, Idle
<1>6. AnswersKeep'
  <2>1. PICK k \in {"Report", "Config", "Snapshot"} : Send(c, k)
    BY DEF Calls
  <2>2. Range(published) \subseteq 1..changes
    BY DEF Inv, ToldIsSaved, Told
  <2>3. ASSUME NEW d \in Caller
        PROVE  /\ caller'[d].seen \subseteq 1..changes
               /\ caller'[d].call = "Answered" => caller'[d] = caller[d]
    <3>1. CASE d = c
      BY <2>1, <2>2, <3>1 DEF Inv, TypeOK, Send
    <3>2. CASE d # c
      BY <2>1, <3>2 DEF Inv, TypeOK, AnswersKeep, Send
    <3> QED BY <3>1, <3>2
  <2> QED BY <2>1, <2>3 DEF Inv, AnswersKeep, Send
<1> QED BY <1>1, <1>2, <1>3, <1>4, <1>5, <1>6 DEF Inv

LEMMA ReturnKeeps ==
  ASSUME Inv, NEW c \in Caller, Return(c)
  PROVE  Inv'
<1> USE DEF At, NoBatch, Change
<1>1. TypeOK'
  BY TaskLoopAssumption DEF Inv, TypeOK, Batches, Return, Release, Sending, Idle
<1>2. Batches'
  BY TaskLoopAssumption DEF Inv, TypeOK, Batches, Return, Release, Sending, Idle
<1>3. Phases'
  BY TaskLoopAssumption DEF Inv, TypeOK, Batches, Phases, Return, Release, Sending, Idle
<1>4. NothingForgotten'
  BY TaskLoopAssumption DEF Inv, TypeOK, Batches, NothingForgotten, Return, Release, Sending, Idle
<1>5. ToldIsSaved'
  BY TaskLoopAssumption DEF Inv, TypeOK, Batches, ToldIsSaved, Told, Return, Release, Sending, Idle
<1>6. AnswersKeep'
  BY TaskLoopAssumption DEF Inv, TypeOK, Batches, AnswersKeep, Return, Release, Sending, Idle
<1> QED BY <1>1, <1>2, <1>3, <1>4, <1>5, <1>6 DEF Inv

LEMMA LoadKeeps ==
  ASSUME Inv, Load
  PROVE  Inv'
<1> USE DEF At, NoBatch, Change
<1>1. TypeOK'
  BY TaskLoopAssumption, RangeEmpty DEF Inv, TypeOK, Batches, Load, OpenEventCh, AwaitsBatch, Goto, At
<1>2. Batches'
  BY TaskLoopAssumption, RangeEmpty DEF Inv, TypeOK, Batches, Load, OpenEventCh, AwaitsBatch, Goto, At
<1>3. Phases'
  BY TaskLoopAssumption, RangeEmpty DEF Inv, TypeOK, Batches, Phases, Load, OpenEventCh, AwaitsBatch, Goto, At
<1>4. NothingForgotten'
  BY TaskLoopAssumption, RangeEmpty DEF Inv, TypeOK, Batches, NothingForgotten, Load, OpenEventCh, AwaitsBatch, Goto, At
<1>5. ToldIsSaved'
  BY TaskLoopAssumption, RangeEmpty DEF Inv, TypeOK, Batches, ToldIsSaved, Told, Load, OpenEventCh, AwaitsBatch, Goto, At
<1>6. AnswersKeep'
  BY TaskLoopAssumption, RangeEmpty DEF Inv, TypeOK, Batches, AnswersKeep, Load, OpenEventCh, AwaitsBatch, Goto, At
<1> QED BY <1>1, <1>2, <1>3, <1>4, <1>5, <1>6 DEF Inv

LEMMA TakeReportKeeps ==
  ASSUME Inv, NEW c \in Caller, TakeReport(c)
  PROVE  Inv'
<1> USE DEF At, NoBatch, Change
<1>1. TypeOK'
  BY TaskLoopAssumption DEF Inv, TypeOK, Batches, TakeReport, Release, Sending, Idle, Goto
<1>2. Batches'
  BY TaskLoopAssumption DEF Inv, TypeOK, Batches, TakeReport, Release, Sending, Idle, Goto
<1>3. Phases'
  BY TaskLoopAssumption DEF Inv, TypeOK, Batches, Phases, TakeReport, Release, Sending, Idle, Goto
<1>4. NothingForgotten'
  BY TaskLoopAssumption DEF Inv, TypeOK, Batches, NothingForgotten, TakeReport, Release, Sending, Idle, Goto
<1>5. ToldIsSaved'
  BY TaskLoopAssumption DEF Inv, TypeOK, Batches, ToldIsSaved, Told, TakeReport, Release, Sending, Idle, Goto
<1>6. AnswersKeep'
  BY TaskLoopAssumption DEF Inv, TypeOK, Batches, AnswersKeep, TakeReport, Release, Sending, Idle, Goto
<1> QED BY <1>1, <1>2, <1>3, <1>4, <1>5, <1>6 DEF Inv

LEMMA ProcessReportKeeps ==
  ASSUME Inv, ProcessReport
  PROVE  Inv'
<1> USE DEF At, NoBatch, Change
<1>1. TypeOK'
  <2>1. Changed => changes + 1 \in Change /\ changes + 1 \in 0..MaxChanges
    BY TaskLoopAssumption DEF Inv, TypeOK, Changed
  <2>2. snapshot' \subseteq Change /\ changes' \in 0..MaxChanges
    BY <2>1 DEF Inv, TypeOK, ProcessReport, Changed
  <2>3. loop' \in [pc : {"Load", "Select", "Report", "Open", "Write", "Send", "Wait", "Stopped"},
                   batch : Change \cup {NoBatch}]
    BY <2>1 DEF Inv, TypeOK, ProcessReport, Changed, Goto
  <2> QED BY <2>2, <2>3 DEF Inv, TypeOK, ProcessReport
<1>2. Batches'
  BY TaskLoopAssumption DEF Inv, TypeOK, Batches, ProcessReport, Changed, Goto
<1>3. Phases'
  BY TaskLoopAssumption DEF Inv, TypeOK, Batches, Phases, ProcessReport, Changed, Goto
<1>4. NothingForgotten'
  BY TaskLoopAssumption DEF Inv, TypeOK, Batches, NothingForgotten, ProcessReport, Changed, Goto
<1>5. ToldIsSaved'
  BY TaskLoopAssumption DEF Inv, TypeOK, Batches, ToldIsSaved, Told, ProcessReport, Changed, Goto
<1>6. AnswersKeep'
  BY TaskLoopAssumption DEF Inv, TypeOK, Batches, AnswersKeep, ProcessReport, Changed, Goto
<1> QED BY <1>1, <1>2, <1>3, <1>4, <1>5, <1>6 DEF Inv

LEMMA TickerFiresKeeps ==
  ASSUME Inv, TickerFires
  PROVE  Inv'
<1> USE DEF At, NoBatch, Change
<1>1. TypeOK'
  <2>1. Changed => changes + 1 \in Change /\ changes + 1 \in 0..MaxChanges
    BY TaskLoopAssumption DEF Inv, TypeOK, Changed
  <2>2. snapshot' \subseteq Change /\ changes' \in 0..MaxChanges
    BY <2>1 DEF Inv, TypeOK, TickerFires, Changed
  <2>3. loop' \in [pc : {"Load", "Select", "Report", "Open", "Write", "Send", "Wait", "Stopped"},
                   batch : Change \cup {NoBatch}]
    BY <2>1 DEF Inv, TypeOK, TickerFires, Changed, Goto
  <2> QED BY <2>2, <2>3 DEF Inv, TypeOK, TickerFires
<1>2. Batches'
  BY TaskLoopAssumption DEF Inv, TypeOK, Batches, TickerFires, Changed, Goto
<1>3. Phases'
  BY TaskLoopAssumption DEF Inv, TypeOK, Batches, Phases, TickerFires, Changed, Goto
<1>4. NothingForgotten'
  BY TaskLoopAssumption DEF Inv, TypeOK, Batches, NothingForgotten, TickerFires, Changed, Goto
<1>5. ToldIsSaved'
  BY TaskLoopAssumption DEF Inv, TypeOK, Batches, ToldIsSaved, Told, TickerFires, Changed, Goto
<1>6. AnswersKeep'
  BY TaskLoopAssumption DEF Inv, TypeOK, Batches, AnswersKeep, TickerFires, Changed, Goto
<1> QED BY <1>1, <1>2, <1>3, <1>4, <1>5, <1>6 DEF Inv

LEMMA ConfigUpdateKeeps ==
  ASSUME Inv, NEW c \in Caller, ConfigUpdate(c)
  PROVE  Inv'
<1> USE DEF At, NoBatch, Change
<1>1. TypeOK'
  BY TaskLoopAssumption DEF Inv, TypeOK, Batches, ConfigUpdate, Release, Sending, Idle
<1>2. Batches'
  BY TaskLoopAssumption DEF Inv, TypeOK, Batches, ConfigUpdate, Release, Sending, Idle
<1>3. Phases'
  BY TaskLoopAssumption DEF Inv, TypeOK, Batches, Phases, ConfigUpdate, Release, Sending, Idle
<1>4. NothingForgotten'
  BY TaskLoopAssumption DEF Inv, TypeOK, Batches, NothingForgotten, ConfigUpdate, Release, Sending, Idle
<1>5. ToldIsSaved'
  BY TaskLoopAssumption DEF Inv, TypeOK, Batches, ToldIsSaved, Told, ConfigUpdate, Release, Sending, Idle
<1>6. AnswersKeep'
  BY TaskLoopAssumption DEF Inv, TypeOK, Batches, AnswersKeep, ConfigUpdate, Release, Sending, Idle
<1> QED BY <1>1, <1>2, <1>3, <1>4, <1>5, <1>6 DEF Inv

LEMMA SnapshotRequestKeeps ==
  ASSUME Inv, NEW c \in Caller, SnapshotRequest(c)
  PROVE  Inv'
<1> USE DEF At, NoBatch, Change
<1>1. TypeOK'
  BY TaskLoopAssumption DEF Inv, TypeOK, Batches, SnapshotRequest, Sending
<1>2. Batches'
  BY TaskLoopAssumption DEF Inv, TypeOK, Batches, SnapshotRequest, Sending
<1>3. Phases'
  BY TaskLoopAssumption DEF Inv, TypeOK, Batches, Phases, SnapshotRequest, Sending
<1>4. NothingForgotten'
  BY TaskLoopAssumption DEF Inv, TypeOK, Batches, NothingForgotten, SnapshotRequest, Sending
<1>5. ToldIsSaved'
  BY TaskLoopAssumption DEF Inv, TypeOK, Batches, ToldIsSaved, Told, SnapshotRequest, Sending
<1>6. AnswersKeep'
  <2>1. ASSUME NEW d \in Caller, d # c PROVE caller'[d] = caller[d]
    BY <2>1 DEF Inv, TypeOK, SnapshotRequest
  <2>2. /\ caller'[c].call = "Answered" /\ caller'[c].answer = snapshot
        /\ caller'[c].seen = caller[c].seen
    BY DEF Inv, TypeOK, SnapshotRequest
  <2>3. caller[c].seen \subseteq 1..changes /\ 1..changes \subseteq snapshot \cup unsaved
    BY DEF Inv, AnswersKeep, NothingForgotten, SnapshotRequest
  <2> QED BY <2>1, <2>2, <2>3 DEF Inv, AnswersKeep, SnapshotRequest
<1> QED BY <1>1, <1>2, <1>3, <1>4, <1>5, <1>6 DEF Inv

LEMMA StopKeeps ==
  ASSUME Inv, Stop
  PROVE  Inv'
<1> USE DEF At, NoBatch, Change
<1>1. TypeOK'
  BY TaskLoopAssumption DEF Inv, TypeOK, Batches, Stop, Goto
<1>2. Batches'
  BY TaskLoopAssumption DEF Inv, TypeOK, Batches, Stop, Goto
<1>3. Phases'
  BY TaskLoopAssumption DEF Inv, TypeOK, Batches, Phases, Stop, Goto
<1>4. NothingForgotten'
  BY TaskLoopAssumption DEF Inv, TypeOK, Batches, NothingForgotten, Stop, Goto
<1>5. ToldIsSaved'
  BY TaskLoopAssumption DEF Inv, TypeOK, Batches, ToldIsSaved, Told, Stop, Goto
<1>6. AnswersKeep'
  BY TaskLoopAssumption DEF Inv, TypeOK, Batches, AnswersKeep, Stop, Goto
<1> QED BY <1>1, <1>2, <1>3, <1>4, <1>5, <1>6 DEF Inv

LEMMA OpenKeeps ==
  ASSUME Inv, Open
  PROVE  Inv'
<1> USE DEF At, NoBatch, Change
<1>1. TypeOK'
  <2>1. loop' \in [pc : {"Load", "Select", "Report", "Open", "Write", "Send", "Wait", "Stopped"},
                   batch : Change \cup {NoBatch}]
    BY DEF Inv, TypeOK, Open, AfterPersist, Goto
  <2>2. (file' = Torn \/ file' \in SUBSET Change) /\ unsaved' \subseteq Change
    BY DEF Inv, TypeOK, Open
  <2> QED BY <2>1, <2>2 DEF Inv, TypeOK, Open
<1>2. Batches'
  BY TaskLoopAssumption DEF Inv, TypeOK, Batches, Open, AfterPersist, Goto
<1>3. Phases'
  BY TaskLoopAssumption DEF Inv, TypeOK, Batches, Phases, Open, AfterPersist, Goto
<1>4. NothingForgotten'
  BY TaskLoopAssumption DEF Inv, TypeOK, Batches, NothingForgotten, Open, AfterPersist, Goto
<1>5. ToldIsSaved'
  <2>1. loop.batch # NoBatch => loop.batch \in snapshot \cup unsaved
    BY DEF Inv, ToldIsSaved, NothingForgotten, Open
  <2>2. loop'.batch # NoBatch => loop'.batch = loop.batch
    BY DEF Inv, TypeOK, Open, AfterPersist, Goto
  <2>3. Told' \subseteq Told \cup ({loop.batch} \ {NoBatch})
    BY <2>2 DEF Inv, TypeOK, Batches, Told, Open, AfterPersist, Goto
  <2> QED BY <2>1, <2>2, <2>3 DEF Inv, TypeOK, ToldIsSaved, Open
<1>6. AnswersKeep'
  BY TaskLoopAssumption DEF Inv, TypeOK, Batches, AnswersKeep, Open, AfterPersist, Goto
<1> QED BY <1>1, <1>2, <1>3, <1>4, <1>5, <1>6 DEF Inv

LEMMA WriteKeeps ==
  ASSUME Inv, Write
  PROVE  Inv'
<1> USE DEF At, NoBatch, Change
<1>1. TypeOK'
  <2>1. loop' \in [pc : {"Load", "Select", "Report", "Open", "Write", "Send", "Wait", "Stopped"},
                   batch : Change \cup {NoBatch}]
    BY DEF Inv, TypeOK, Write, AfterPersist, Goto
  <2>2. (file' = Torn \/ file' \in SUBSET Change) /\ unsaved' \subseteq Change
    BY DEF Inv, TypeOK, Write
  <2> QED BY <2>1, <2>2 DEF Inv, TypeOK, Write
<1>2. Batches'
  BY TaskLoopAssumption DEF Inv, TypeOK, Batches, Write, AfterPersist, Goto
<1>3. Phases'
  BY TaskLoopAssumption DEF Inv, TypeOK, Batches, Phases, Write, AfterPersist, Goto
<1>4. NothingForgotten'
  BY TaskLoopAssumption DEF Inv, TypeOK, Batches, NothingForgotten, Write, AfterPersist, Goto
<1>5. ToldIsSaved'
  <2>1. loop.batch # NoBatch => loop.batch \in snapshot \cup unsaved
    BY DEF Inv, ToldIsSaved, NothingForgotten, Write
  <2>2. loop'.batch # NoBatch => loop'.batch = loop.batch
    BY DEF Inv, TypeOK, Write, AfterPersist, Goto
  <2>3. Told' \subseteq Told \cup ({loop.batch} \ {NoBatch})
    BY <2>2 DEF Inv, TypeOK, Batches, Told, Write, AfterPersist, Goto
  <2>4. CASE file' = snapshot /\ unsaved' = unsaved \ snapshot
    <3>1. Told \subseteq snapshot \cup unsaved
      BY DEF Inv, ToldIsSaved, NothingForgotten, Write
    <3> QED BY <2>1, <2>2, <2>3, <2>4, <3>1 DEF Inv, TypeOK, ToldIsSaved, Write
  <2>5. CASE file' = file /\ unsaved' = unsaved \cup snapshot
    BY <2>1, <2>2, <2>3, <2>5 DEF Inv, TypeOK, ToldIsSaved, Write
  <2> QED BY <2>4, <2>5 DEF Write
<1>6. AnswersKeep'
  BY TaskLoopAssumption DEF Inv, TypeOK, Batches, AnswersKeep, Write, AfterPersist, Goto
<1> QED BY <1>1, <1>2, <1>3, <1>4, <1>5, <1>6 DEF Inv

LEMMA HandOverKeeps ==
  ASSUME Inv, HandOver
  PROVE  Inv'
<1> USE DEF At, NoBatch, Change
<1>1. TypeOK'
  <2>1. loop.batch \in Change /\ eventCh.batches \in Seq(Change)
    BY DEF Inv, TypeOK, Batches, HandOver
  <2>2. eventCh' = [batches |-> Append(eventCh.batches, loop.batch), closed |-> eventCh.closed]
    BY DEF Inv, TypeOK, HandOver
  <2>3. /\ eventCh' \in [batches : Seq(Change), closed : BOOLEAN]
        /\ Len(eventCh'.batches) <= QueueSize
    <3>1. /\ Append(eventCh.batches, loop.batch) \in Seq(Change)
          /\ Len(Append(eventCh.batches, loop.batch)) = Len(eventCh.batches) + 1
          /\ Len(eventCh.batches) \in Nat
      BY <2>1
    <3>2. Len(eventCh.batches) + 1 <= QueueSize
      BY <3>1, TaskLoopAssumption DEF HandOver
    <3>3. eventCh.closed \in BOOLEAN
      BY DEF Inv, TypeOK
    <3> QED BY <2>2, <3>1, <3>2, <3>3
  <2>4. loop' \in [pc : {"Load", "Select", "Report", "Open", "Write", "Send", "Wait", "Stopped"},
                   batch : Change \cup {NoBatch}]
    BY DEF HandOver, Goto
  <2> QED BY <2>3, <2>4 DEF Inv, TypeOK, HandOver
<1>2. Batches'
  BY TaskLoopAssumption, RangeAppend DEF Inv, TypeOK, Batches, HandOver, Goto
<1>3. Phases'
  BY TaskLoopAssumption, RangeAppend DEF Inv, TypeOK, Batches, Phases, HandOver, Goto
<1>4. NothingForgotten'
  BY TaskLoopAssumption, RangeAppend DEF Inv, TypeOK, Batches, NothingForgotten, HandOver, Goto
<1>5. ToldIsSaved'
  <2>1. loop.batch \in Change /\ eventCh.batches \in Seq(Change) /\ loop.batch # NoBatch
    BY DEF Inv, TypeOK, Batches, HandOver
  <2>2. eventCh'.batches = Append(eventCh.batches, loop.batch)
    BY DEF Inv, TypeOK, HandOver
  <2>3. Range(eventCh'.batches) = Range(eventCh.batches) \cup {loop.batch}
    BY <2>1, <2>2, RangeAppendChange
  <2>4. Told' = Told
    BY <2>3 DEF Told, HandOver, Goto
  <2> QED BY <2>4 DEF Inv, ToldIsSaved, HandOver, Goto
<1>6. AnswersKeep'
  BY TaskLoopAssumption, RangeAppend DEF Inv, TypeOK, Batches, AnswersKeep, HandOver, Goto
<1> QED BY <1>1, <1>2, <1>3, <1>4, <1>5, <1>6 DEF Inv

LEMMA WaitForPublisherKeeps ==
  ASSUME Inv, WaitForPublisher
  PROVE  Inv'
<1> USE DEF At, NoBatch, Change
<1>1. TypeOK'
  BY TaskLoopAssumption DEF Inv, TypeOK, Batches, WaitForPublisher, Goto
<1>2. Batches'
  BY TaskLoopAssumption DEF Inv, TypeOK, Batches, WaitForPublisher, Goto
<1>3. Phases'
  BY TaskLoopAssumption DEF Inv, TypeOK, Batches, Phases, WaitForPublisher, Goto
<1>4. NothingForgotten'
  BY TaskLoopAssumption DEF Inv, TypeOK, Batches, NothingForgotten, WaitForPublisher, Goto
<1>5. ToldIsSaved'
  BY TaskLoopAssumption DEF Inv, TypeOK, Batches, ToldIsSaved, Told, WaitForPublisher, Goto
<1>6. AnswersKeep'
  BY TaskLoopAssumption DEF Inv, TypeOK, Batches, AnswersKeep, WaitForPublisher, Goto
<1> QED BY <1>1, <1>2, <1>3, <1>4, <1>5, <1>6 DEF Inv

LEMMA ReceiveKeeps ==
  ASSUME Inv, Receive
  PROVE  Inv'
<1> USE DEF At, NoBatch, Change
<1>1. TypeOK'
  <2>1. CASE eventCh.batches # <<>>
             /\ publisher' = [pc |-> "Publish", batch |-> Head(eventCh.batches)]
             /\ eventCh' = [eventCh EXCEPT !.batches = Tail(@)]
    <3>1. /\ Head(eventCh.batches) \in Change /\ Tail(eventCh.batches) \in Seq(Change)
          /\ Len(Tail(eventCh.batches)) <= QueueSize
      BY <2>1, HeadTailProperties, TaskLoopAssumption DEF Inv, TypeOK
    <3>2. eventCh' = [batches |-> Tail(eventCh.batches), closed |-> eventCh.closed]
      BY <2>1 DEF Inv, TypeOK
    <3> QED BY <2>1, <3>1, <3>2 DEF Inv, TypeOK, Receive
  <2>2. CASE publisher' = [pc |-> "Done", batch |-> NoBatch] /\ UNCHANGED eventCh
    BY <2>2 DEF Inv, TypeOK, Receive
  <2> QED BY <2>1, <2>2 DEF Receive
<1>2. Batches'
  BY TaskLoopAssumption, RangeHeadTail DEF Inv, TypeOK, Batches, Receive
<1>3. Phases'
  <2>1. CASE eventCh.batches # <<>>
             /\ publisher' = [pc |-> "Publish", batch |-> Head(eventCh.batches)]
             /\ eventCh' = [eventCh EXCEPT !.batches = Tail(@)]
    <3>1. eventCh'.closed = eventCh.closed /\ publisher'.pc = "Publish" /\ publisher.pc = "Range"
      BY <2>1 DEF Inv, TypeOK, Receive
    <3>2. ~At("Load") /\ ~At("Stopped")
      BY <3>1 DEF Inv, Phases
    <3> QED BY <3>1, <3>2 DEF Inv, Phases, Receive
  <2>2. CASE eventCh.batches = <<>> /\ eventCh.closed
             /\ publisher' = [pc |-> "Done", batch |-> NoBatch] /\ UNCHANGED eventCh
    BY <2>2 DEF Inv, Phases, Receive
  <2> QED BY <2>1, <2>2 DEF Receive
<1>4. NothingForgotten'
  BY TaskLoopAssumption, RangeHeadTail DEF Inv, TypeOK, Batches, NothingForgotten, Receive
<1>5. ToldIsSaved'
  <2>1. CASE eventCh.batches # <<>>
             /\ publisher' = [pc |-> "Publish", batch |-> Head(eventCh.batches)]
             /\ eventCh' = [eventCh EXCEPT !.batches = Tail(@)]
    <3>1. eventCh'.batches = Tail(eventCh.batches)
      BY <2>1 DEF Inv, TypeOK
    <3>2. /\ Range(eventCh.batches) = {Head(eventCh.batches)} \cup Range(Tail(eventCh.batches))
          /\ Head(eventCh.batches) \in Change
      BY <2>1, RangeHeadTail, HeadTailProperties DEF Inv, TypeOK
    <3>3. Told' = Told
      BY <2>1, <3>1, <3>2 DEF Inv, Batches, Told, Receive
    <3> QED BY <3>3 DEF Inv, ToldIsSaved, Receive
  <2>2. CASE publisher' = [pc |-> "Done", batch |-> NoBatch] /\ UNCHANGED eventCh
    <3>1. Told' = Told
      BY <2>2 DEF Inv, Batches, Told, Receive
    <3> QED BY <3>1 DEF Inv, ToldIsSaved, Receive
  <2> QED BY <2>1, <2>2 DEF Receive
<1>6. AnswersKeep'
  BY TaskLoopAssumption, RangeHeadTail DEF Inv, TypeOK, Batches, AnswersKeep, Receive
<1> QED BY <1>1, <1>2, <1>3, <1>4, <1>5, <1>6 DEF Inv

LEMMA PublishKeeps ==
  ASSUME Inv, Publish
  PROVE  Inv'
<1> USE DEF At, NoBatch, Change
<1>1. TypeOK'
  <2>1. publisher.batch \in Change
    BY DEF Inv, TypeOK, Batches, Publish
  <2>2. published' \in Seq(Change) /\ dropped' \subseteq Change
    <3>1. Append(published, publisher.batch) \in Seq(Change)
      BY <2>1 DEF Inv, TypeOK
    <3> QED BY <2>1, <3>1 DEF Inv, TypeOK, Publish
  <2> QED BY <2>2 DEF Inv, TypeOK, Publish, AwaitsBatch
<1>2. Batches'
  BY TaskLoopAssumption, RangeAppend DEF Inv, TypeOK, Batches, Publish, AwaitsBatch
<1>3. Phases'
  BY TaskLoopAssumption, RangeAppend DEF Inv, TypeOK, Batches, Phases, Publish, AwaitsBatch
<1>4. NothingForgotten'
  BY TaskLoopAssumption, RangeAppend DEF Inv, TypeOK, Batches, NothingForgotten, Publish, AwaitsBatch
<1>5. ToldIsSaved'
  <2>1. publisher.batch \in Change /\ publisher.batch # NoBatch
    BY DEF Inv, TypeOK, Batches, Publish
  <2>2. Range(published') \subseteq Range(published) \cup {publisher.batch}
    <3>1. Range(Append(published, publisher.batch)) = Range(published) \cup {publisher.batch}
      BY <2>1, RangeAppendChange DEF Inv, TypeOK
    <3> QED BY <3>1 DEF Publish
  <2>3. Told' \subseteq Told
    BY <2>1, <2>2 DEF Told, Publish, AwaitsBatch
  <2> QED BY <2>3 DEF Inv, ToldIsSaved, Publish
<1>6. AnswersKeep'
  BY TaskLoopAssumption, RangeAppend DEF Inv, TypeOK, Batches, AnswersKeep, Publish, AwaitsBatch
<1> QED BY <1>1, <1>2, <1>3, <1>4, <1>5, <1>6 DEF Inv

LEMMA CancelKeeps ==
  ASSUME Inv, Cancel
  PROVE  Inv'
<1> USE DEF At, NoBatch, Change
<1>1. TypeOK'
  BY TaskLoopAssumption DEF Inv, TypeOK, Batches, Cancel
<1>2. Batches'
  BY TaskLoopAssumption DEF Inv, TypeOK, Batches, Cancel
<1>3. Phases'
  BY TaskLoopAssumption DEF Inv, TypeOK, Batches, Phases, Cancel
<1>4. NothingForgotten'
  BY TaskLoopAssumption DEF Inv, TypeOK, Batches, NothingForgotten, Cancel
<1>5. ToldIsSaved'
  BY TaskLoopAssumption DEF Inv, TypeOK, Batches, ToldIsSaved, Told, Cancel
<1>6. AnswersKeep'
  BY TaskLoopAssumption DEF Inv, TypeOK, Batches, AnswersKeep, Cancel
<1> QED BY <1>1, <1>2, <1>3, <1>4, <1>5, <1>6 DEF Inv

LEMMA RestartKeeps ==
  ASSUME Inv, Restart
  PROVE  Inv'
<1> USE DEF At, NoBatch, Change
<1>1. TypeOK'
  <2>1. dropped' \subseteq Change
    BY RangeInType DEF Inv, TypeOK, Restart, Handed
  <2>2. crashes' \in 0..MaxCrashes
    BY TaskLoopAssumption DEF Inv, TypeOK, Restart
  <2>3. eventCh' \in [batches : Seq(Change), closed : BOOLEAN] /\ Len(eventCh'.batches) <= QueueSize
    BY TaskLoopAssumption DEF Restart, OpenEventCh
  <2> QED BY <2>1, <2>2, <2>3 DEF Inv, TypeOK, Restart, Goto, Idle
<1>2. Batches'
  BY TaskLoopAssumption DEF Inv, TypeOK, Batches, Restart, Goto, OpenEventCh, Idle, Handed
<1>3. Phases'
  BY TaskLoopAssumption DEF Inv, TypeOK, Batches, Phases, Restart, Goto, OpenEventCh, Idle, Handed
<1>4. NothingForgotten'
  BY TaskLoopAssumption DEF Inv, TypeOK, Batches, NothingForgotten, Restart, Goto, OpenEventCh, Idle, Handed
<1>5. ToldIsSaved'
  <2>1. Range(eventCh'.batches) = {}
    BY RangeEmpty DEF Restart, OpenEventCh
  <2>2. Told' \subseteq Told
    BY <2>1 DEF Told, Restart, Goto
  <2> QED BY <2>2 DEF Inv, ToldIsSaved, Restart, Goto
<1>6. AnswersKeep'
  BY TaskLoopAssumption DEF Inv, TypeOK, Batches, AnswersKeep, Restart, Goto, OpenEventCh, Idle, Handed
<1> QED BY <1>1, <1>2, <1>3, <1>4, <1>5, <1>6 DEF Inv

LEMMA Step == Inv /\ [Next]_vars => Inv'
<1> SUFFICES ASSUME Inv, [Next]_vars PROVE Inv'
  OBVIOUS
<1>1. ASSUME NEW c \in Caller, Calls(c) \/ Select(c) \/ Return(c) PROVE Inv'
  BY <1>1, CallsKeeps, TakeReportKeeps, ConfigUpdateKeeps, SnapshotRequestKeeps, ReturnKeeps
  DEF Select
<1>2. CASE TickerFires \/ Stop
  BY <1>2, TickerFiresKeeps, StopKeeps
<1>3. CASE Proceed
  BY <1>3, LoadKeeps, ProcessReportKeeps, OpenKeeps, WriteKeeps, HandOverKeeps,
     WaitForPublisherKeeps
  DEF Proceed
<1>4. CASE Receive \/ Publish \/ Cancel \/ Restart
  BY <1>4, ReceiveKeeps, PublishKeeps, CancelKeeps, RestartKeeps
<1>5. CASE UNCHANGED vars
  BY <1>5
  DEF vars, Inv, TypeOK, Batches, Phases, NothingForgotten, Told, ToldIsSaved, AnswersKeep, At
<1> QED BY <1>1, <1>2, <1>3, <1>4, <1>5 DEF Next, Ended

\* The inductive invariant holds of every state the program reaches.
THEOREM Invariant == Spec => []Inv
<1> QED BY Initially, Step, PTL DEF Spec
-----------------------------------------------------------------------------
(* What the invariant is for *)

\* Every variable keeps its type: the channel never holds more than it has room
\* for.
THEOREM TypeCorrect == Spec => []TypeOK
<1>1. Inv => TypeOK
  BY DEF Inv
<1> QED BY <1>1, Invariant, PTL

\* What the bus was told is in the cache file, unless writing it failed.
THEOREM ToldSurvives == Spec => []PublishedIsSaved
<1>1. Inv => PublishedIsSaved
  BY DEF Inv, ToldIsSaved, Told, PublishedIsSaved
<1> QED BY <1>1, Invariant, PTL

\* A snapshot shows every change whose events were on the bus when it was asked
\* for.
THEOREM SnapshotsCurrent == Spec => []AnswersAreCurrent
<1>1. Inv => AnswersAreCurrent
  BY DEF Inv, AnswersKeep, AnswersAreCurrent
<1> QED BY <1>1, Invariant, PTL

\* A stop leaves nothing in the channel, and a file that is the inventory.
THEOREM StopLeavesNothing == Spec => []StopsClean
<1>1. Inv => StopsClean
  BY DEF Inv, Phases, StopsClean, At
<1> QED BY <1>1, Invariant, PTL

\* When the loop waits for the publisher, the publisher is there and can go on.
LEMMA PublisherHelps == Inv => NotAbandoned
<1> SUFFICES ASSUME Inv PROVE NotAbandoned
  OBVIOUS
<1>1. publisher.pc \in {"Range", "Publish", "Done"}
  BY DEF Inv, TypeOK
<1>2. ASSUME At("Send"), Len(eventCh.batches) >= QueueSize PROVE PublisherRuns
  <2>1. publisher.pc # "Done"
    BY <1>2 DEF Inv, Phases, At
  <2>2. eventCh.batches # <<>>
    BY <1>2, TaskLoopAssumption
  <2> QED BY <1>1, <2>1, <2>2 DEF PublisherRuns
<1>3. ASSUME At("Wait"), publisher.pc # "Done" PROVE PublisherRuns
  BY <1>1, <1>3 DEF Inv, Phases, At, PublisherRuns
<1>4. Len(eventCh.batches) \in Nat /\ QueueSize \in Nat
  BY TaskLoopAssumption DEF Inv, TypeOK
<1> QED BY <1>2, <1>3, <1>4 DEF NotAbandoned

\* The loop never waits for a publisher that has nothing to do, or has ended.
THEOREM NeverAbandoned == Spec => []NotAbandoned
BY PublisherHelps, Invariant, PTL
-----------------------------------------------------------------------------
(* Events come to the bus in order: TaskLoop implements EventBus.  Every   *)
(* step of the loop is a step of the bus or none, by where the batches on  *)
(* their way are: the publisher's, then the channel's, then the loop's.    *)

LEMMA HandsAreSequences ==
  ASSUME Inv
  PROVE  /\ InHand(publisher.batch) \in Seq(Change) /\ InHand(loop.batch) \in Seq(Change)
         /\ eventCh.batches \in Seq(Change) /\ Pending \in Seq(Change)
BY DEF Inv, TypeOK, InHand, Pending

LEMMA HandProperties ==
  /\ InHand(NoBatch) = <<>>
  /\ \A b \in Change : InHand(b) = <<b>> /\ <<b>> \in Seq(Change) /\ Len(<<b>>) = 1
BY DEF InHand, NoBatch, Change

LEMMA ConcatBatches ==
  \A s, t, u \in Seq(Change) : (s \o t) \o u = s \o (t \o u)
<1> SUFFICES ASSUME NEW s \in Seq(Change), NEW t \in Seq(Change), NEW u \in Seq(Change)
             PROVE  (s \o t) \o u = s \o (t \o u)
  OBVIOUS
<1>1. (s \o t) \in Seq(Change) /\ (t \o u) \in Seq(Change)
  BY ConcatProperties
<1> DEFINE l == (s \o t) \o u
           r == s \o (t \o u)
<1>2. l \in Seq(Change) /\ r \in Seq(Change) /\ Len(l) = Len(r)
  BY <1>1, ConcatProperties
<1>3. ASSUME NEW i \in 1..Len(l) PROVE l[i] = r[i]
  <2>1. CASE i <= Len(s)
    BY <1>1, <1>3, <2>1, ConcatProperties
  <2>2. CASE i > Len(s) /\ i <= Len(s) + Len(t)
    BY <1>1, <1>3, <2>2, ConcatProperties
  <2>3. CASE i > Len(s) + Len(t)
    BY <1>1, <1>3, <2>3, ConcatProperties
  <2> QED BY <1>3, <2>1, <2>2, <2>3
<1> HIDE DEF l, r
<1>4. l = r
  BY <1>2, <1>3, SeqEqual
<1> QED BY <1>4 DEF l, r

\* A batch is added at the end.
LEMMA PendingGrows ==
  ASSUME Inv, loop.batch = NoBatch, NEW x \in Change
  PROVE  InHand(publisher.batch) \o eventCh.batches \o InHand(x) = Append(Pending, x)
<1> DEFINE t == InHand(publisher.batch) \o eventCh.batches
<1>1. t \in Seq(Change)
  BY HandsAreSequences, ConcatProperties
<1> HIDE DEF t
<1>2. t \o <<>> = t
  BY <1>1, ConcatEmptySeq
<1>3. Append(t, x) = t \o <<x>>
  BY <1>1, AppendIsConcat
<1>4. Pending = t
  BY <1>2, HandProperties DEF t, Pending
<1> QED BY <1>3, <1>4, HandProperties DEF t

\* A sequence with an element in front.
LEMMA InFront ==
  ASSUME NEW S, NEW h \in S, NEW t \in Seq(S)
  PROVE  /\ <<h>> \o t \in Seq(S) /\ <<h>> \o t # <<>>
         /\ Head(<<h>> \o t) = h /\ Tail(<<h>> \o t) = t
<1> DEFINE s == <<h>> \o t
<1>1. <<h>> \in Seq(S) /\ Len(<<h>>) = 1 /\ <<h>>[1] = h /\ Len(t) \in Nat
  OBVIOUS
<1>2. /\ s \in Seq(S) /\ Len(s) = 1 + Len(t) /\ s[1] = h
      /\ \A i \in 1..Len(t) : s[i + 1] = t[i]
  BY <1>1, ConcatProperties
<1> HIDE DEF s
<1>3. s # <<>>
  BY <1>1, <1>2
<1>4. Head(s) = h
  BY <1>2, <1>3
<1>5. /\ Tail(s) \in Seq(S) /\ Len(Tail(s)) = Len(t)
      /\ \A i \in 1..Len(Tail(s)) : Tail(s)[i] = t[i]
  BY <1>1, <1>2, <1>3, HeadTailProperties
<1>6. Tail(s) = t
  BY <1>5, SeqEqual
<1> QED BY <1>2, <1>3, <1>4, <1>6 DEF s

\* The batch of the publisher is the first.
LEMMA PendingShrinks ==
  ASSUME Inv, publisher.batch # NoBatch
  PROVE  /\ Pending # <<>> /\ Head(Pending) = publisher.batch
         /\ Tail(Pending) = InHand(NoBatch) \o eventCh.batches \o InHand(loop.batch)
<1> DEFINE t == eventCh.batches \o InHand(loop.batch)
<1>1. publisher.batch \in Change
  BY DEF Inv, TypeOK
<1>2. t \in Seq(Change)
  BY HandsAreSequences, ConcatProperties
<1>3. Pending = <<publisher.batch>> \o t
  <2> DEFINE h == InHand(publisher.batch)
             l == InHand(loop.batch)
  <2>1. /\ h \in Seq(Change) /\ l \in Seq(Change)
        /\ eventCh.batches \in Seq(Change)
    BY HandsAreSequences
  <2>2. h = <<publisher.batch>>
    BY <1>1, HandProperties
  <2> HIDE DEF h, l
  <2>3. (h \o eventCh.batches) \o l = h \o (eventCh.batches \o l)
    BY <2>1, ConcatBatches
  <2> QED BY <2>2, <2>3 DEF h, l, Pending
<1>4. InHand(NoBatch) \o eventCh.batches \o InHand(loop.batch) = t
  BY HandsAreSequences, HandProperties, ConcatEmptySeq
<1> HIDE DEF t
<1> QED BY <1>1, <1>2, <1>3, <1>4, InFront

LEMMA RangeConcat ==
  ASSUME NEW S, NEW s \in Seq(S), NEW t \in Seq(S)
  PROVE  Range(s \o t) = Range(s) \cup Range(t)
<1> DEFINE u == s \o t
<1>1. /\ Len(s) \in Nat /\ Len(t) \in Nat
      /\ DOMAIN s = 1..Len(s) /\ DOMAIN t = 1..Len(t)
  OBVIOUS
<1>2. /\ DOMAIN u = 1..Len(s) + Len(t)
      /\ \A i \in 1..Len(s) + Len(t) : u[i] = IF i <= Len(s) THEN s[i] ELSE t[i - Len(s)]
  BY ConcatProperties, LenProperties
<1> HIDE DEF u
<1>3. ASSUME NEW y \in Range(u) PROVE y \in Range(s) \cup Range(t)
  <2>1. PICK i \in 1..Len(s) + Len(t) : y = u[i]
    BY <1>2, <1>3 DEF Range
  <2>2. CASE i <= Len(s)
    BY <1>1, <1>2, <2>1, <2>2 DEF Range
  <2>3. CASE ~(i <= Len(s))
    <3>1. i - Len(s) \in DOMAIN t /\ y = t[i - Len(s)]
      BY <1>1, <1>2, <2>1, <2>3
    <3> QED BY <3>1 DEF Range
  <2> QED BY <2>2, <2>3
<1>4. ASSUME NEW y \in Range(s) PROVE y \in Range(u)
  <2>1. PICK i \in 1..Len(s) : y = s[i]
    BY <1>1, <1>4 DEF Range
  <2>2. i \in DOMAIN u /\ u[i] = y
    BY <1>1, <1>2, <2>1
  <2> QED BY <2>2 DEF Range
<1>5. ASSUME NEW y \in Range(t) PROVE y \in Range(u)
  <2>1. PICK i \in 1..Len(t) : y = t[i]
    BY <1>1, <1>5 DEF Range
  <2>2. i + Len(s) \in DOMAIN u /\ u[i + Len(s)] = y
    BY <1>1, <1>2, <2>1
  <2> QED BY <2>2 DEF Range
<1> QED BY <1>3, <1>4, <1>5 DEF u

LEMMA RangePending ==
  ASSUME Inv
  PROVE  Range(Pending) = Handed
<1>1. \A b \in Change : Range(<<b>>) = {b}
  BY DEF Range
<1>2. /\ Range(InHand(publisher.batch)) = {publisher.batch} \ {NoBatch}
      /\ Range(InHand(loop.batch)) = {loop.batch} \ {NoBatch}
  BY <1>1, RangeEmpty, HandProperties DEF Inv, TypeOK, NoBatch
<1> DEFINE t == InHand(publisher.batch) \o eventCh.batches
<1>3. t \in Seq(Change) /\ Range(t) = Range(InHand(publisher.batch)) \cup Range(eventCh.batches)
  BY HandsAreSequences, ConcatProperties, RangeConcat
<1> HIDE DEF t
<1>4. Range(t \o InHand(loop.batch)) = Range(t) \cup Range(InHand(loop.batch))
  BY <1>3, HandsAreSequences, RangeConcat
<1> QED BY <1>2, <1>3, <1>4 DEF t, Pending, Handed

\* A step of the program that leaves the batches alone, and those that do not.
LEMMA HandOverMoves ==
  ASSUME Inv, HandOver
  PROVE  Pending' = Pending
<1> DEFINE p == InHand(publisher.batch)
<1>1. loop.batch \in Change /\ eventCh.batches \in Seq(Change) /\ p \in Seq(Change)
  BY HandsAreSequences DEF Inv, TypeOK, Batches, HandOver, At, NoBatch
<1>2. /\ publisher' = publisher /\ eventCh'.batches = Append(eventCh.batches, loop.batch)
      /\ loop'.batch = NoBatch
  BY DEF Inv, TypeOK, HandOver, Goto
<1>3. Pending' = p \o (eventCh.batches \o <<loop.batch>>) \o <<>>
  <2>1. Append(eventCh.batches, loop.batch) = eventCh.batches \o <<loop.batch>>
    BY <1>1, AppendIsConcat
  <2> QED BY <1>2, <2>1, HandProperties DEF Pending
<1>4. Pending = p \o eventCh.batches \o <<loop.batch>>
  BY <1>1, HandProperties DEF Pending
<1> HIDE DEF p
<1> DEFINE q == <<loop.batch>>
<1>5. q \in Seq(Change)
  BY <1>1
<1> HIDE DEF q
<1>6. /\ eventCh.batches \o q \in Seq(Change)
      /\ p \o (eventCh.batches \o q) \in Seq(Change)
      /\ p \o eventCh.batches \o q = p \o (eventCh.batches \o q)
  <2>1. eventCh.batches \o q \in Seq(Change)
    BY <1>1, <1>5, ConcatProperties
  <2>2. p \o (eventCh.batches \o q) \in Seq(Change)
    BY <1>1, <2>1, ConcatProperties
  <2>3. p \o eventCh.batches \o q = p \o (eventCh.batches \o q)
    BY <1>1, <1>5, ConcatBatches
  <2> QED BY <2>1, <2>2, <2>3
<1>7. p \o (eventCh.batches \o q) \o <<>> = p \o (eventCh.batches \o q)
  BY <1>6, ConcatEmptySeq
<1> QED BY <1>3, <1>4, <1>6, <1>7 DEF q

LEMMA ReceiveMoves ==
  ASSUME Inv, Receive
  PROVE  Pending' = Pending
<1>1. publisher.batch = NoBatch
  BY DEF Inv, TypeOK, Batches, Receive
<1>2. CASE eventCh.batches # <<>>
           /\ publisher' = [pc |-> "Publish", batch |-> Head(eventCh.batches)]
           /\ eventCh' = [eventCh EXCEPT !.batches = Tail(@)]
  <2> DEFINE h == Head(eventCh.batches)
             r == Tail(eventCh.batches)
  <2>1. /\ h \in Change /\ r \in Seq(Change) /\ eventCh.batches \in Seq(Change)
        /\ publisher'.batch = h /\ eventCh'.batches = r /\ loop' = loop
    BY <1>2, HeadTailProperties DEF Inv, TypeOK, Receive
  <2>2. <<h>> \o r = eventCh.batches
    <3>1. /\ <<h>> \in Seq(Change) /\ Len(<<h>>) = 1 /\ <<h>>[1] = h
          /\ Len(r) = Len(eventCh.batches) - 1 /\ Len(eventCh.batches) \in Nat
          /\ \A i \in 1..Len(r) : r[i] = eventCh.batches[i+1]
          /\ h = eventCh.batches[1]
      BY <2>1, <1>2, HeadTailProperties
    <3> DEFINE s == <<h>> \o r
    <3>2. /\ s \in Seq(Change) /\ Len(s) = 1 + Len(r)
          /\ \A i \in 1..1 + Len(r) : s[i] = IF i <= 1 THEN <<h>>[i] ELSE r[i - 1]
      BY <2>1, <3>1, ConcatProperties
    <3> HIDE DEF s, h, r
    <3>3. Len(s) = Len(eventCh.batches) /\ \A i \in 1..Len(s) : s[i] = eventCh.batches[i]
      BY <3>1, <3>2
    <3>4. s = eventCh.batches
      BY <2>1, <3>2, <3>3, SeqEqual
    <3> QED BY <3>4 DEF s
  <2>3. InHand(publisher.batch) \o eventCh.batches = eventCh.batches
    BY <1>1, <2>1, HandProperties, ConcatEmptySeq
  <2> QED BY <2>1, <2>2, <2>3, HandProperties DEF Pending
<1>3. CASE publisher' = [pc |-> "Done", batch |-> NoBatch] /\ UNCHANGED eventCh
  BY <1>1, <1>3 DEF Pending, Receive
<1> QED BY <1>2, <1>3 DEF Receive

LEMMA ChangeMakes ==
  ASSUME Inv, Changed, loop.batch = NoBatch, loop'.batch \in {NoBatch, changes'},
         UNCHANGED <<eventCh, publisher, published, dropped>>
  PROVE  Bus!Make
<1>1. changes' \in Change
  BY TaskLoopAssumption DEF Inv, TypeOK, Changed, Change
<1>2. CASE loop'.batch = NoBatch
  BY <1>2 DEF Pending, Bus!Make, Changed
<1>3. CASE loop'.batch = changes'
  <2>1. Pending' = Append(Pending, changes')
    BY <1>1, <1>3, PendingGrows DEF Pending
  <2> QED BY <2>1 DEF Bus!Make, Changed
<1> QED BY <1>2, <1>3

LEMMA Implements == Inv /\ [Next]_vars => [Bus!Next]_(Bus!vars)
<1> SUFFICES ASSUME Inv, [Next]_vars PROVE Bus!Next \/ UNCHANGED Bus!vars
  OBVIOUS
<1>1. ASSUME Pending' = Pending, UNCHANGED <<changes, published, dropped>>
      PROVE  UNCHANGED Bus!vars
  BY <1>1 DEF Bus!vars
<1>2. ASSUME NEW c \in Caller, Calls(c) \/ Select(c) \/ Return(c) PROVE UNCHANGED Bus!vars
  <2>1. /\ UNCHANGED <<eventCh, publisher, changes, published, dropped>>
        /\ loop'.batch = loop.batch
    BY <1>2 DEF Calls, Send, Select, TakeReport, ConfigUpdate, SnapshotRequest, Return, Goto,
                At, Inv, Batches
  <2> QED BY <1>1, <2>1 DEF Pending
<1>3. CASE TickerFires \/ ProcessReport
  <2>1. CASE Changed
    <3>1. /\ loop.batch = NoBatch /\ loop'.batch \in {NoBatch, changes'}
          /\ UNCHANGED <<eventCh, publisher, published, dropped>>
      BY <1>3, <2>1 DEF TickerFires, ProcessReport, Goto, At, Inv, Batches
    <3> QED BY <2>1, <3>1, ChangeMakes DEF Bus!Next
  <2>2. CASE ~Changed
    <3>1. /\ UNCHANGED <<eventCh, publisher, changes, published, dropped>>
          /\ loop'.batch = loop.batch
      BY <1>3, <2>2 DEF TickerFires, ProcessReport, Goto, At, Inv, Batches
    <3> QED BY <1>1, <3>1 DEF Pending
  <2> QED BY <2>1, <2>2
<1>4. CASE Load \/ Stop \/ WaitForPublisher
  <2>1. /\ UNCHANGED <<changes, published, dropped>> /\ eventCh'.batches = eventCh.batches
        /\ publisher'.batch = publisher.batch /\ loop'.batch = loop.batch
    BY <1>4 DEF Load, Stop, WaitForPublisher, Goto, At, OpenEventCh, AwaitsBatch,
                Inv, TypeOK, Batches, Phases
  <2> QED BY <1>1, <2>1 DEF Pending
<1>5. CASE Open \/ Write
  <2>1. /\ UNCHANGED <<eventCh, publisher, changes, published, dropped>>
        /\ loop'.batch = loop.batch
    BY <1>5 DEF Open, Write, AfterPersist, Goto, Inv, Phases
  <2> QED BY <1>1, <2>1 DEF Pending
<1>6. CASE HandOver
  BY <1>1, <1>6, HandOverMoves DEF HandOver
<1>7. CASE Receive
  BY <1>1, <1>7, ReceiveMoves DEF Receive
<1>8. CASE Publish
  <2>1. publisher.batch # NoBatch
    BY <1>8 DEF Publish, Inv, Batches
  <2>2. Pending' = InHand(NoBatch) \o eventCh.batches \o InHand(loop.batch)
    BY <1>8 DEF Publish, AwaitsBatch, Pending
  <2>3. Bus!Leave /\ Head(Pending) = publisher.batch
    BY <1>8, <2>1, <2>2, PendingShrinks DEF Bus!Leave, Publish
  <2> QED BY <1>8, <2>3 DEF Publish, Bus!Next, Bus!Deliver, Bus!Drop
<1>9. CASE Restart
  <2>1. Pending' = <<>>
    <3>1. Pending' = <<>> \o <<>> \o <<>>
      BY <1>9, HandProperties DEF Restart, Goto, OpenEventCh, Pending
    <3> QED BY <3>1
  <2>2. dropped' = dropped \cup {Pending[i] : i \in DOMAIN Pending}
    BY <1>9, RangePending DEF Restart, Range
  <2> QED BY <1>9, <2>1, <2>2 DEF Restart, Bus!Next, Bus!Crash
<1>10. CASE Cancel \/ UNCHANGED vars
  BY <1>10 DEF Cancel, vars, Bus!vars, Pending
<1> QED BY <1>2, <1>3, <1>4, <1>5, <1>6, <1>7, <1>8, <1>9, <1>10 DEF Next, Proceed, Ended

\* Subscribers get the batches in order, none twice, however the loop, the
\* channel and the publisher interleave and wherever the process ends.
THEOREM EventsInOrder == Spec => DeliversInOrder
<1>1. Init => Bus!Init
  <2> SUFFICES ASSUME Init PROVE Bus!Init
    OBVIOUS
  <2>1. Pending = <<>> \o <<>> \o <<>>
    BY HandProperties DEF Init, OpenEventCh, Pending
  <2>2. Pending = <<>>
    BY <2>1
  <2> QED BY <2>2 DEF Init, Bus!Init
<1> QED BY <1>1, Implements, Invariant, PTL DEF Spec, DeliversInOrder, Bus!Spec
=============================================================================
