----------------------------- MODULE ReaderGroup -----------------------------
(***************************************************************************)
(* The group of managed readers: internal/llrp/reader_group.go, called by  *)
(* the HTTP handlers of routes.go and the event handlers of controller.go, *)
(* each on a goroutine of its own, over the device commands of             *)
(* device_service.go.                                                      *)
(*                                                                         *)
(* A step is what a goroutine does between two points where another can    *)
(* run: taking or waiting for the mutex, and each command to a device.     *)
(* Readers (LLRP devices) are external, as is sync.RWMutex; both are       *)
(* modelled by how this code uses them.                                    *)
(***************************************************************************)
EXTENDS Integers, Sequences, FiniteSets

CONSTANTS
  Device,         \* names of readers
  Behavior,       \* what an operator may ask of the group; of a Behavior's
                  \* fields only those that decide the start trigger are kept
  Accepts,        \* pairs <<d, b>>: NewROSpec of device d succeeds for b
  Impinj,         \* the devices of this vendor
  InitialBehavior,
  Thread,         \* goroutines
  Nobody,         \* no thread; no ROSpec
  MaxTries,       \* how often GetCapabilities asks: 5 in the code
  Lags,           \* how late the device service may notice a reader
  Uncounted,      \* goroutines whose calls the first bound leaves out
  MaxOps,         \* bound: how many operations are started
  MaxResets       \* bound: how often a device loses its ROSpecs

ASSUME ReaderGroupAssumption ==
  /\ Behavior \subseteq [name : STRING, duration : Nat, gpiTrigger : BOOLEAN]
  /\ Accepts \subseteq Device \X Behavior
  /\ Impinj \subseteq Device
  /\ InitialBehavior \in Behavior
  /\ Nobody \notin Thread
  /\ MaxTries \in Nat \ {0}
  /\ Lags \subseteq Nat
  /\ MaxOps \in Nat /\ MaxResets \in Nat

VARIABLES
  group,          \* ReaderGroup.readers: the names it manages
  behavior,       \* ReaderGroup.behavior
  mu,             \* ReaderGroup.mu
  local,          \* what each goroutine is doing
  device,         \* the ROSpec on each device
  lag,            \* how long, counted in sleepIntervals of 250 ms, until the
                  \* device service lets commands through to each device
  ops, resets,    \* counters for the bounds
  suspect,        \* history: devices about which a caller got an error, that
                  \* joined while the group's behavior changed, or reset
  promised,       \* history: per device, what a StartAll or StopAll has done
                  \* without an error and nothing since has undone
  wanted          \* history: per device, whether it is to be in the group, by
                  \* the last AddReader or RemoveReader; Unsure if that one
                  \* overlapped another or met an error, and at first

vars == <<group, behavior, mu, local, device, lag, ops, resets, suspect, promised, wanted>>

NoSpec == [state |-> "None"]
ROSpec(b, state) == [state |-> state, behavior |-> b]
ROSpecs == {NoSpec} \cup {ROSpec(b, s) : b \in Behavior,
                                        s \in {"Disabled", "Inactive", "Active"}}

\* Behavior.StartTrigger, behavior.go 937-950.
StartTrigger(b) ==
  IF b.gpiTrigger THEN "GPI" ELSE IF b.duration = 0 THEN "Immediate" ELSE "None"

\* Behavior.stopTrigger, 958-964: without a duration it reads until told to stop.
StopTrigger(b) == IF b.duration > 0 THEN "Duration" ELSE "None"
-----------------------------------------------------------------------------
(* sync.RWMutex.  A writer that has announced itself keeps new readers out *)
(* while it waits for the old ones; the readers that queued behind it all  *)
(* go before the next writer.                                              *)

Unlocked == [writer |-> Nobody, readers |-> {}, queue |-> {}]

Announce(t)  == mu.writer = Nobody /\ mu' = [mu EXCEPT !.writer = t]
Locked(t)    == mu.writer = t /\ mu.readers = {}
Unlock       == mu' = [writer |-> Nobody, readers |-> mu.queue, queue |-> {}]
RLock(t)     == mu' = IF mu.writer = Nobody THEN [mu EXCEPT !.readers = @ \cup {t}]
                                            ELSE [mu EXCEPT !.queue = @ \cup {t}]
RLocked(t)   == t \in mu.readers
RUnlock(t)   == mu' = [mu EXCEPT !.readers = @ \ {t}]
-----------------------------------------------------------------------------
(* Devices: LLRP readers behind the device service *)

\* Does a reader with ROSpec `spec' obey the command?  It holds one ROSpec
\* per ROSpecID, and starts or stops only one that is enabled.
Legal(cmd, spec) ==
  CASE cmd = "DeleteAll"            -> TRUE
    [] cmd = "Add"                  -> spec = NoSpec
    [] cmd \in {"Enable", "Disable"} -> spec # NoSpec
    [] cmd \in {"Start", "Stop"}     -> spec.state \in {"Inactive", "Active"}

\* What obeying does.  An added ROSpec is disabled, as NewROSpec makes it; one
\* with an immediate start trigger is active as soon as it is enabled.
Effect(cmd, spec, b) ==
  CASE cmd = "DeleteAll" -> NoSpec
    [] cmd = "Add"       -> ROSpec(b, "Disabled")
    [] cmd = "Enable"    -> IF spec.state # "Disabled" THEN spec
                            ELSE IF StartTrigger(spec.behavior) = "Immediate"
                                 THEN [spec EXCEPT !.state = "Active"]
                                 ELSE [spec EXCEPT !.state = "Inactive"]
    [] cmd = "Disable"   -> [spec EXCEPT !.state = "Disabled"]
    [] cmd = "Start"     -> [spec EXCEPT !.state = "Active"]
    [] cmd = "Stop"      -> [spec EXCEPT !.state = "Inactive"]

\* A command is obeyed; or refused, for whatever reason, and always while the
\* reader lags; or obeyed, with the answer lost on its way back.
Command(cmd, d, b, ok) ==
  \/ /\ lag[d] = 0 /\ Legal(cmd, device[d])
     /\ device' = [device EXCEPT ![d] = Effect(cmd, @, b)]
  \/ ~ok /\ UNCHANGED device

\* On its own a reader starts at its GPI event and stops after its duration;
\* or it restarts without its ROSpecs.
Turn(d, state) == device' = [device EXCEPT ![d] = [@ EXCEPT !.state = state]]

Trigger(d) ==
  /\ device[d].state = "Inactive" /\ StartTrigger(device[d].behavior) = "GPI"
  /\ Turn(d, "Active")
  /\ UNCHANGED <<group, behavior, mu, local, lag, ops, resets, suspect, promised, wanted>>

Expire(d) ==
  /\ device[d].state = "Active" /\ StopTrigger(device[d].behavior) = "Duration"
  /\ Turn(d, "Inactive")
  /\ UNCHANGED <<group, behavior, mu, local, lag, ops, resets, suspect, promised, wanted>>

\* Somebody adds or removes d.
InTransit(d) ==
  \E t \in Thread : local[t].op \in {"AddReader", "RemoveReader"} /\ local[t].dev = d

Reset(d) ==
  /\ resets < MaxResets
  /\ resets' = resets + 1
  /\ device' = [device EXCEPT ![d] = NoSpec]
  /\ \E l \in Lags : lag' = [lag EXCEPT ![d] = l]
  /\ suspect' = suspect \cup {d}
  /\ promised' = [promised EXCEPT ![d] = "Nothing"]
  /\ wanted' = [wanted EXCEPT ![d] = IF InTransit(d) THEN "Unsure" ELSE @]
  /\ UNCHANGED <<group, behavior, mu, local, ops>>

\* Time passes: at least `units' of it.
Pass(units) == lag' = [d \in Device |-> IF lag[d] > units THEN lag[d] - units ELSE 0]
-----------------------------------------------------------------------------
(* Goroutines *)

\* `tries' counts the queries that failed; `todo' holds the readers a loop has
\* yet to reach, or those a SetBehavior is for; `chain' the commands yet to be
\* sent to each reader, in order; `failed' the readers an error was met with.
Send(S, cmds) == [d \in Device |-> IF d \in S THEN cmds ELSE <<>>]

Returned == [op |-> "None", pc |-> "Idle", dev |-> Nobody, b |-> Nobody, tries |-> 0,
             todo |-> {}, chain |-> Send({}, <<>>), failed |-> {}]

Become(t, l) == local' = [local EXCEPT ![t] = l]
Goto(t, label) == Become(t, [local[t] EXCEPT !.pc = label])

At(t, op, label) == local[t].op = op /\ local[t].pc = label

\* A call, from a goroutine that was idle.
Begin(t, op, label, d, b) ==
  /\ local[t].op = "None"
  /\ Become(t, [Returned EXCEPT !.op = op, !.pc = label, !.dev = d, !.b = b])
  /\ UNCHANGED <<group, behavior, mu, device, lag, resets, suspect, promised>>

Call(t, op, label, d, b) ==
  /\ IF t \in Uncounted THEN UNCHANGED ops ELSE ops < MaxOps /\ ops' = ops + 1
  /\ Begin(t, op, label, d, b)

Private == UNCHANGED <<group, behavior, ops, resets, device, lag, suspect, promised, wanted>>

\* AddReader returns an error about its reader.
Fail(t) ==
  LET d == local[t].dev
  IN /\ Become(t, Returned)
     /\ suspect' = suspect \cup {d}
     /\ wanted' = [wanted EXCEPT ![d] = "Unsure"]

\* A reader that can be reached while GetCapabilities still asks: its pauses
\* are of 1, 2, ... MaxTries - 1 intervals.
InReach(d) == 2 * lag[d] <= (MaxTries - 1) * MaxTries

Want(d, where) ==
  wanted' = [wanted EXCEPT ![d] = IF InTransit(d) THEN "Unsure" ELSE where]

\* AddReader, 128-156, for Initialize and for a connection event.
WantIn(d) == Want(d, IF InReach(d) THEN "In" ELSE "Unsure")
CallAddReader(t, d) ==
  Call(t, "AddReader", "Query", d, Nobody) /\ WantIn(d)

\* Asking device d fails, for the n-th time.
AskedInVain(t, d, n, pause) ==
  /\ lag[d] > 0
  /\ \/ n < MaxTries /\ Pass(pause) /\ Become(t, [local[t] EXCEPT !.tries = n])
     \/ n = MaxTries /\ Become(t, Returned) /\ UNCHANGED lag
  /\ UNCHANGED <<suspect, wanted>>

\* What it says of itself may be of no use (65-75, 87-90).
Answers(t, d) ==
  /\ lag[d] = 0
  /\ \/ Goto(t, IF d \in Impinj THEN "Extend" ELSE "Config") /\ UNCHANGED <<suspect, wanted>>
     \/ Fail(t)
  /\ UNCHANGED lag

\* Mutant of GetCapabilities: all pauses are of one interval.
GetCapabilitiesHasty(t) ==
  LET d == local[t].dev
  IN /\ At(t, "AddReader", "Query")
     /\ Answers(t, d) \/ AskedInVain(t, d, local[t].tries + 1, 1)
     /\ UNCHANGED <<group, behavior, mu, device, ops, resets, promised>>

\* GetCapabilities, device_service.go 103-140: a query that fails is repeated
\* after a pause that grows with each.
GetCapabilities(t) ==
  LET d == local[t].dev
      n == local[t].tries + 1
  IN /\ At(t, "AddReader", "Query")
     /\ Answers(t, d) \/ AskedInVain(t, d, n, n)
     /\ UNCHANGED <<group, behavior, mu, device, ops, resets, promised>>

\* EnableCustomExt, device_service.go 243-255.
EnableCustomExt(t) ==
  /\ At(t, "AddReader", "Extend")
  /\ \/ lag[local[t].dev] = 0 /\ Goto(t, "Config") /\ UNCHANGED <<suspect, wanted>>
     \/ Fail(t)
  /\ UNCHANGED <<group, behavior, mu, device, lag, ops, resets, promised>>

\* SetConfig, device_service.go 143-166.  The configuration resets the reader
\* to its factory defaults (behavior.go 278), and whether its ROSpecs survive
\* that is the reader's affair.
SetConfig(t) ==
  LET d == local[t].dev
  IN /\ At(t, "AddReader", "Config")
     /\ \/ UNCHANGED <<device, promised>>
        \/ /\ lag[d] = 0
           /\ device' = [device EXCEPT ![d] = NoSpec]
           /\ promised' = [promised EXCEPT ![d] = "Nothing"]
     /\ \/ lag[d] = 0 /\ Goto(t, "RLock") /\ UNCHANGED <<suspect, wanted>>
        \/ Fail(t)
     /\ UNCHANGED <<group, behavior, lag, mu, ops, resets>>

WantRead(t) ==
  /\ local[t].pc = "RLock"
  /\ RLock(t)
  /\ Goto(t, "RLocked")
  /\ Private

\* Mutant of ReplaceRO: the new ROSpec goes first.
ReplaceROAddFirst == <<"Add", "DeleteAll">>

\* replaceRO, 161-167: what it sends, as long as nothing fails.
ReplaceRO == <<"DeleteAll", "Add">>

\* 134-142: the behavior is copied, the mutex released, the ROSpec made.
CopyBehavior(t) ==
  /\ At(t, "AddReader", "RLocked")
  /\ RLocked(t)
  /\ RUnlock(t)
  /\ IF <<local[t].dev, behavior>> \in Accepts
     THEN /\ Become(t, [local[t] EXCEPT
                          !.pc = "Replace", !.b = behavior,
                          !.chain = Send({local[t].dev}, ReplaceRO)])
          /\ UNCHANGED <<suspect, wanted>>
     ELSE Fail(t)
  /\ UNCHANGED <<group, behavior, ops, resets, device, lag, promised>>

\* A command to d is over; `rest' is still to be sent.
Sent(t, d, rest, ok) ==
  Become(t, [local[t] EXCEPT !.chain  = [@ EXCEPT ![d] = rest],
                             !.failed = IF ok THEN @ ELSE @ \cup {d}])

\* replaceRO, 161-167: Delete, then Add if the Delete succeeded.  AddReader
\* does it on its own, SetBehavior on one goroutine for each reader.
ReplaceStep(t, d) ==
  LET cmds == local[t].chain[d]
  IN /\ local[t].pc = "Replace"
     /\ cmds # <<>>
     /\ \E ok \in BOOLEAN :
          /\ Command(Head(cmds), d, local[t].b, ok)
          /\ Sent(t, d, IF ok THEN Tail(cmds) ELSE <<>>, ok)
          /\ suspect' = IF ~ok THEN suspect \cup {d}
                        ELSE IF Tail(cmds) = <<>> /\ local[t].b = behavior
                             THEN suspect \ {d} ELSE suspect
     /\ promised' = [promised EXCEPT ![d] = IF @ = "Started" THEN "Nothing" ELSE @]
     /\ UNCHANGED <<group, behavior, lag, ops, resets, mu, wanted>>

\* There are commands yet to be sent.
Talking(t) == \E d \in Device : local[t].chain[d] # <<>>

ReplaceDone(t) ==
  /\ local[t].pc = "Replace"
  /\ ~Talking(t)

\* 145-149
WantInsert(t) ==
  /\ local[t].op = "AddReader" /\ ReplaceDone(t)
  /\ IF local[t].failed # {} THEN Fail(t)
                              ELSE Goto(t, "Lock") /\ UNCHANGED <<suspect, wanted>>
  /\ UNCHANGED <<group, behavior, mu, ops, resets, device, lag, promised>>

WantWrite(t) ==
  /\ local[t].pc = "Lock"
  /\ Announce(t)
  /\ Goto(t, "Locked")
  /\ Private

\* 149-155
Insert(t) ==
  LET d == local[t].dev
  IN /\ At(t, "AddReader", "Locked")
     /\ Locked(t)
     /\ group' = group \cup {d}
     /\ suspect' = IF local[t].b # behavior THEN suspect \cup {d} ELSE suspect
     /\ Unlock
     /\ Become(t, Returned)
     /\ UNCHANGED <<behavior, device, lag, ops, resets, promised, wanted>>

\* RemoveReader, 106-110.
CallRemoveReader(t, d) == Call(t, "RemoveReader", "Lock", d, Nobody) /\ Want(d, "Out")

Remove(t) ==
  /\ At(t, "RemoveReader", "Locked")
  /\ Locked(t)
  /\ group' = group \ {local[t].dev}
  /\ Unlock
  /\ Become(t, Returned)
  /\ UNCHANGED <<behavior, device, lag, ops, resets, suspect, promised, wanted>>

\* SetBehavior, 193-237.
CallSetBehavior(t, b) == Call(t, "SetBehavior", "Lock", Nobody, b) /\ UNCHANGED wanted

Valid(b) == \A d \in group : <<d, b>> \in Accepts

\* The readers that an AddReader brings with a behavior it has copied already.
Joining == {d \in Device : \E t \in Thread :
               /\ local[t].op = "AddReader" /\ local[t].dev = d
               /\ local[t].pc \in {"Replace", "Lock", "Locked"}}

\* Mutants of Accept: the mutex is free while the ROSpecs are replaced; the
\* behavior is set before it is validated; the lock outlives a rejection.
AcceptWith(t, b, accepted, rejected) ==
  /\ At(t, "SetBehavior", "Locked")
  /\ Locked(t)
  /\ \/ /\ ~Valid(b)
        /\ rejected
        /\ Become(t, Returned)
     \/ /\ Valid(b)
        /\ accepted
        /\ behavior' = b
        /\ Become(t, [local[t] EXCEPT !.pc = "Replace", !.todo = group,
                                      !.chain = Send(group, ReplaceRO)])
  /\ suspect' = suspect \cup IF Valid(b) THEN Joining ELSE {}
  /\ UNCHANGED <<group, device, lag, ops, resets, promised, wanted>>

AcceptUnlocked(t) == AcceptWith(t, local[t].b, Unlock, Unlock /\ UNCHANGED behavior)
AcceptUnseen(t)   == AcceptWith(t, local[t].b, UNCHANGED mu, Unlock /\ behavior' = local[t].b)
AcceptForgets(t)  == AcceptWith(t, local[t].b, UNCHANGED mu, UNCHANGED <<mu, behavior>>)

\* 197-223: one reader that rejects the behavior is enough; else the group
\* has it and the replacements begin, the mutex still held.
Accept(t) ==
  LET b == local[t].b
  IN /\ At(t, "SetBehavior", "Locked")
     /\ Locked(t)
     /\ \/ /\ ~Valid(b)
           /\ Unlock
           /\ Become(t, Returned)
           /\ UNCHANGED behavior
        \/ /\ Valid(b)
           /\ behavior' = b
           /\ Become(t, [local[t] EXCEPT !.pc = "Replace", !.todo = group,
                                         !.chain = Send(group, ReplaceRO)])
           /\ UNCHANGED mu
     /\ suspect' = suspect \cup IF Valid(b) THEN Joining ELSE {}
     /\ UNCHANGED <<group, device, lag, ops, resets, promised, wanted>>

\* Mutant of FinishSetBehavior: a reader whose ROSpec was not replaced has to go.
FinishSetBehaviorExpels(t) ==
  /\ local[t].op = "SetBehavior" /\ ReplaceDone(t)
  /\ Unlock
  /\ Become(t, Returned)
  /\ group' = group \ local[t].failed
  /\ UNCHANGED <<behavior, ops, resets, device, lag, suspect, promised, wanted>>

\* 225-236
FinishSetBehavior(t) ==
  /\ local[t].op = "SetBehavior" /\ ReplaceDone(t)
  /\ Unlock
  /\ Become(t, Returned)
  /\ Private

\* StartAll, 256-277, and StopAll, 280-301: the same loop with different
\* commands, under the read lock from beginning to end.
CallAll(t, op) == Call(t, op, "RLock", Nobody, Nobody) /\ UNCHANGED wanted

EnterAll(t) ==
  /\ local[t].op \in {"StartAll", "StopAll"} /\ local[t].pc = "RLocked"
  /\ RLocked(t)
  /\ Become(t, [local[t] EXCEPT !.pc = "Loop", !.todo = group])
  /\ Private /\ UNCHANGED mu

\* Mutant of CommandsOfAll: StopAll stops what is running, and disables nothing.
CommandsOfAllNoDisable(op) ==
  IF op = "StopAll" THEN <<"Stop">>
  ELSE IF StartTrigger(behavior) = "None" THEN <<"Enable", "Start">> ELSE <<"Enable">>

CommandsOfAll(op) ==
  CASE op = "StartAll" -> IF StartTrigger(behavior) = "None" THEN <<"Enable", "Start">>
                                                             ELSE <<"Enable">>
    [] op = "StopAll"  -> IF StartTrigger(behavior) = "None" THEN <<"Stop", "Disable">>
                                                             ELSE <<"Disable">>

NextOfAll(t, d) ==
  /\ local[t].pc = "Loop" /\ ~Talking(t)
  /\ d \in local[t].todo
  /\ Become(t, [local[t] EXCEPT !.todo = @ \ {d},
                                !.chain = Send({d}, CommandsOfAll(local[t].op))])
  /\ promised' = [promised EXCEPT ![d] = "Nothing"]
  /\ UNCHANGED <<group, behavior, mu, device, lag, ops, resets, suspect, wanted>>

\* Another goroutine is between its commands to the device.
Contended(t, d) ==
  \E u \in Thread \ {t} : local[u].chain[d] # <<>>

\* An error is remembered, and the loop goes on.
CommandOfAll(t, d) ==
  LET cmds == local[t].chain[d]
  IN /\ local[t].pc = "Loop"
     /\ cmds # <<>>
     /\ \E ok \in BOOLEAN :
          /\ Command(Head(cmds), d, Nobody, ok)
          /\ Sent(t, d, Tail(cmds), ok)
          /\ promised' =
               IF Tail(cmds) = <<>> /\ ok /\ d \notin local[t].failed /\ ~Contended(t, d)
               THEN [promised EXCEPT ![d] = IF local[t].op = "StartAll"
                                            THEN "Started" ELSE "Stopped"]
               ELSE promised
     /\ UNCHANGED <<group, behavior, mu, lag, ops, resets, suspect, wanted>>

FinishAll(t) ==
  /\ local[t].pc = "Loop" /\ ~Talking(t) /\ local[t].todo = {}
  /\ RUnlock(t)
  /\ Become(t, Returned)
  /\ Private

\* WriteReaders, 73-83, which writes to its client under the read lock; and
\* Behavior, 65-70, and ProcessTagReport, 91-102, which hold it for a look.
CallLook(t) == Call(t, "Look", "RLock", Nobody, Nobody) /\ UNCHANGED wanted

FinishLook(t) ==
  /\ At(t, "Look", "RLocked")
  /\ RLocked(t)
  /\ RUnlock(t)
  /\ Become(t, Returned)
  /\ Private
-----------------------------------------------------------------------------
Init ==
  /\ group = {}
  /\ behavior = InitialBehavior
  /\ mu = Unlocked
  /\ local = [t \in Thread |-> Returned]
  /\ device = [d \in Device |-> NoSpec]
  /\ lag \in [Device -> Lags]
  /\ ops = 0 /\ resets = 0
  /\ suspect = {}
  /\ promised = [d \in Device |-> "Nothing"]
  /\ wanted = [d \in Device |-> "Unsure"]

Starts(t) ==
  \/ \E d \in Device : CallAddReader(t, d) \/ CallRemoveReader(t, d)
  \/ \E b \in Behavior : CallSetBehavior(t, b)
  \/ \E op \in {"StartAll", "StopAll"} : CallAll(t, op)
  \/ CallLook(t)

Continues(t) ==
  \/ GetCapabilities(t) \/ EnableCustomExt(t) \/ SetConfig(t)
  \/ WantRead(t) \/ CopyBehavior(t)
  \/ \E d \in Device : ReplaceStep(t, d)
  \/ WantInsert(t) \/ WantWrite(t) \/ Insert(t) \/ Remove(t)
  \/ Accept(t) \/ FinishSetBehavior(t)
  \/ EnterAll(t)
  \/ \E d \in Device : NextOfAll(t, d) \/ CommandOfAll(t, d)
  \/ FinishAll(t) \/ FinishLook(t)

\* All operations are over and the bound allows no more.
AllReturned == \A t \in Thread : local[t].op = "None"
Over == ops = MaxOps /\ AllReturned /\ UNCHANGED vars

Next ==
  \/ \E t \in Thread : Starts(t) \/ Continues(t)
  \/ \E d \in Device : Trigger(d) \/ Expire(d) \/ Reset(d)
  \/ Over

Spec == Init /\ [][Next]_vars

-----------------------------------------------------------------------------
(* Correctness *)

Pc == {"Idle", "Query", "Extend", "Config", "RLock", "RLocked", "Lock", "Locked", "Replace", "Loop"}
Op == {"None", "AddReader", "RemoveReader", "SetBehavior", "StartAll", "StopAll", "Look"}
Commands == {<<>>, <<"DeleteAll", "Add">>, <<"Add">>, <<"Enable", "Start">>, <<"Enable">>,
             <<"Start">>, <<"Stop", "Disable">>, <<"Disable">>}

Local == [op : Op, pc : Pc, dev : Device \cup {Nobody}, b : Behavior \cup {Nobody},
          tries : 0..MaxTries-1, todo : SUBSET Device, failed : SUBSET Device,
          chain : [Device -> Commands]]

\* Every variable has the type of the Go value it stands for.
TypeOK ==
  /\ group \subseteq Device
  /\ behavior \in Behavior
  /\ mu \in [writer : Thread \cup {Nobody}, readers : SUBSET Thread,
             queue : SUBSET Thread]
  /\ local \in [Thread -> Local]
  /\ device \in [Device -> ROSpecs]
  /\ lag \in [Device -> Nat]
  /\ ops \in 0..MaxOps /\ resets \in 0..MaxResets
  /\ suspect \subseteq Device
  /\ promised \in [Device -> {"Nothing", "Started", "Stopped"}]
  /\ wanted \in [Device -> {"In", "Out", "Unsure"}]

\* While SetBehavior replaces the group's ROSpecs (reader_group.go 194-195,
\* 225: the write lock is held across it), no StartAll or StopAll is between
\* its commands, no other SetBehavior has begun, and no reader joins or leaves.
Replacing(t) == At(t, "SetBehavior", "Replace")
ReplacesAlone ==
  \A t \in Thread : Replacing(t) =>
     /\ \A u \in Thread \ {t} : ~Replacing(u) /\ local[u].pc # "Loop"
     /\ local[t].todo = group
     /\ local[t].b = behavior

\* A reader of the group can do what the group's behavior asks, and holds its
\* ROSpec, unless an error was returned about it, it restarted, it joined while
\* the behavior changed, or, for the ROSpec, an AddReader or SetBehavior is still
\* at work on it.
Quiet(d) ==
  \A t \in Thread : /\ local[t].op = "AddReader" => local[t].dev # d
                    /\ local[t].op = "SetBehavior" => local[t].pc # "Replace"

EveryoneOnBehavior ==
  \A d \in group \ suspect :
     /\ <<d, behavior>> \in Accepts
     /\ Quiet(d) => device[d] # NoSpec /\ device[d].behavior = behavior

\* What a StartAll or StopAll did to a reader without an error stays done:
\* the started reader is enabled until someone stops it or replaces its
\* ROSpec; the stopped reader does not read until someone starts it, not even
\* when its ROSpec is replaced or its GPI port triggers.
PromisesKept ==
  \A d \in Device :
     /\ promised[d] = "Started" => device[d].state \in {"Inactive", "Active"}
     /\ promised[d] = "Stopped" => device[d].state # "Active"

\* A goroutine that cannot go on before others give back the mutex, and one that
\* has it, or a share of it, in the middle of a call.
Waits(t) ==
  \/ local[t].pc = "Lock" /\ mu.writer # Nobody
  \/ local[t].pc = "Locked" /\ ~Locked(t)
  \/ local[t].pc = "RLocked" /\ ~RLocked(t)

Holds(t) == local[t].op # "None" /\ (mu.writer = t \/ t \in mu.readers)

\* Every reader of the group can do what its behavior asks: "Any changes to
\* the ReaderGroup's Behavior must be accepted by the TagReader"
\* (reader_group.go 121), "The new Behavior must be valid for every TagReader
\* in the ReaderGroup" (171).
GroupAccepts == \A d \in group : <<d, behavior>> \in Accepts

\* The group follows the readers' connection events (controller.go 115-119), as
\* long as those of one reader are handled one after the other: a reader that
\* reported a connection and met with no error is in the group, also when it
\* could be reached only after a while, or refuses commands later; one that
\* reported a close is not.
FollowsEvents ==
  \A d \in Device : ~InTransit(d) =>
     /\ wanted[d] = "In" => d \in group
     /\ wanted[d] = "Out" => d \notin group

\* A reader that the device service notices before GetCapabilities has asked for
\* the last time (device_service.go 107-112), and about which no error is met,
\* joins in the end.
LateReaderJoins ==
  \A d \in Device : wanted[d] = "In" ~> d \in group \/ wanted[d] # "In"

\* Every call returns: nobody waits for ever on the mutex, in whatever order
\* calls come and whatever devices answer.
CallsReturn == \A t \in Thread : local[t].op # "None" ~> local[t].op = "None"

\* Goroutines run, commands are answered one way or another, and a writer
\* does not wait for ever while others get the mutex (sync.RWMutex).
LiveSpec ==
  Spec /\ \A t \in Thread : WF_vars(Continues(t)) /\ SF_vars(WantWrite(t))
=============================================================================
